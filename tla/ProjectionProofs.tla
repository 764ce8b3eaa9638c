---------------------------- MODULE ProjectionProofs ----------------------------
(***************************************************************************)
(* Proofs about Projection, for every document, every command and values   *)
(* however deep.  What the search for a path shows is right by the lemmas  *)
(* of DescendantsProofs.                                                   *)
(***************************************************************************)
EXTENDS Projection, DescendantsProofs, FiniteSetTheorems

(***************************************************************************)
(* Lists: FlattenSeq from the right, and under Values.                     *)
(***************************************************************************)
\* Numbers up to one, from zero on.
LEMMA UpFromZero ==
  ASSUME NEW n \in Nat, NEW P, P \subseteq 0 .. n, 0 \in P,
         \A m \in 0 .. n - 1 : m \in P => m + 1 \in P
  PROVE  P = 0 .. n
<1> DEFINE C == 0 .. n
           depth == [i \in C |-> i]
<1>1. \A i \in C : (\A k \in C : depth[k] < depth[i] => k \in P) => i \in P
  <2> SUFFICES ASSUME NEW i \in C, \A k \in C : depth[k] < depth[i] => k \in P
               PROVE  i \in P
    OBVIOUS
  <2>1. i # 0 => i - 1 \in C /\ depth[i - 1] < depth[i] /\ i - 1 \in 0 .. n - 1 /\ (i - 1) + 1 = i
    OBVIOUS
  <2>2. i # 0 => i - 1 \in P
    BY <2>1
  <2>3. CASE i = 0
    BY <2>3
  <2>4. CASE i # 0
    BY <2>1, <2>2, <2>4
  <2> QED
    BY <2>3, <2>4
<1>2. depth \in [C -> Nat] /\ P \subseteq C
  OBVIOUS
<1> HIDE DEF C, depth
<1>3. P = C
  BY <1>1, <1>2, Shallowest
<1> QED
  BY <1>3 DEF C

\* A list without its last element.
ButLast(s) == [k \in 1 .. Len(s) - 1 |-> s[k]]

\* The last of the sequences comes last.
LEMMA FlattenLast ==
  ASSUME NEW T, NEW s \in Seq(Seq(T)), s # << >>
  PROVE  /\ ButLast(s) \in Seq(Seq(T))
         /\ FlattenSeq(ButLast(s)) \in Seq(T)
         /\ s[Len(s)] \in Seq(T)
         /\ FlattenSeq(s) = FlattenSeq(ButLast(s)) \o s[Len(s)]
<1> DEFINE n == Len(s)
           t == ButLast(s)
<1>1. n \in Nat \ {0} /\ \A i \in 1 .. n : s[i] \in Seq(T)
  BY InSeq
<1>2. t \in Seq(Seq(T)) /\ Len(t) = n - 1 /\ \A i \in 1 .. n - 1 : t[i] = s[i]
  BY <1>1 DEF ButLast
<1>3. FlattenSeq(t) \in Seq(T)
  <2>1. << >> \in Seq(T)
    OBVIOUS
  <2> HIDE DEF t
  <2> QED
    BY <1>2, <2>1, FlattenCons
<1>4. PICK f : Flat(T, s, f) /\ FlattenSeq(s) = f[n]
  BY FlattenIs
<1>5. CASE n = 1
  <2>1. t = << >>
    <3> HIDE DEF t
    <3> QED
      BY <1>2, <1>5
  <2>2. FlattenSeq(t) = << >>
    BY <2>1 DEF FlattenSeq
  <2>3. FlattenSeq(s) = s[1]
    BY <1>1, <1>4, <1>5 DEF Flat
  <2>4. << >> \o s[1] = s[1]
    BY <1>1, Joined
  <2> QED
    BY <1>1, <1>2, <1>3, <1>5, <2>2, <2>3, <2>4
<1>6. CASE n # 1
  <2>1. t # << >> /\ n - 1 \in Nat \ {0}
    <3>1. Len(t) # 0
      BY <1>1, <1>2, <1>6
    <3> HIDE DEF t
    <3> QED
      BY <1>1, <1>6, <3>1
  <2>2. PICK g : Flat(T, t, g) /\ FlattenSeq(t) = g[n - 1]
    <3> HIDE DEF t
    <3> QED
      BY <1>2, <2>1, FlattenIs
  <2> DEFINE P == {i \in 1 .. n - 1 : f[i] = g[i]}
  <2> HIDE DEF t
  <2>3. ASSUME NEW i \in 1 .. n - 1, i # 1 => i - 1 \in P PROVE i \in P
    <3>1. i \in 1 .. n /\ t[i] = s[i]
      BY <1>1, <1>2
    <3>2. f[i] = IF i = 1 THEN s[i] ELSE f[i - 1] \o s[i]
      BY <1>4, <3>1 DEF Flat
    <3>3. g[i] = IF i = 1 THEN s[i] ELSE g[i - 1] \o s[i]
      BY <1>2, <2>2, <3>1 DEF Flat
    <3>4. i # 1 => f[i - 1] = g[i - 1]
      BY <2>3
    <3> QED
      BY <3>2, <3>3, <3>4
  <2>4. P = 1 .. n - 1
    <3>1. P \subseteq 1 .. n - 1
      OBVIOUS
    <3>2. \A i \in 1 .. n - 1 : (i # 1 => i - 1 \in P) => i \in P
      BY <2>3
    <3> HIDE DEF P, n
    <3> QED
      BY <2>1, <3>1, <3>2, FromTheFirst
  <2>5. f[n - 1] = g[n - 1]
    <3>1. n - 1 \in 1 .. n - 1
      <4>1. n \in Nat /\ n - 1 \in Nat \ {0}
        BY <1>1, <2>1
      <4> HIDE DEF n
      <4> QED
        BY <4>1
    <3>2. n - 1 \in P
      <4> HIDE DEF P, n
      <4> QED
        BY <2>4, <3>1
    <3> QED
      BY <3>2
  <2>6. f[n] = f[n - 1] \o s[n]
    <3>1. n \in 1 .. n
      BY <1>1
    <3> HIDE DEF t, P
    <3> QED
      BY <1>4, <1>6, <3>1 DEF Flat
  <2> QED
    BY <1>1, <1>2, <1>3, <1>4, <2>2, <2>5, <2>6 DEF t
<1> QED
  BY <1>5, <1>6

\* One sequence alone.
LEMMA FlattenOne ==
  ASSUME NEW T, NEW x \in Seq(T)
  PROVE  FlattenSeq(<<x>>) = x
<1>1. <<x>> \o << >> = <<x>>
  BY ConcatEmptySeq
<1>2. FlattenSeq(<<x>> \o << >>) = x \o FlattenSeq(<< >>)
  <2>1. << >> \in Seq(Seq(T))
    OBVIOUS
  <2> QED
    BY <2>1, FlattenCons
<1>3. FlattenSeq(<< >>) = << >> /\ x \o << >> = x
  BY ConcatEmptySeq DEF FlattenSeq
<1> QED
  BY <1>1, <1>2, <1>3

\* The entries of an array that is filled.
Filled == Seq([key : Nat, val : Value])

\* The values of two parts of an array.
LEMMA ValuesJoin ==
  ASSUME NEW u \in Filled, NEW w \in Filled
  PROVE  /\ u \o w \in Filled
         /\ Values(u) \in Seq(Value)
         /\ Values(u \o w) = Values(u) \o Values(w)
<1> DEFINE E == [key : Nat, val : Value]
<1>1. u \in Seq(E) /\ w \in Seq(E)
  BY DEF Filled
<1>2. \A x \in Seq(E) : Values(x) \in Seq(Value) /\ Len(Values(x)) = Len(x)
                          /\ \A i \in 1 .. Len(x) : Values(x)[i] = x[i].val
  <2> SUFFICES ASSUME NEW x \in Seq(E)
               PROVE  Values(x) \in Seq(Value) /\ Len(Values(x)) = Len(x)
                        /\ \A i \in 1 .. Len(x) : Values(x)[i] = x[i].val
    OBVIOUS
  <2>1. DOMAIN x = 1 .. Len(x) /\ Len(x) \in Nat /\ \A i \in DOMAIN x : x[i].val \in Value
    <3>1. DOMAIN x = 1 .. Len(x) /\ Len(x) \in Nat /\ \A i \in DOMAIN x : x[i] \in E
      <4> HIDE DEF E
      <4> QED
        BY InSeq
    <3> QED
      BY <3>1
  <2>2. Values(x) = [k \in 1 .. Len(x) |-> x[k].val]
    BY <2>1 DEF Values
  <2> QED
    BY <2>1, <2>2
<1> HIDE DEF E
<1>3. /\ u \o w \in Seq(E) /\ Len(u \o w) = Len(u) + Len(w)
      /\ \A i \in 1 .. Len(u) + Len(w) : (u \o w)[i] = IF i <= Len(u) THEN u[i] ELSE w[i - Len(u)]
  BY <1>1, ConcatProperties
<1> DEFINE a == Values(u)
           b == Values(w)
           c == Values(u \o w)
<1>4. /\ a \in Seq(Value) /\ b \in Seq(Value) /\ c \in Seq(Value)
      /\ Len(a) = Len(u) /\ Len(b) = Len(w) /\ Len(c) = Len(u) + Len(w)
      /\ Len(u) \in Nat /\ Len(w) \in Nat
  BY <1>1, <1>2, <1>3, LenProperties
<1>5. /\ a \o b \in Seq(Value) /\ Len(a \o b) = Len(u) + Len(w)
      /\ \A i \in 1 .. Len(u) + Len(w) : (a \o b)[i] = IF i <= Len(u) THEN a[i] ELSE b[i - Len(u)]
  <2> HIDE DEF a, b, c
  <2> QED
    BY <1>4, ConcatProperties
<1>6. ASSUME NEW i \in 1 .. Len(u) + Len(w) PROVE c[i] = (a \o b)[i]
  <2>1. c[i] = (u \o w)[i].val
    BY <1>2, <1>3
  <2>2. CASE i <= Len(u)
    <3>1. i \in 1 .. Len(u)
      BY <1>4, <2>2
    <3>2. a[i] = u[i].val
      BY <1>1, <1>2, <3>1
    <3> HIDE DEF a, b, c
    <3> QED
      BY <1>3, <1>5, <2>1, <2>2, <3>2
  <2>3. CASE ~(i <= Len(u))
    <3>1. i - Len(u) \in 1 .. Len(w)
      BY <1>4, <2>3
    <3>2. b[i - Len(u)] = w[i - Len(u)].val
      BY <1>1, <1>2, <3>1
    <3> HIDE DEF a, b, c
    <3> QED
      BY <1>3, <1>5, <2>1, <2>3, <3>2
  <2> QED
    BY <2>2, <2>3
<1>7. c = a \o b
  <2> HIDE DEF a, b, c
  <2> QED
    BY <1>4, <1>5, <1>6, SeqEqual
<1> QED
  BY <1>1, <1>3, <1>4, <1>7 DEF Filled, E

\* Two lists of filled arrays and of their values, one after the other.
LEMMA FlattenValues ==
  ASSUME NEW n \in Nat, NEW s \in [1 .. n -> Filled], NEW t \in [1 .. n -> Seq(Value)],
         \A k \in 1 .. n : Values(s[k]) = t[k]
  PROVE  /\ FlattenSeq(s) \in Filled
         /\ Values(FlattenSeq(s)) = FlattenSeq(t)
<1> DEFINE upTo(f, m) == [k \in 1 .. m |-> f[k]]
           P == {m \in 0 .. n : Values(FlattenSeq(upTo(s, m))) = FlattenSeq(upTo(t, m))}
<1>1. \A m \in 0 .. n : /\ upTo(s, m) \in Seq(Filled) /\ Len(upTo(s, m)) = m
                        /\ upTo(t, m) \in Seq(Seq(Value)) /\ Len(upTo(t, m)) = m
  OBVIOUS
<1>2. 0 \in P
  <2>1. upTo(s, 0) = << >> /\ upTo(t, 0) = << >>
    OBVIOUS
  <2>2. FlattenSeq(<< >>) = << >>
    BY DEF FlattenSeq
  <2>3. Values(<< >>) = << >>
    BY DEF Values
  <2>4. Values(FlattenSeq(upTo(s, 0))) = FlattenSeq(upTo(t, 0))
    BY <2>1, <2>2, <2>3
  <2> QED
    BY <2>4
<1>3. ASSUME NEW m \in 0 .. n - 1, m \in P PROVE m + 1 \in P
  <2> DEFINE a == upTo(s, m + 1)
             b == upTo(t, m + 1)
  <2>1. /\ a \in Seq(Filled) /\ Len(a) = m + 1 /\ b \in Seq(Seq(Value)) /\ Len(b) = m + 1
        /\ m + 1 \in 1 .. n
    BY <1>1
  <2>2. a[m + 1] = s[m + 1] /\ b[m + 1] = t[m + 1]
    BY <2>1
  <2>3. ButLast(a) = upTo(s, m) /\ ButLast(b) = upTo(t, m)
    <3>1. Len(a) - 1 = m /\ Len(b) - 1 = m /\ \A k \in 1 .. m : k \in 1 .. m + 1
      BY <2>1
    <3> QED
      BY <3>1 DEF ButLast
  <2>4. a # << >> /\ b # << >>
    <3>1. Len(a) # 0 /\ Len(b) # 0
      BY <2>1
    <3> HIDE DEF a, b
    <3> QED
      BY <3>1
  <2> HIDE DEF a, b, upTo
  <2>5. /\ FlattenSeq(upTo(s, m)) \in Filled /\ s[m + 1] \in Filled
        /\ FlattenSeq(a) = FlattenSeq(upTo(s, m)) \o s[m + 1]
    BY <2>1, <2>2, <2>3, <2>4, FlattenLast DEF Filled
  <2>6. FlattenSeq(b) = FlattenSeq(upTo(t, m)) \o t[m + 1]
    BY <2>1, <2>2, <2>3, <2>4, FlattenLast
  <2>7. Values(FlattenSeq(a)) = Values(FlattenSeq(upTo(s, m))) \o Values(s[m + 1])
    BY <2>5, ValuesJoin
  <2>8. Values(FlattenSeq(upTo(s, m))) = FlattenSeq(upTo(t, m)) /\ Values(s[m + 1]) = t[m + 1]
    BY <1>3, <2>1
  <2>9. Values(FlattenSeq(a)) = FlattenSeq(b)
    BY <2>6, <2>7, <2>8
  <2> QED
    BY <2>9 DEF a, b
<1>4. n \in P
  <2> HIDE DEF P, upTo
  <2>1. P = 0 .. n
    <3>1. P \subseteq 0 .. n
      BY DEF P
    <3> QED
      BY <1>2, <1>3, <3>1, UpFromZero
  <2> QED
    BY <2>1
<1>5. upTo(s, n) = s /\ upTo(t, n) = t
  OBVIOUS
<1>6. FlattenSeq(s) \in Filled
  <2>1. s \in Seq(Filled)
    OBVIOUS
  <2>2. << >> \in Filled
    BY DEF Filled
  <2> QED
    BY <2>1, <2>2, FlattenCons DEF Filled
<1> QED
  BY <1>4, <1>5, <1>6
-----------------------------------------------------------------------------
(***************************************************************************)
(* The recursions over values, unfolded once.                              *)
(***************************************************************************)
\* The values of the items of a value that is an array.
Inner(v) == {v.items[k].val : k \in {k \in DOMAIN v.items : v.type = "array"}}

\* What is in an array are values, and less deep.
LEMMA InnerParts ==
  ASSUME NEW v \in Value, v.type = "array"
  PROVE  /\ v.items \in Items /\ DOMAIN v.items = 1 .. Len(v.items) /\ Len(v.items) \in Nat
         /\ \A k \in 1 .. Len(v.items) : /\ v.items[k].val \in Value
                                         /\ v.items[k].val \in Inner(v)
                                         /\ ValueDepth[v.items[k].val] < ValueDepth[v]
<1>1. v.items \in Items
  BY ValueAssumption DEF Container
<1>2. DOMAIN v.items = 1 .. Len(v.items) /\ Len(v.items) \in Nat
      /\ \A k \in DOMAIN v.items : v.items[k].val \in Value
  BY <1>1, ItemsParts
<1>3. \A k \in DOMAIN v.items : ValueDepth[v.items[k].val] < ValueDepth[v]
  BY DepthAssumption DEF Container
<1>4. \A k \in DOMAIN v.items : v.items[k].val \in Inner(v)
  BY DEF Inner
<1> QED
  BY <1>1, <1>2, <1>3, <1>4

\* What a recursion over values does at each of them.
OverValues(T, B) == \A v \in Value : \A g \in [Inner(v) -> T] : B[v][g] \in T

\* A recursion over values exists.
LEMMA ValueRecursion ==
  ASSUME NEW T, NEW B, OverValues(T, B)
  PROVE  \E f \in [Value -> T] : \A v \in Value : f[v] = B[v][[k \in Inner(v) |-> f[k]]]
<1> DEFINE K == [v \in Value |-> Inner(v)]
<1>1. \A v \in Value : Inner(v) \subseteq Value /\ \A k \in Inner(v) : ValueDepth[k] < ValueDepth[v]
  <2> SUFFICES ASSUME NEW v \in Value, NEW w \in Inner(v)
               PROVE  w \in Value /\ ValueDepth[w] < ValueDepth[v]
    OBVIOUS
  <2>1. PICK k \in DOMAIN v.items : v.type = "array" /\ w = v.items[k].val
    BY DEF Inner
  <2> QED
    BY <2>1, InnerParts
<1>2. K \in [Value -> SUBSET Value] /\ \A v \in Value : K[v] = Inner(v)
  BY <1>1
<1>3. ValueDepth \in [Value -> Nat]
  BY DepthAssumption
<1> HIDE DEF K
<1>4. Recursive(Value, T, ValueDepth, K, B)
  BY <1>1, <1>2, <1>3 DEF Recursive, OverValues
<1>5. PICK f \in [Value -> T] : \A v \in Value : f[v] = B[v][[k \in K[v] |-> f[k]]]
  BY <1>4, RecursionExists
<1>6. \A v \in Value : [k \in K[v] |-> f[k]] = [k \in Inner(v) |-> f[k]]
  BY <1>2
<1> QED
  BY <1>5, <1>6

\* What holds of a value when it holds of those in it holds of all values.
LEMMA ValueInduction ==
  ASSUME NEW P, P \subseteq Value, \A v \in Value : Inner(v) \subseteq P => v \in P
  PROVE  P = Value
<1>1. \A v \in Value : (\A k \in Value : ValueDepth[k] < ValueDepth[v] => k \in P) => v \in P
  <2> SUFFICES ASSUME NEW v \in Value, \A k \in Value : ValueDepth[k] < ValueDepth[v] => k \in P,
                      NEW w \in Inner(v)
               PROVE  w \in P
    OBVIOUS
  <2>1. PICK k \in DOMAIN v.items : v.type = "array" /\ w = v.items[k].val
    BY DEF Inner
  <2>2. w \in Value /\ ValueDepth[w] < ValueDepth[v]
    BY <2>1, InnerParts
  <2> QED
    BY <2>2
<1> QED
  BY <1>1, Shallowest, DepthAssumption

\* One step of Leaves.
LeavesStep(g, v) ==
  CASE v.type = "null"  -> << >>
    [] v.type = "array" -> FlattenSeq([k \in DOMAIN v.items |-> g[v.items[k].val]])
    [] OTHER            -> <<v>>

\* The leaves of a value are values.
LEMMA LeavesStepType ==
  ASSUME NEW v \in Value, NEW g, \A w \in Inner(v) : g[w] \in Seq(Value)
  PROVE  /\ LeavesStep(g, v) \in Seq(Value)
         /\ v.type = "array" =>
              [k \in DOMAIN v.items |-> g[v.items[k].val]] \in [1 .. Len(v.items) -> Seq(Value)]
<1>1. CASE v.type = "array"
  <2> DEFINE s == [k \in DOMAIN v.items |-> g[v.items[k].val]]
  <2>1. s \in [1 .. Len(v.items) -> Seq(Value)] /\ Len(v.items) \in Nat
    BY <1>1, InnerParts
  <2>2. s \in Seq(Seq(Value)) /\ << >> \in Seq(Value)
    <3> HIDE DEF s
    <3> QED
      BY <2>1
  <2>3. FlattenSeq(s) \in Seq(Value)
    <3> HIDE DEF s
    <3> QED
      BY <2>2, FlattenCons
  <2>4. LeavesStep(g, v) = FlattenSeq(s)
    BY <1>1 DEF LeavesStep
  <2> QED
    BY <2>1, <2>3, <2>4
<1>2. CASE v.type # "array"
  <2>1. LeavesStep(g, v) = IF v.type = "null" THEN << >> ELSE <<v>>
    BY <1>2 DEF LeavesStep
  <2> QED
    BY <1>2, <2>1
<1> QED
  BY <1>1, <1>2

\* The function that the definition of Leaves chooses is one.
LEMMA LeavesUnfold ==
  /\ Leaves \in [Value -> Seq(Value)]
  /\ \A v \in Value : Leaves[v] = LeavesStep(Leaves, v)
<1> DEFINE T == Seq(Value)
           B == [v \in Value |-> [g \in [Inner(v) -> T] |-> LeavesStep(g, v)]]
<1>1. \A v \in Value : \A g \in [Inner(v) -> T] : B[v][g] \in T /\ B[v][g] = LeavesStep(g, v)
  BY LeavesStepType
<1>2. PICK f \in [Value -> T] : \A v \in Value : f[v] = B[v][[k \in Inner(v) |-> f[k]]]
  <2>1. OverValues(T, B)
    BY <1>1 DEF OverValues
  <2> HIDE DEF B, T
  <2> QED
    BY <2>1, ValueRecursion
<1>3. \A v \in Value : LeavesStep([k \in Inner(v) |-> f[k]], v) = LeavesStep(f, v)
  <2> SUFFICES ASSUME NEW v \in Value
               PROVE  LeavesStep([k \in Inner(v) |-> f[k]], v) = LeavesStep(f, v)
    OBVIOUS
  <2>1. CASE v.type = "array"
    <3> DEFINE g == [k \in Inner(v) |-> f[k]]
    <3>1. \A k \in DOMAIN v.items : g[v.items[k].val] = f[v.items[k].val]
      BY <2>1, InnerParts
    <3> HIDE DEF g
    <3>2. [k \in DOMAIN v.items |-> g[v.items[k].val]] = [k \in DOMAIN v.items |-> f[v.items[k].val]]
      BY <3>1
    <3> QED
      BY <2>1, <3>2 DEF LeavesStep, g
  <2>2. CASE v.type # "array"
    BY <2>2 DEF LeavesStep
  <2> QED
    BY <2>1, <2>2
<1>4. \A v \in Value : [k \in Inner(v) |-> f[k]] \in [Inner(v) -> T]
  <2> SUFFICES ASSUME NEW v \in Value, NEW w \in Inner(v) PROVE w \in Value
    OBVIOUS
  <2>1. PICK k \in DOMAIN v.items : v.type = "array" /\ w = v.items[k].val
    BY DEF Inner
  <2> QED
    BY <2>1, InnerParts
<1>5. \A v \in Value : f[v] = LeavesStep(f, v)
  <2> HIDE DEF B, T
  <2> QED
    BY <1>1, <1>2, <1>3, <1>4
<1>6. f = [v \in Value |-> CASE v.type = "null"  -> << >>
                             [] v.type = "array" -> FlattenSeq([k \in DOMAIN v.items |-> f[v.items[k].val]])
                             [] OTHER            -> <<v>>]
  <2> HIDE DEF B, T
  <2> QED
    BY <1>5 DEF LeavesStep
<1>7. Leaves = [v \in Value |-> CASE v.type = "null"  -> << >>
                             [] v.type = "array" -> FlattenSeq([k \in DOMAIN v.items |-> Leaves[v.items[k].val]])
                             [] OTHER            -> <<v>>]
  BY <1>6 DEF Leaves
<1>8. \A v \in Value : Leaves[v] = LeavesStep(Leaves, v)
  <2> HIDE DEF B, T
  <2> QED
    BY <1>7 DEF LeavesStep
<1>9. \A v \in Value : Leaves[v] \in Seq(Value)
  <2> DEFINE P == {v \in Value : Leaves[v] \in Seq(Value)}
  <2>1. \A v \in Value : Inner(v) \subseteq P => v \in P
    <3> SUFFICES ASSUME NEW v \in Value, Inner(v) \subseteq P PROVE Leaves[v] \in Seq(Value)
      OBVIOUS
    <3>1. \A w \in Inner(v) : Leaves[w] \in Seq(Value)
      OBVIOUS
    <3> QED
      BY <1>8, <3>1, LeavesStepType
  <2>2. P = Value
    <3>1. P \subseteq Value
      OBVIOUS
    <3> HIDE DEF P
    <3> QED
      BY <2>1, <3>1, ValueInduction
  <2> QED
    BY <2>2
<1> QED
  BY <1>7, <1>8, <1>9
\* Sequences of one element each make the sequence of those.
LEMMA FlattenSingles ==
  ASSUME NEW T, NEW n \in Nat, NEW e \in [1 .. n -> T]
  PROVE  FlattenSeq([k \in 1 .. n |-> <<e[k]>>]) = e
<1> DEFINE s(m) == [k \in 1 .. m |-> <<e[k]>>]
           r(m) == [k \in 1 .. m |-> e[k]]
           P    == {m \in 0 .. n : FlattenSeq(s(m)) = r(m)}
<1>1. \A m \in 0 .. n : /\ s(m) \in Seq(Seq(T)) /\ Len(s(m)) = m
                        /\ r(m) \in Seq(T) /\ Len(r(m)) = m
  OBVIOUS
<1>2. 0 \in P
  <2>1. s(0) = << >> /\ r(0) = << >>
    OBVIOUS
  <2>2. FlattenSeq(<< >>) = << >>
    BY DEF FlattenSeq
  <2>3. FlattenSeq(s(0)) = r(0)
    BY <2>1, <2>2
  <2> QED
    BY <2>3
<1>3. ASSUME NEW m \in 0 .. n - 1, m \in P PROVE m + 1 \in P
  <2> DEFINE a == s(m + 1)
  <2>1. a \in Seq(Seq(T)) /\ Len(a) = m + 1 /\ a[m + 1] = <<e[m + 1]>> /\ e[m + 1] \in T
        /\ m \in 0 .. n /\ m + 1 \in 0 .. n
    BY <1>1
  <2>2. ButLast(a) = s(m)
    <3>1. Len(a) - 1 = m /\ \A k \in 1 .. m : k \in 1 .. m + 1
      BY <2>1
    <3> QED
      BY <3>1 DEF ButLast
  <2>3. a # << >>
    <3>1. Len(a) # 0
      BY <2>1
    <3> HIDE DEF a
    <3> QED
      BY <3>1
  <2>4. FlattenSeq(a) = FlattenSeq(s(m)) \o <<e[m + 1]>>
    <3> HIDE DEF a, s
    <3> QED
      BY <2>1, <2>2, <2>3, FlattenLast
  <2>5. r(m) \o <<e[m + 1]>> = r(m + 1)
    <3> DEFINE x == <<e[m + 1]>>
               y == r(m)
    <3>1. x \in Seq(T) /\ Len(x) = 1 /\ x[1] = e[m + 1] /\ y \in Seq(T) /\ Len(y) = m /\ m \in Nat
      BY <1>1, <2>1
    <3>2. /\ y \o x \in Seq(T) /\ Len(y \o x) = m + 1
          /\ \A i \in 1 .. m + 1 : (y \o x)[i] = IF i <= m THEN y[i] ELSE x[i - m]
      <4> HIDE DEF x, y
      <4>1. /\ y \o x \in Seq(T) /\ Len(y \o x) = Len(y) + Len(x)
            /\ \A i \in 1 .. Len(y) + Len(x) : (y \o x)[i] = IF i <= Len(y) THEN y[i] ELSE x[i - Len(y)]
        BY <3>1, ConcatProperties
      <4>2. Len(y) = m /\ Len(x) = 1
        BY <3>1
      <4> QED
        BY <4>1, <4>2
    <3>3. r(m + 1) \in Seq(T) /\ Len(r(m + 1)) = m + 1
      BY <1>1, <2>1
    <3>4. ASSUME NEW i \in 1 .. m + 1 PROVE (y \o x)[i] = r(m + 1)[i]
      <4>1. CASE i <= m
        <5>1. y[i] = e[i]
          BY <4>1
        <5> HIDE DEF x, y
        <5> QED
          BY <3>2, <4>1, <5>1
      <4>2. CASE ~(i <= m)
        <5>1. i = m + 1 /\ i - m = 1
          BY <3>1, <4>2
        <5> HIDE DEF x, y
        <5> QED
          BY <3>1, <3>2, <4>2, <5>1
      <4> QED
        BY <4>1, <4>2
    <3> HIDE DEF x, y, r
    <3>5. y \o x = r(m + 1)
      BY <3>2, <3>3, <3>4, SeqEqual
    <3> QED
      BY <3>5 DEF x, y
  <2>6. FlattenSeq(s(m)) = r(m)
    BY <1>3
  <2>7. FlattenSeq(s(m + 1)) = r(m + 1)
    <3> HIDE DEF s, r
    <3> QED
      BY <2>4, <2>5, <2>6 DEF a
  <2> QED
    BY <2>1, <2>7
<1>4. P = 0 .. n
  <2>1. P \subseteq 0 .. n
    OBVIOUS
  <2> HIDE DEF P
  <2> QED
    BY <1>2, <1>3, <2>1, UpFromZero
<1>5. s(n) = [k \in 1 .. n |-> <<e[k]>>] /\ r(n) = e
  OBVIOUS
<1>6. FlattenSeq(s(n)) = r(n)
  <2>1. n \in P
    <3> HIDE DEF P
    <3> QED
      BY <1>4
  <2> QED
    BY <2>1
<1> QED
  BY <1>5, <1>6

\* What a value adds is a number.
LEMMA AddedIs ==
  ASSUME NEW v \in Value
  PROVE  Added(v) \in Nat
<1>1. CASE v.type = "array"
  BY <1>1, InnerParts DEF Added
<1>2. CASE v.type # "array"
  BY <1>2 DEF Added
<1> QED
  BY <1>1, <1>2

\* The items of an array start where the one before is reported to end.
StartsFrom(items, i, from) ==
  /\ from \in [1 .. Len(items) -> Nat]
  /\ \A k \in 1 .. Len(items) :
       from[k] = IF k = 1 THEN i ELSE from[k - 1] + Added(items[k - 1].val)

\* Starts, an item at a time.
LEMMA StartsUnfold ==
  ASSUME NEW items \in Items, NEW i \in Nat
  PROVE  StartsFrom(items, i, Starts(items, i))
<1> DEFINE n == Len(items)
           C == 1 .. n
           depth == [k \in C |-> k]
           K == [k \in C |-> IF k = 1 THEN {} ELSE {k - 1}]
           B == [k \in C |-> [g \in [K[k] -> Nat] |->
                                IF k = 1 THEN i ELSE g[k - 1] + Added(items[k - 1].val)]]
<1>0. n \in Nat /\ DOMAIN items = C /\ \A k \in C : Added(items[k].val) \in Nat
  BY ItemsParts, AddedIs
<1>1. Recursive(C, Nat, depth, K, B)
  <2>1. depth \in [C -> Nat] /\ K \in [C -> SUBSET C]
    BY <1>0
  <2>2. \A k \in C : \A j \in K[k] : depth[j] < depth[k]
    BY <1>0
  <2>3. \A k \in C : \A g \in [K[k] -> Nat] : B[k][g] \in Nat
    <3> SUFFICES ASSUME NEW k \in C, NEW g \in [K[k] -> Nat]
                 PROVE  (IF k = 1 THEN i ELSE g[k - 1] + Added(items[k - 1].val)) \in Nat
      OBVIOUS
    <3>1. CASE k = 1
      BY <3>1
    <3>2. CASE k # 1
      <4>1. g[k - 1] \in Nat
        BY <3>2
      <4>2. k - 1 \in C
        BY <1>0, <3>2
      <4> QED
        BY <1>0, <3>2, <4>1, <4>2
    <3> QED
      BY <3>1, <3>2
  <2> HIDE DEF B, K, depth
  <2> QED
    BY <2>1, <2>2, <2>3 DEF Recursive
<1>2. PICK f \in [C -> Nat] : \A k \in C : f[k] = B[k][[j \in K[k] |-> f[j]]]
  <2> HIDE DEF C, K, B, depth
  <2> QED
    BY <1>1, RecursionExists
<1>3. \A k \in C : f[k] = IF k = 1 THEN i ELSE f[k - 1] + Added(items[k - 1].val)
  <2> SUFFICES ASSUME NEW k \in C
               PROVE  f[k] = IF k = 1 THEN i ELSE f[k - 1] + Added(items[k - 1].val)
    OBVIOUS
  <2> DEFINE g == [j \in K[k] |-> f[j]]
  <2>1. K[k] \subseteq C
    BY <1>0
  <2>2. g \in [K[k] -> Nat]
    BY <2>1
  <2>3. k # 1 => g[k - 1] = f[k - 1]
    OBVIOUS
  <2>4. f[k] = B[k][g]
    BY <1>2
  <2> HIDE DEF g
  <2>5. B[k][g] = IF k = 1 THEN i ELSE g[k - 1] + Added(items[k - 1].val)
    BY <2>2
  <2> QED
    BY <2>3, <2>4, <2>5
<1>4. f = [k \in DOMAIN items |-> IF k = 1 THEN i ELSE f[k - 1] + Added(items[k - 1].val)]
  BY <1>0, <1>3
<1> DEFINE F == CHOOSE h : h = [k \in DOMAIN items |->
                                  IF k = 1 THEN i ELSE h[k - 1] + Added(items[k - 1].val)]
<1>5. F = [k \in DOMAIN items |-> IF k = 1 THEN i ELSE F[k - 1] + Added(items[k - 1].val)]
  BY <1>4
<1>6. Starts(items, i) = F
  BY DEF Starts
<1> HIDE DEF F
<1>7. \A k \in C : F[k] \in Nat
  <2> DEFINE P == {k \in C : F[k] \in Nat}
  <2>1. ASSUME NEW k \in C, k # 1 => k - 1 \in P PROVE k \in P
    <3>1. F[k] = IF k = 1 THEN i ELSE F[k - 1] + Added(items[k - 1].val)
      BY <1>0, <1>5
    <3>2. k # 1 => k - 1 \in C
      BY <1>0
    <3> QED
      BY <1>0, <2>1, <3>1, <3>2
  <2>2. P \subseteq 1 .. n
    OBVIOUS
  <2>3. \A k \in 1 .. n : (k # 1 => k - 1 \in P) => k \in P
    BY <2>1
  <2> HIDE DEF P, n
  <2>4. P = 1 .. n
    BY <1>0, <2>2, <2>3, FromTheFirst
  <2> QED
    BY <2>4 DEF P
<1> QED
  BY <1>0, <1>5, <1>6, <1>7 DEF StartsFrom
\* One step of Into.
IntoStep(g, v, i) ==
  CASE v.type = "null"  -> << >>
    [] v.type = "array" -> FlattenSeq([k \in DOMAIN v.items |->
                                         g[v.items[k].val][Starts(v.items, i)[k]]])
    [] OTHER            -> <<[key |-> i, val |-> v]>>

\* What a value adds to an array is entries of an array.
LEMMA IntoStepType ==
  ASSUME NEW v \in Value, NEW g, \A w \in Inner(v) : g[w] \in [Nat -> Filled], NEW i \in Nat
  PROVE  /\ IntoStep(g, v, i) \in Filled
         /\ v.type = "array" =>
              [k \in DOMAIN v.items |-> g[v.items[k].val][Starts(v.items, i)[k]]]
                \in [1 .. Len(v.items) -> Filled]
<1>1. CASE v.type = "array"
  <2> DEFINE s == [k \in DOMAIN v.items |-> g[v.items[k].val][Starts(v.items, i)[k]]]
  <2>1. /\ v.items \in Items /\ DOMAIN v.items = 1 .. Len(v.items) /\ Len(v.items) \in Nat
        /\ \A k \in 1 .. Len(v.items) : v.items[k].val \in Inner(v)
    BY <1>1, InnerParts
  <2>2. \A k \in 1 .. Len(v.items) : Starts(v.items, i)[k] \in Nat
    BY <2>1, StartsUnfold DEF StartsFrom
  <2>3. s \in [1 .. Len(v.items) -> Filled]
    <3>1. \A k \in 1 .. Len(v.items) : g[v.items[k].val][Starts(v.items, i)[k]] \in Filled
      BY <2>1, <2>2
    <3> QED
      BY <2>1, <3>1
  <2>4. s \in Seq(Filled) /\ << >> \in Filled
    <3>1. << >> \in Filled
      BY DEF Filled
    <3> HIDE DEF s
    <3> QED
      BY <2>1, <2>3, <3>1
  <2>5. FlattenSeq(s) \in Filled
    <3> HIDE DEF s
    <3> QED
      BY <2>4, FlattenCons DEF Filled
  <2>6. IntoStep(g, v, i) = FlattenSeq(s)
    BY <1>1 DEF IntoStep
  <2> QED
    BY <2>3, <2>5, <2>6
<1>2. CASE v.type # "array"
  <2>1. IntoStep(g, v, i) = IF v.type = "null" THEN << >> ELSE <<[key |-> i, val |-> v]>>
    BY <1>2 DEF IntoStep
  <2>2. [key |-> i, val |-> v] \in [key : Nat, val : Value]
    OBVIOUS
  <2>3. << >> \in Filled /\ <<[key |-> i, val |-> v]>> \in Filled
    BY <2>2 DEF Filled
  <2> QED
    BY <1>2, <2>1, <2>3
<1> QED
  BY <1>1, <1>2

\* The function that the definition of Into chooses is one.
LEMMA IntoUnfold ==
  /\ Into \in [Value -> [Nat -> Filled]]
  /\ \A v \in Value : \A i \in Nat : Into[v][i] = IntoStep(Into, v, i)
<1> DEFINE T == [Nat -> Filled]
           B == [v \in Value |-> [g \in [Inner(v) -> T] |-> [i \in Nat |-> IntoStep(g, v, i)]]]
<1>1. \A v \in Value : \A g \in [Inner(v) -> T] :
        B[v][g] \in T /\ B[v][g] = [i \in Nat |-> IntoStep(g, v, i)]
  <2> SUFFICES ASSUME NEW v \in Value, NEW g \in [Inner(v) -> T], NEW i \in Nat
               PROVE  IntoStep(g, v, i) \in Filled
    OBVIOUS
  <2>1. \A w \in Inner(v) : g[w] \in [Nat -> Filled]
    OBVIOUS
  <2> QED
    BY <2>1, IntoStepType
<1>2. PICK f \in [Value -> T] : \A v \in Value : f[v] = B[v][[k \in Inner(v) |-> f[k]]]
  <2>1. OverValues(T, B)
    BY <1>1 DEF OverValues
  <2> HIDE DEF B, T
  <2> QED
    BY <2>1, ValueRecursion
<1>3. \A v \in Value : \A i \in Nat : IntoStep([k \in Inner(v) |-> f[k]], v, i) = IntoStep(f, v, i)
  <2> SUFFICES ASSUME NEW v \in Value, NEW i \in Nat
               PROVE  IntoStep([k \in Inner(v) |-> f[k]], v, i) = IntoStep(f, v, i)
    OBVIOUS
  <2>1. CASE v.type = "array"
    <3> DEFINE g == [k \in Inner(v) |-> f[k]]
    <3>1. \A k \in DOMAIN v.items : g[v.items[k].val] = f[v.items[k].val]
      BY <2>1, InnerParts
    <3> HIDE DEF g
    <3>2. [k \in DOMAIN v.items |-> g[v.items[k].val][Starts(v.items, i)[k]]]
            = [k \in DOMAIN v.items |-> f[v.items[k].val][Starts(v.items, i)[k]]]
      BY <3>1
    <3> QED
      BY <2>1, <3>2 DEF IntoStep, g
  <2>2. CASE v.type # "array"
    BY <2>2 DEF IntoStep
  <2> QED
    BY <2>1, <2>2
<1>4. \A v \in Value : [k \in Inner(v) |-> f[k]] \in [Inner(v) -> T]
  <2> SUFFICES ASSUME NEW v \in Value, NEW w \in Inner(v) PROVE w \in Value
    OBVIOUS
  <2>1. PICK k \in DOMAIN v.items : v.type = "array" /\ w = v.items[k].val
    BY DEF Inner
  <2> QED
    BY <2>1, InnerParts
<1>5. \A v \in Value : f[v] = [i \in Nat |-> IntoStep(f, v, i)]
  <2> SUFFICES ASSUME NEW v \in Value PROVE f[v] = [i \in Nat |-> IntoStep(f, v, i)]
    OBVIOUS
  <2> DEFINE g == [k \in Inner(v) |-> f[k]]
  <2>1. f[v] = B[v][g] /\ g \in [Inner(v) -> T]
    BY <1>2, <1>4
  <2>2. \A i \in Nat : IntoStep(g, v, i) = IntoStep(f, v, i)
    BY <1>3
  <2> HIDE DEF B, T, g
  <2>3. f[v] = [i \in Nat |-> IntoStep(g, v, i)]
    BY <1>1, <2>1
  <2> QED
    BY <2>2, <2>3
<1> HIDE DEF B, T
<1>6. f = [v \in Value |->
            [i \in Nat |->
               CASE v.type = "null"  -> << >>
                 [] v.type = "array" -> FlattenSeq([k \in DOMAIN v.items |->
                                                      f[v.items[k].val][Starts(v.items, i)[k]]])
                 [] OTHER            -> <<[key |-> i, val |-> v]>>]]
  BY <1>5 DEF IntoStep
<1>7. Into = [v \in Value |->
               [i \in Nat |->
                  CASE v.type = "null"  -> << >>
                    [] v.type = "array" -> FlattenSeq([k \in DOMAIN v.items |->
                                                         Into[v.items[k].val][Starts(v.items, i)[k]]])
                    [] OTHER            -> <<[key |-> i, val |-> v]>>]]
  BY <1>6 DEF Into
<1>8. \A v \in Value : Into[v] = [i \in Nat |-> IntoStep(Into, v, i)]
  BY <1>7 DEF IntoStep
<1>9. \A v \in Value : Into[v] \in [Nat -> Filled]
  <2> DEFINE P == {v \in Value : Into[v] \in [Nat -> Filled]}
  <2>1. \A v \in Value : Inner(v) \subseteq P => v \in P
    <3> SUFFICES ASSUME NEW v \in Value, Inner(v) \subseteq P PROVE Into[v] \in [Nat -> Filled]
      OBVIOUS
    <3>1. \A w \in Inner(v) : Into[w] \in [Nat -> Filled]
      OBVIOUS
    <3>2. \A i \in Nat : IntoStep(Into, v, i) \in Filled
      <4> HIDE DEF P
      <4> QED
        BY <3>1, IntoStepType
    <3> QED
      BY <1>8, <3>2
  <2>2. P = Value
    <3>1. P \subseteq Value
      OBVIOUS
    <3> HIDE DEF P
    <3> QED
      BY <2>1, <3>1, ValueInduction
  <2> QED
    BY <2>2
<1>10. DOMAIN Into = Value /\ Into = [v \in Value |-> Into[v]]
  BY <1>7
<1>11. Into \in [Value -> [Nat -> Filled]]
  BY <1>9, <1>10
<1> QED
  BY <1>8, <1>11

\* What a value adds to an array are the values that are not arrays in it.
LEMMA IntoValues ==
  \A v \in Value : \A i \in Nat : Values(Into[v][i]) = Leaves[v]
<1> DEFINE P == {v \in Value : \A i \in Nat : Values(Into[v][i]) = Leaves[v]}
<1>1. ASSUME NEW v \in Value, Inner(v) \subseteq P PROVE v \in P
  <2> SUFFICES ASSUME NEW i \in Nat PROVE Values(Into[v][i]) = Leaves[v]
    OBVIOUS
  <2>0. Into[v][i] = IntoStep(Into, v, i) /\ Leaves[v] = LeavesStep(Leaves, v)
    BY IntoUnfold, LeavesUnfold
  <2>1. CASE v.type = "array"
    <3> DEFINE n == Len(v.items)
               s == [k \in DOMAIN v.items |-> Into[v.items[k].val][Starts(v.items, i)[k]]]
               t == [k \in DOMAIN v.items |-> Leaves[v.items[k].val]]
    <3>1. /\ v.items \in Items /\ DOMAIN v.items = 1 .. n /\ n \in Nat
          /\ \A k \in 1 .. n : v.items[k].val \in Inner(v) /\ v.items[k].val \in Value
      BY <2>1, InnerParts
    <3>2. \A k \in 1 .. n : Starts(v.items, i)[k] \in Nat
      BY <3>1, StartsUnfold DEF StartsFrom
    <3>3. s \in [1 .. n -> Filled] /\ t \in [1 .. n -> Seq(Value)]
      BY <3>1, <3>2, IntoUnfold, LeavesUnfold
    <3>4. \A k \in 1 .. n : Values(s[k]) = t[k]
      BY <1>1, <3>1, <3>2
    <3>5. Values(FlattenSeq(s)) = FlattenSeq(t)
      <4> HIDE DEF s, t, n
      <4> QED
        BY <3>1, <3>3, <3>4, FlattenValues
    <3> QED
      BY <2>0, <2>1, <3>5 DEF IntoStep, LeavesStep
  <2>2. CASE v.type = "null"
    <3>1. Into[v][i] = << >> /\ Leaves[v] = << >>
      BY <2>0, <2>2 DEF IntoStep, LeavesStep
    <3> QED
      BY <3>1 DEF Values
  <2>3. CASE v.type \notin {"array", "null"}
    <3>1. Into[v][i] = <<[key |-> i, val |-> v]>> /\ Leaves[v] = <<v>>
      BY <2>0, <2>3 DEF IntoStep, LeavesStep
    <3> QED
      BY <3>1 DEF Values
  <2> QED
    BY <2>1, <2>2, <2>3
<1>2. P = Value
  <2>1. P \subseteq Value
    OBVIOUS
  <2> HIDE DEF P
  <2> QED
    BY <1>1, <2>1, ValueInduction
<1> QED
  BY <1>2

\* Keys that follow each other from a number on.
KeysFrom(items, i) == \A k \in 1 .. Len(items) : items[k].key = i + k - 1

\* As long as no array holds an array or a value that is left out, what a value
\* adds has the keys from the index on, as many as are reported.
LEMMA IntoKeys ==
  ASSUME NEW v \in Value, Plain(v), NEW i \in Nat
  PROVE  Len(Into[v][i]) = Added(v) /\ KeysFrom(Into[v][i], i)
<1>0. \A w \in Value : \A j \in Nat : Into[w][j] = IntoStep(Into, w, j)
  BY IntoUnfold
<1>1. CASE v.type = "array"
  <2> DEFINE n == Len(v.items)
             e == [k \in 1 .. n |-> [key |-> i + k - 1, val |-> v.items[k].val]]
             E == [key : Nat, val : Value]
             from == Starts(v.items, i)
  <2>1. /\ v.items \in Items /\ DOMAIN v.items = 1 .. n /\ n \in Nat
        /\ \A k \in 1 .. n : v.items[k].val \in Value
    BY <1>1, InnerParts
  <2>2. \A k \in 1 .. n : v.items[k].val.type \notin {"array", "null"}
    BY <1>1, <2>1 DEF Plain
  <2>3. StartsFrom(v.items, i, from)
    BY <2>1, StartsUnfold
  <2>4. \A k \in 1 .. n : from[k] = i + k - 1
    <3> DEFINE P == {k \in 1 .. n : from[k] = i + k - 1}
    <3>1. ASSUME NEW k \in 1 .. n, k # 1 => k - 1 \in P PROVE k \in P
      <4>1. CASE k = 1
        BY <2>3, <4>1 DEF StartsFrom
      <4>2. CASE k # 1
        <5>1. k - 1 \in 1 .. n /\ from[k - 1] = i + (k - 1) - 1
          BY <3>1, <4>2
        <5>2. Added(v.items[k - 1].val) = 1
          BY <2>2, <5>1 DEF Added
        <5>3. from[k] = from[k - 1] + Added(v.items[k - 1].val)
          BY <2>3, <4>2 DEF StartsFrom
        <5> HIDE DEF from, n
        <5>4. from[k] = i + k - 1
          BY <5>1, <5>2, <5>3
        <5> QED
          BY <5>4
      <4> QED
        BY <4>1, <4>2
    <3>2. P \subseteq 1 .. n /\ \A k \in 1 .. n : (k # 1 => k - 1 \in P) => k \in P
      BY <3>1
    <3>3. P = 1 .. n
      <4> HIDE DEF P, n
      <4> QED
        BY <2>1, <3>2, FromTheFirst
    <3> QED
      BY <3>3
  <2>5. ASSUME NEW k \in 1 .. n
        PROVE  Into[v.items[k].val][from[k]] = <<e[k]>>
    <3>1. from[k] = i + k - 1 /\ from[k] \in Nat
      BY <2>3, <2>4 DEF StartsFrom
    <3>2. Into[v.items[k].val][from[k]] = <<[key |-> from[k], val |-> v.items[k].val]>>
      BY <1>0, <2>1, <2>2, <3>1 DEF IntoStep
    <3> QED
      BY <3>1, <3>2
  <2>6. Into[v][i] = FlattenSeq([k \in 1 .. n |-> <<e[k]>>])
    <3>1. Into[v][i] = FlattenSeq([k \in DOMAIN v.items |-> Into[v.items[k].val][from[k]]])
      BY <1>0, <1>1 DEF IntoStep
    <3>2. [k \in DOMAIN v.items |-> Into[v.items[k].val][from[k]]] = [k \in 1 .. n |-> <<e[k]>>]
      BY <2>1, <2>5
    <3> QED
      BY <3>1, <3>2
  <2>7. e \in [1 .. n -> E]
    BY <2>1
  <2>8. Into[v][i] = e
    <3> HIDE DEF e, n, E
    <3> QED
      BY <2>1, <2>6, <2>7, FlattenSingles
  <2>9. Len(e) = n /\ \A k \in 1 .. n : e[k].key = i + k - 1
    BY <2>1
  <2>10. Added(v) = n
    BY <1>1 DEF Added
  <2> QED
    BY <2>8, <2>9, <2>10 DEF KeysFrom
<1>2. CASE v.type = "null"
  <2>1. Into[v][i] = << >> /\ Added(v) = 0
    BY <1>0, <1>2 DEF IntoStep, Added
  <2> QED
    BY <2>1 DEF KeysFrom
<1>3. CASE v.type \notin {"array", "null"}
  <2>1. Into[v][i] = <<[key |-> i, val |-> v]>> /\ Added(v) = 1
    BY <1>0, <1>3 DEF IntoStep, Added
  <2> QED
    BY <2>1 DEF KeysFrom
<1> QED
  BY <1>1, <1>2, <1>3
-----------------------------------------------------------------------------
(***************************************************************************)
(* The value at a place, and the values that a path is shown.              *)
(***************************************************************************)
\* The values that a place leads through.
Through(items, place, n, f) ==
  f = [k \in 1 .. n |->
         IF k = 1 THEN items[place[1]].val ELSE f[k - 1].items[place[k]].val]

\* A place can be followed.
LEMMA ThroughExists ==
  ASSUME NEW items, NEW place, NEW n \in Nat
  PROVE  \E f : Through(items, place, n, f)
<1> DEFINE P == {m \in 0 .. n : \E f : Through(items, place, m, f)}
<1>1. 0 \in P
  <2>1. Through(items, place, 0, << >>)
    BY DEF Through
  <2> QED
    BY <2>1
<1>2. ASSUME NEW m \in 0 .. n - 1, m \in P PROVE m + 1 \in P
  <2>1. PICK f : Through(items, place, m, f)
    BY <1>2
  <2> DEFINE x == IF m + 1 = 1 THEN items[place[1]].val ELSE f[m].items[place[m + 1]].val
             g == [k \in 1 .. m + 1 |-> IF k = m + 1 THEN x ELSE f[k]]
  <2>2. \A k \in 1 .. m : f[k] = IF k = 1 THEN items[place[1]].val ELSE f[k - 1].items[place[k]].val
    BY <2>1 DEF Through
  <2>3. ASSUME NEW k \in 1 .. m + 1
        PROVE  g[k] = IF k = 1 THEN items[place[1]].val ELSE g[k - 1].items[place[k]].val
    <3>1. CASE k = m + 1
      <4>1. k # 1 => k - 1 = m /\ m \in 1 .. m + 1 /\ m # m + 1
        BY <3>1
      <4>2. g[k] = x /\ (k # 1 => g[k - 1] = f[m])
        BY <3>1, <4>1
      <4> HIDE DEF g
      <4> QED
        BY <3>1, <4>2
    <3>2. CASE k # m + 1
      <4>1. k \in 1 .. m /\ (k # 1 => k - 1 \in 1 .. m + 1 /\ k - 1 # m + 1)
        BY <3>2
      <4>2. g[k] = f[k] /\ (k # 1 => g[k - 1] = f[k - 1])
        BY <3>2, <4>1
      <4> HIDE DEF g
      <4> QED
        BY <2>2, <4>1, <4>2
    <3> QED
      BY <3>1, <3>2
  <2>4. g = [k \in 1 .. m + 1 |-> g[k]]
    OBVIOUS
  <2> HIDE DEF g
  <2>5. Through(items, place, m + 1, g)
    BY <2>3, <2>4 DEF Through
  <2>6. m + 1 \in 0 .. n
    OBVIOUS
  <2> QED
    BY <2>5, <2>6
<1>3. P = 0 .. n
  <2>1. P \subseteq 0 .. n
    OBVIOUS
  <2> HIDE DEF P
  <2> QED
    BY <1>1, <1>2, <2>1, UpFromZero
<1>4. n \in P
  <2> HIDE DEF P
  <2> QED
    BY <1>3
<1> QED
  BY <1>4

\* The value at a place is where following it ends.
LEMMA ValueAtIs ==
  ASSUME NEW items, NEW place, Len(place) \in Nat
  PROVE  \E f : Through(items, place, Len(place), f) /\ ValueAt(items, place) = f[Len(place)]
<1> DEFINE F == CHOOSE f : f = [k \in 1 .. Len(place) |->
                  IF k = 1 THEN items[place[1]].val ELSE f[k - 1].items[place[k]].val]
<1>1. \E f : f = [k \in 1 .. Len(place) |->
                  IF k = 1 THEN items[place[1]].val ELSE f[k - 1].items[place[k]].val]
  <2>1. PICK f : Through(items, place, Len(place), f)
    BY ThroughExists
  <2> QED
    BY <2>1 DEF Through
<1>2. F = [k \in 1 .. Len(place) |->
             IF k = 1 THEN items[place[1]].val ELSE F[k - 1].items[place[k]].val]
  BY <1>1
<1>3. ValueAt(items, place) = F[Len(place)]
  BY DEF ValueAt
<1> HIDE DEF F
<1> QED
  BY <1>2, <1>3 DEF Through

\* The value at a place of one number.
LEMMA ValueHere ==
  ASSUME NEW items, NEW i
  PROVE  ValueAt(items, <<i>>) = items[i].val
<1>1. Len(<<i>>) = 1 /\ <<i>>[1] = i
  OBVIOUS
<1>2. PICK f : Through(items, <<i>>, 1, f) /\ ValueAt(items, <<i>>) = f[1]
  BY <1>1, ValueAtIs
<1> QED
  BY <1>1, <1>2 DEF Through

\* The value at a place that goes on.
LEMMA ValueUnder ==
  ASSUME NEW items, NEW i \in Nat, NEW p \in Places, p # << >>
  PROVE  ValueAt(items, <<i>> \o p) = ValueAt(items[i].val.items, p)
<1> DEFINE q == <<i>> \o p
           n == Len(p)
<1>1. /\ n \in Nat \ {0} /\ Len(q) = n + 1 /\ q[1] = i
      /\ \A k \in 1 .. n : q[k + 1] = p[k]
  <2>1. /\ <<i>> \in Seq(Nat) /\ p \in Seq(Nat) /\ n \in Nat /\ Len(<<i>>) = 1 /\ <<i>>[1] = i
    BY DEF Places
  <2>2. /\ Len(q) = 1 + n
        /\ \A k \in 1 .. 1 + n : q[k] = IF k <= 1 THEN <<i>>[k] ELSE p[k - 1]
    <3> HIDE DEF n
    <3>1. /\ Len(q) = Len(<<i>>) + Len(p)
          /\ \A k \in 1 .. Len(<<i>>) + Len(p) : q[k] = IF k <= Len(<<i>>) THEN <<i>>[k] ELSE p[k - Len(<<i>>)]
      BY <2>1, ConcatProperties
    <3> QED
      BY <2>1, <3>1 DEF n
  <2>3. n # 0
    BY <2>1
  <2> HIDE DEF q, n
  <2>4. \A k \in 1 .. n : k + 1 \in 1 .. 1 + n /\ ~(k + 1 <= 1) /\ (k + 1) - 1 = k
    BY <2>1
  <2>5. 1 \in 1 .. 1 + n
    BY <2>1
  <2> QED
    BY <2>1, <2>2, <2>3, <2>4, <2>5
<1> HIDE DEF q, n
<1>2. PICK f : Through(items, q, n + 1, f) /\ ValueAt(items, q) = f[n + 1]
  BY <1>1, ValueAtIs
<1>3. PICK g : Through(items[i].val.items, p, n, g) /\ ValueAt(items[i].val.items, p) = g[n]
  BY <1>1, ValueAtIs DEF n
<1> DEFINE P == {k \in 1 .. n : f[k + 1] = g[k]}
<1>4. ASSUME NEW k \in 1 .. n, k # 1 => k - 1 \in P PROVE k \in P
  <2>1. k + 1 \in 1 .. n + 1 /\ k + 1 # 1 /\ (k + 1) - 1 = k /\ k \in 1 .. n + 1 /\ 1 \in 1 .. n + 1
    BY <1>1
  <2>2. f[k + 1] = f[k].items[q[k + 1]].val
    BY <1>2, <2>1 DEF Through
  <2>3. g[k] = IF k = 1 THEN items[i].val.items[p[1]].val ELSE g[k - 1].items[p[k]].val
    BY <1>3 DEF Through
  <2>4. q[k + 1] = p[k]
    BY <1>1
  <2>5. CASE k = 1
    <3>1. f[1] = items[q[1]].val
      BY <1>2, <2>1 DEF Through
    <3> QED
      BY <1>1, <2>2, <2>3, <2>4, <2>5, <3>1
  <2>6. CASE k # 1
    <3>1. f[(k - 1) + 1] = g[k - 1] /\ (k - 1) + 1 = k
      BY <1>4, <2>6
    <3> QED
      BY <2>2, <2>3, <2>4, <2>6, <3>1
  <2> QED
    BY <2>5, <2>6
<1>5. P = 1 .. n
  <2>1. P \subseteq 1 .. n /\ \A k \in 1 .. n : (k # 1 => k - 1 \in P) => k \in P
    BY <1>4
  <2> HIDE DEF P
  <2> QED
    BY <1>1, <2>1, FromTheFirst
<1>6. n \in P
  <2> HIDE DEF P
  <2> QED
    BY <1>1, <1>5
<1> QED
  BY <1>2, <1>3, <1>6 DEF q

\* What a path descends to are places of values.
LEMMA DescendsToValues ==
  \A keys \in DottedPath : \A items \in Items : \A p \in Descends[keys][items] :
    p \in Places /\ p # << >> /\ ValueAt(items, p) \in Value
<1> DEFINE Good(keys, items, p) == p \in Places /\ p # << >> /\ ValueAt(items, p) \in Value
           P == {keys \in DottedPath : \A items \in Items : \A p \in Descends[keys][items] :
                   Good(keys, items, p)}
<1>1. ASSUME NEW keys \in DottedPath, Len(keys) # 1 => Tail(keys) \in P PROVE keys \in P
  <2> SUFFICES ASSUME NEW items \in Items, NEW p \in Descends[keys][items]
               PROVE  Good(keys, items, p)
    OBVIOUS
  <2>1. p \in Places
    BY DescendsUnfold
  <2>2. CASE Len(keys) = 1
    <3>1. PICK i \in Named(keys[1], items) : p = <<i>>
      BY <2>2, DescendsUnfold
    <3>2. items[i].val \in Value
      BY ItemsParts DEF Named
    <3>3. p # << >>
      BY <3>1
    <3> QED
      BY <2>1, <3>1, <3>2, <3>3, ValueHere
  <2>3. CASE Len(keys) # 1
    <3> DEFINE rest == Tail(keys)
    <3>1. rest \in DottedPath /\ \A below \in Items : \A q \in Descends[rest][below] : Good(rest, below, q)
      BY <1>1, <2>3, PathParts
    <3>2. p \in BelowItems(Descends[rest], keys[1], items)
      BY <2>3, DescendsUnfold
    <3> HIDE DEF rest
    <3>3. PICK i \in Named(keys[1], items) : p \in Below(i, AtValue(Descends[rest], items[i].val))
      BY <3>2 DEF BelowItems
    <3>4. PICK q \in AtValue(Descends[rest], items[i].val) : p = <<i>> \o q
      BY <3>3 DEF Below
    <3> DEFINE v == items[i].val
    <3>5. v \in Value /\ Container(v) /\ v.items \in Items /\ i \in Nat
      <4>1. v \in Value /\ i \in Nat
        BY ItemsParts DEF Named
      <4>2. Container(v)
        BY <3>4 DEF AtValue
      <4> QED
        BY <4>1, <4>2, ValueAssumption
    <3>6. q \in Places /\ q # << >> /\ ValueAt(v.items, q) \in Value
      <4>1. CASE q \in Descends[rest][v.items]
        BY <3>1, <3>5, <4>1
      <4>2. CASE q \notin Descends[rest][v.items]
        <5>1. PICK k \in Entered(v) : q \in Below(k, Descends[rest][v.items[k].val.items])
          BY <3>4, <3>5, <4>2 DEF AtValue
        <5>2. PICK r \in Descends[rest][v.items[k].val.items] : q = <<k>> \o r
          BY <5>1 DEF Below
        <5>3. k \in Nat /\ v.items[k].val.items \in Items
          BY <3>5, EnteredParts
        <5>4. r \in Places /\ r # << >> /\ ValueAt(v.items[k].val.items, r) \in Value
          BY <3>1, <5>3
        <5>5. q \in Places /\ q # << >>
          <6>1. q # << >>
            BY <5>2, <5>3, <5>4, UnderPlace DEF Places
          <6>2. <<k>> \in Seq(Nat) /\ r \in Seq(Nat)
            BY <5>3, <5>4 DEF Places
          <6>3. <<k>> \o r \in Seq(Nat)
            BY <6>2, ConcatProperties
          <6> QED
            BY <5>2, <6>1, <6>3 DEF Places
        <5>6. ValueAt(v.items, q) = ValueAt(v.items[k].val.items, r)
          BY <5>2, <5>3, <5>4, ValueUnder
        <5> QED
          BY <5>4, <5>5, <5>6
      <4> QED
        BY <4>1, <4>2
    <3>7. ValueAt(items, p) = ValueAt(v.items, q)
      BY <3>4, <3>5, <3>6, ValueUnder
    <3>8. p # << >>
      BY <3>4, <3>5, <3>6, UnderPlace DEF Places
    <3> QED
      BY <2>1, <3>6, <3>7, <3>8
  <2> QED
    BY <2>2, <2>3
<1>2. P = DottedPath
  <2>1. P \subseteq DottedPath
    OBVIOUS
  <2> HIDE DEF P
  <2> QED
    BY <1>1, <2>1, PathInduction
<1> QED
  BY <1>2

\* A call with nothing to skip leaves nothing to skip.
LEMMA SearchZero ==
  \A keys \in DottedPath : Zero(FindDescendants[keys])
<1> DEFINE P == {keys \in DottedPath : Zero(FindDescendants[keys])}
<1>1. ASSUME NEW keys \in DottedPath, Len(keys) # 1 => Tail(keys) \in P PROVE keys \in P
  <2> SUFFICES ASSUME NEW items \in Items PROVE FindDescendants[keys][items][0].skip = 0
    BY DEF Zero
  <2>1. CASE Len(keys) = 1
    <3>1. FindDescendants[keys][items][0] = LastKey(items, keys[1], 0)
      BY <2>1, SearchUnfold
    <3> DEFINE i == FirstOf(Named(keys[1], items))
               left == Len(items) - i
    <3>2. Named(keys[1], items) # {} => 0 <= left
      <4> SUFFICES ASSUME Named(keys[1], items) # {} PROVE 0 <= left
        OBVIOUS
      <4>1. i \in 1 .. Len(items)
        BY NamedPlaces, FirstOfIs
      <4> HIDE DEF i
      <4> QED
        BY <4>1, ItemsParts
    <3>3. \/ LastKey(items, keys[1], 0) = NotFound(0)
          \/ LastKey(items, keys[1], 0) = Result(TRUE, 0, <<i>>)
          \/ LastKey(items, keys[1], 0) = Result(TRUE, 0, <<i + 0>>)
      <4> HIDE DEF i
      <4> QED
        BY <3>2 DEF LastKey, i
    <3> HIDE DEF i
    <3> QED
      BY <3>1, <3>3 DEF NotFound, Result
  <2>2. CASE Len(keys) # 1
    <3> DEFINE rest == Tail(keys)
    <3>1. rest \in DottedPath /\ Zero(FindDescendants[rest]) /\ FindDescendants[rest] \in Searches
      BY <1>1, <2>2, SearchUnfold
    <3>2. FindDescendants[keys][items] = InItems(FindDescendants[rest], keys[1], items)
      BY <2>2, SearchUnfold
    <3> HIDE DEF rest
    <3> QED
      BY <3>1, <3>2, ItemsZero
  <2> QED
    BY <2>1, <2>2
<1>2. P = DottedPath
  <2>1. P \subseteq DottedPath
    OBVIOUS
  <2> HIDE DEF P
  <2> QED
    BY <1>1, <2>1, PathInduction
<1> QED
  BY <1>2
\* One more sequence.
LEMMA FlattenNext ==
  ASSUME NEW T, NEW n \in Nat, NEW s, \A k \in 1 .. n + 1 : s[k] \in Seq(T)
  PROVE  /\ FlattenSeq([k \in 1 .. n |-> s[k]]) \in Seq(T)
         /\ FlattenSeq([k \in 1 .. n + 1 |-> s[k]]) = FlattenSeq([k \in 1 .. n |-> s[k]]) \o s[n + 1]
<1> DEFINE t == [k \in 1 .. n + 1 |-> s[k]]
           u == [k \in 1 .. n |-> s[k]]
<1>1. t \in Seq(Seq(T)) /\ Len(t) = n + 1 /\ t[n + 1] = s[n + 1]
  OBVIOUS
<1>2. ButLast(t) = u
  <2>1. Len(t) - 1 = n /\ \A k \in 1 .. n : k \in 1 .. n + 1
    BY <1>1
  <2> QED
    BY <2>1 DEF ButLast
<1>3. t # << >>
  <2>1. Len(t) # 0
    BY <1>1
  <2> HIDE DEF t
  <2> QED
    BY <2>1
<1> HIDE DEF t, u
<1>4. FlattenSeq(u) \in Seq(T) /\ FlattenSeq(t) = FlattenSeq(u) \o s[n + 1]
  BY <1>1, <1>2, <1>3, FlattenLast
<1> QED
  BY <1>4 DEF t, u

\* The number of the first call from n on that finds nothing.
NoneFrom(call, n) == {m \in Nat : m >= n /\ ~call[m].found}

\* The recursion of Shown counts the calls that find something.
LEMMA CallsCounted ==
  ASSUME NEW call, NEW n \in Nat, \A k \in Nat : k < n => call[k].found, ~call[n].found,
         NEW U, U = CHOOSE f : f = [m \in Nat |-> IF call[m].found THEN f[m + 1] ELSE m]
  PROVE  U[0] = n
<1> DEFINE f == [m \in Nat |-> IF NoneFrom(call, m) # {} THEN FirstOf(NoneFrom(call, m)) ELSE 0]
<1>1. ASSUME NEW m \in Nat PROVE f[m] = IF call[m].found THEN f[m + 1] ELSE m
  <2>1. CASE call[m].found
    <3>1. NoneFrom(call, m) = NoneFrom(call, m + 1)
      <4>1. \A j \in Nat : j >= m /\ ~call[j].found <=> j >= m + 1 /\ ~call[j].found
        BY <2>1
      <4> QED
        BY <4>1 DEF NoneFrom
    <3>2. m + 1 \in Nat
      OBVIOUS
    <3> QED
      BY <2>1, <3>1, <3>2
  <2>2. CASE ~call[m].found
    <3>1. m \in NoneFrom(call, m) /\ NoneFrom(call, m) \subseteq Nat
      BY <2>2 DEF NoneFrom
    <3>2. /\ FirstOf(NoneFrom(call, m)) \in NoneFrom(call, m)
          /\ FirstOf(NoneFrom(call, m)) <= m
      BY <3>1, FirstOfIs
    <3>3. FirstOf(NoneFrom(call, m)) = m
      BY <3>2 DEF NoneFrom
    <3> QED
      BY <2>2, <3>1, <3>3
  <2> QED
    BY <2>1, <2>2
<1>2. f = [m \in Nat |-> f[m]]
  OBVIOUS
<1> HIDE DEF f
<1>3. f = [m \in Nat |-> IF call[m].found THEN f[m + 1] ELSE m]
  BY <1>1, <1>2
<1>4. U = [m \in Nat |-> IF call[m].found THEN U[m + 1] ELSE m]
  BY <1>3
<1>5. \A m \in Nat : U[m] = IF call[m].found THEN U[m + 1] ELSE m
  BY <1>4
<1> DEFINE P == {j \in 0 .. n : U[n - j] = n}
<1>6. 0 \in P
  BY <1>5
<1>7. ASSUME NEW j \in 0 .. n - 1, j \in P PROVE j + 1 \in P
  <2>1. /\ n - (j + 1) \in Nat /\ n - (j + 1) < n /\ (n - (j + 1)) + 1 = n - j
        /\ j + 1 \in 0 .. n
    OBVIOUS
  <2>2. call[n - (j + 1)].found
    BY <2>1
  <2>3. U[n - (j + 1)] = U[n - j]
    BY <1>5, <2>1, <2>2
  <2>4. U[n - j] = n
    BY <1>7
  <2> QED
    BY <2>1, <2>3, <2>4
<1>8. P = 0 .. n
  <2>1. P \subseteq 0 .. n
    OBVIOUS
  <2> HIDE DEF P
  <2> QED
    BY <1>6, <1>7, <2>1, UpFromZero
<1>9. n \in P
  <2> HIDE DEF P
  <2> QED
    BY <1>8
<1>10. U[n - n] = n /\ n - n = 0
  BY <1>9
<1> QED
  BY <1>10

\* The values that the first calls of a loop find.
FirstFound(items, keys, n) ==
  [k \in 1 .. n |-> ValueAt(items, FindDescendants[keys][items][k - 1].place)]

\* What a path is shown: the direct value, nothing, or what the calls find.
LEMMA ShownIs ==
  ASSUME NEW items \in Items, NEW keys \in DottedPath
  PROVE  /\ FindDirect[keys][items] # << >> => Shown(items, keys) = <<ValueAt(items, FindDirect[keys][items])>>
         /\ FindDirect[keys][items] = << >> /\ Len(keys) = 1 => Shown(items, keys) = << >>
         /\ \A n \in Nat :
              /\ FindDirect[keys][items] = << >> /\ Len(keys) # 1
              /\ \A k \in Nat : k < n => FindDescendants[keys][items][k].found
              /\ ~FindDescendants[keys][items][n].found
              => Shown(items, keys) = FirstFound(items, keys, n)
<1>1. FindDirect[keys][items] # << >> => Shown(items, keys) = <<ValueAt(items, FindDirect[keys][items])>>
  BY DEF Shown
<1>2. FindDirect[keys][items] = << >> /\ Len(keys) = 1 => Shown(items, keys) = << >>
  BY DEF Shown
<1>3. ASSUME NEW n \in Nat, FindDirect[keys][items] = << >>, Len(keys) # 1,
             \A k \in Nat : k < n => FindDescendants[keys][items][k].found,
             ~FindDescendants[keys][items][n].found
      PROVE  Shown(items, keys) = FirstFound(items, keys, n)
  <2> DEFINE call == FindDescendants[keys][items]
             U == CHOOSE f : f = [m \in Nat |-> IF call[m].found THEN f[m + 1] ELSE m]
  <2>1. Shown(items, keys) = [k \in 1 .. U[0] |-> ValueAt(items, call[k - 1].place)]
    BY <1>3 DEF Shown
  <2>2. (\A k \in Nat : k < n => call[k].found) /\ ~call[n].found
    BY <1>3
  <2> HIDE DEF call
  <2>3. U[0] = n
    BY <2>2, CallsCounted
  <2> HIDE DEF U
  <2> QED
    BY <2>1, <2>3 DEF FirstFound, call
<1> QED
  BY <1>1, <1>2, <1>3

\* What a path finds are values, and what a call leaves to skip is a number.
LEMMA FoundValues ==
  ASSUME NEW items \in Items, NEW keys \in DottedPath
  PROVE  /\ FindDirect[keys][items] # << >> => ValueAt(items, FindDirect[keys][items]) \in Value
         /\ \A s \in Nat : /\ FindDescendants[keys][items][s].skip \in Nat
                           /\ FindDescendants[keys][items][s].found =>
                                ValueAt(items, FindDescendants[keys][items][s].place) \in Value
<1>1. FindDirect[keys][items] # << >> => ValueAt(items, FindDirect[keys][items]) \in Value
  BY DirectSound, DescendsToValues
<1>2. ASSUME NEW s \in Nat
      PROVE  /\ FindDescendants[keys][items][s].skip \in Nat
             /\ FindDescendants[keys][items][s].found =>
                  ValueAt(items, FindDescendants[keys][items][s].place) \in Value
  <2> DEFINE r == FindDescendants[keys][items][s]
  <2>1. r \in Results
    BY SearchUnfold DEF Searches
  <2>2. r.found => r.place \in Descends[keys][items]
    BY SearchSound DEF Sound
  <2> HIDE DEF r
  <2>3. r.skip \in Nat
    BY <2>1, ResultsParts
  <2>4. r.found => ValueAt(items, r.place) \in Value
    BY <2>2, DescendsToValues
  <2> QED
    BY <2>3, <2>4 DEF r
<1> QED
  BY <1>1, <1>2
-----------------------------------------------------------------------------
(***************************************************************************)
(* The parsers: the chain of ops of a command, and the strings in it.      *)
(***************************************************************************)
Text    == Seq(Keys \cup {"$any"})
Pointer == [part : Nat, op : Nat, nth : Nat, text : Text]
OpSet   == [path : Pointer, as : Pointer, list : Seq(Pointer)]

\* The string pointers of op i: its own and its list's are of the parts given.
OpRight(part, listed, i, op) ==
  /\ op \in OpSet
  /\ op.path # Null => op.path = Str(part, i, 1, op.path.text) /\ op.path.text \in DottedPath
  /\ op.as # Null => op.as = Str(part, i, 2, op.as.text)
  /\ op.path = Null => op.as # Null
  /\ \A k \in 1 .. Len(op.list) :
       op.list[k] = Str(listed, i, 2 + k, op.list[k].text) /\ op.list[k].text \in DottedPath

\* A string that was allocated is no null pointer.
LEMMA StrIs ==
  ASSUME NEW part \in Nat \ {0}, NEW i \in Nat, NEW nth \in Nat, NEW text \in Text
  PROVE  /\ Str(part, i, nth, text) \in Pointer
         /\ Str(part, i, nth, text).part = part
         /\ Str(part, i, nth, text).op = i
         /\ Str(part, i, nth, text).nth = nth
         /\ Str(part, i, nth, text).text = text
         /\ Str(part, i, nth, text) # Null
<1>1. Str(part, i, nth, text).part = part /\ Null.part = 0
  BY DEF Str, Null
<1> QED
  BY <1>1 DEF Str, Pointer

\* The null pointer is a pointer.
LEMMA NullIs == Null \in Pointer /\ Null.text = << >>
  BY DEF Null, Str, Pointer, Text

\* Paths and names are texts.
LEMMA TextIs ==
  /\ \A p \in DottedPath : p \in Text
  /\ \A p \in Name : p \in DottedPath /\ p \in Text
<1>1. Seq(Keys) \subseteq Seq(Keys \cup {"$any"})
  OBVIOUS
<1> QED
  BY <1>1 DEF DottedPath, Name, Text

\* The entries that are read are of a type that the parser knows.
LEMMA KeptIs ==
  ASSUME NEW entries \in Seq(Entry)
  PROVE  /\ Kept(entries) \in Seq(Entry) /\ Len(Kept(entries)) \in Nat
         /\ DOMAIN Kept(entries) = 1 .. Len(Kept(entries))
         /\ \A i \in DOMAIN Kept(entries) : /\ Kept(entries)[i] \in Entry
                                            /\ Kept(entries)[i].type \in {"flag", "utf8", "document"}
<1> DEFINE other == {i \in DOMAIN entries : entries[i].type = "other"}
           n == IF other = {} THEN Len(entries) ELSE FirstOf(other) - 1
<1>1. /\ Len(entries) \in Nat /\ DOMAIN entries = 1 .. Len(entries)
      /\ \A i \in 1 .. Len(entries) : entries[i] \in Entry
  <2> HIDE DEF n
  <2> QED
    BY InSeq
<1>2. \A e \in Entry : e.type \in {"flag", "other", "utf8", "document"}
  BY DEF Entry
<1>3. n \in 0 .. Len(entries) /\ \A i \in 1 .. n : entries[i].type # "other"
  <2>1. CASE other = {}
    BY <1>1, <2>1
  <2>2. CASE other # {}
    <3>1. other \subseteq Nat
      BY <1>1
    <3>2. FirstOf(other) \in other /\ \A j \in other : FirstOf(other) <= j
      <4> HIDE DEF other
      <4> QED
        BY <2>2, <3>1, FirstOfIs
    <3>3. FirstOf(other) \in 1 .. Len(entries)
      BY <1>1, <3>2
    <3>4. n = FirstOf(other) - 1
      BY <2>2
    <3>5. ASSUME NEW i \in 1 .. n PROVE entries[i].type # "other"
      <4>1. i \in 1 .. Len(entries) /\ ~(FirstOf(other) <= i)
        <5> HIDE DEF n, other
        <5> QED
          BY <1>1, <3>3, <3>4
      <4> QED
        BY <1>1, <3>2, <4>1
    <3>6. n \in 0 .. Len(entries)
      <4> HIDE DEF n, other
      <4> QED
        BY <1>1, <3>3, <3>4
    <3> QED
      BY <3>5, <3>6
  <2> QED
    BY <2>1, <2>2
<1>4. Kept(entries) = SubSeq(entries, 1, n)
  BY DEF Kept
<1> HIDE DEF other, n
<1>5. /\ SubSeq(entries, 1, n) \in Seq(Entry) /\ Len(SubSeq(entries, 1, n)) = n
      /\ \A i \in 1 .. n : SubSeq(entries, 1, n)[i] = entries[i]
  <2>1. n \in Nat /\ \A i \in 1 .. n : i \in 1 .. Len(entries) /\ 1 + i - 1 = i
    BY <1>1, <1>3
  <2> QED
    BY <1>1, <1>3, <2>1
<1>6. DOMAIN Kept(entries) = 1 .. n /\ Len(Kept(entries)) = n /\ n \in Nat
  BY <1>3, <1>4, <1>5, InSeq
<1>7. ASSUME NEW i \in 1 .. n
      PROVE  Kept(entries)[i] \in Entry /\ Kept(entries)[i].type \in {"flag", "utf8", "document"}
  <2>1. i \in 1 .. Len(entries) /\ Kept(entries)[i] = entries[i]
    BY <1>1, <1>3, <1>4, <1>5
  <2>2. entries[i] \in Entry /\ entries[i].type # "other"
    BY <1>1, <1>3, <2>1
  <2> QED
    BY <1>2, <2>1, <2>2
<1> QED
  BY <1>4, <1>5, <1>6, <1>7

\* The op of an entry.
LEMMA OpOfIs ==
  ASSUME NEW part \in Nat \ {0}, NEW i \in Nat, NEW e \in Entry,
         e.type \in {"flag", "utf8", "document"}
  PROVE  /\ OpRight(part, part, i, OpOf(part, i, e))
         /\ OpOf(part, i, e).path # Null => OpOf(part, i, e).list = << >>
         /\ e.type = "document" => OpOf(part, i, e).path = Null
         /\ e.type # "document" => OpOf(part, i, e).path = Str(part, i, 1, e.key)
<1> DEFINE op == OpOf(part, i, e)
<1>0. /\ << >> \in Seq(Pointer) /\ 1 \in Nat /\ 2 \in Nat
      /\ \A nth \in Nat : \A text \in Text :
           /\ Str(part, i, nth, text) \in Pointer /\ Str(part, i, nth, text) # Null
           /\ Str(part, i, nth, text).text = text
  BY StrIs
<1>1. CASE e.type = "flag"
  <2>1. e.key \in DottedPath /\ e.key \in Text
    BY <1>1, TextIs DEF Entry
  <2>2. op = [path |-> Str(part, i, 1, e.key), as |-> Null, list |-> << >>]
    BY <1>1 DEF OpOf
  <2>3. Str(part, i, 1, e.key) \in Pointer /\ Str(part, i, 1, e.key) # Null
        /\ Str(part, i, 1, e.key).text = e.key
    BY <1>0, <2>1
  <2>4. op.path = Str(part, i, 1, e.key) /\ op.as = Null /\ op.list = << >> /\ op \in OpSet
    BY <1>0, <2>2, <2>3, NullIs DEF OpSet
  <2>5. Len(op.list) = 0
    BY <2>4
  <2> HIDE DEF op
  <2> QED
    BY <1>1, <2>1, <2>3, <2>4, <2>5 DEF OpRight, op
<1>2. CASE e.type = "utf8"
  <2>1. e.key \in DottedPath /\ e.key \in Text /\ e.as \in Text
    BY <1>2, TextIs DEF Entry
  <2>2. op = [path |-> Str(part, i, 1, e.key), as |-> Str(part, i, 2, e.as), list |-> << >>]
    BY <1>2 DEF OpOf
  <2>3. Str(part, i, 1, e.key) \in Pointer /\ Str(part, i, 1, e.key) # Null
        /\ Str(part, i, 1, e.key).text = e.key
    BY <1>0, <2>1
  <2>4. Str(part, i, 2, e.as) \in Pointer /\ Str(part, i, 2, e.as).text = e.as
    BY <1>0, <2>1
  <2>5. /\ op.path = Str(part, i, 1, e.key) /\ op.as = Str(part, i, 2, e.as)
        /\ op.list = << >> /\ op \in OpSet
    BY <1>0, <2>2, <2>3, <2>4 DEF OpSet
  <2>6. Len(op.list) = 0
    BY <2>5
  <2> HIDE DEF op
  <2> QED
    BY <1>2, <2>1, <2>3, <2>4, <2>5, <2>6 DEF OpRight, op
<1>3. CASE e.type = "document"
  <2> DEFINE list == [k \in DOMAIN e.found |-> Str(part, i, 2 + k, e.found[k])]
  <2>1. e.key \in Text /\ e.found \in Seq(DottedPath)
    BY <1>3, TextIs DEF Entry
  <2>2. /\ Len(e.found) \in Nat /\ DOMAIN e.found = 1 .. Len(e.found)
        /\ \A k \in 1 .. Len(e.found) : e.found[k] \in DottedPath
    BY <2>1, InSeq
  <2>3. op = [path |-> Null, as |-> Str(part, i, 2, e.key), list |-> list]
    BY <1>3 DEF OpOf
  <2>4. /\ Str(part, i, 2, e.key) \in Pointer /\ Str(part, i, 2, e.key) # Null
        /\ Str(part, i, 2, e.key).text = e.key
    BY <1>0, <2>1
  <2>5. ASSUME NEW k \in 1 .. Len(e.found)
        PROVE  /\ list[k] = Str(part, i, 2 + k, e.found[k])
               /\ list[k] \in Pointer /\ list[k].text = e.found[k]
    <3>1. 2 + k \in Nat /\ e.found[k] \in Text
      BY <2>2, TextIs
    <3>2. list[k] = Str(part, i, 2 + k, e.found[k])
      BY <2>2
    <3> QED
      BY <1>0, <3>1, <3>2
  <2>6. list \in Seq(Pointer) /\ Len(list) = Len(e.found)
    <3>1. list = [k \in 1 .. Len(e.found) |-> list[k]]
      BY <2>2
    <3>2. \A k \in 1 .. Len(e.found) : list[k] \in Pointer
      BY <2>5
    <3> HIDE DEF list
    <3> QED
      BY <2>2, <3>1, <3>2
  <2> HIDE DEF list
  <2>7. op.path = Null /\ op.as = Str(part, i, 2, e.key) /\ op.list = list /\ op \in OpSet
    BY <2>3, <2>4, <2>6, NullIs DEF OpSet
  <2> HIDE DEF op
  <2> QED
    BY <1>3, <2>2, <2>4, <2>5, <2>6, <2>7 DEF OpRight, op
<1> QED
  BY <1>1, <1>2, <1>3

\* The chain of a projection.
LEMMA ProjectionIs ==
  ASSUME NEW part \in Nat \ {0}, NEW entries \in Seq(Entry)
  PROVE  /\ ParseProjection(part, entries) \in Seq(OpSet)
         /\ Len(ParseProjection(part, entries)) = Len(Kept(entries))
         /\ DOMAIN ParseProjection(part, entries) = 1 .. Len(Kept(entries))
         /\ \A i \in 1 .. Len(Kept(entries)) :
              LET op == ParseProjection(part, entries)[i]
              IN  /\ OpRight(part, part, i, op)
                  /\ op.path # Null => op.list = << >>
                  /\ Kept(entries)[i].type = "document" => op.path = Null
                  /\ Kept(entries)[i].type # "document" => op.path = Str(part, i, 1, Kept(entries)[i].key)
<1> DEFINE n == Len(Kept(entries))
           chain == ParseProjection(part, entries)
<1>1. /\ n \in Nat /\ DOMAIN Kept(entries) = 1 .. n
      /\ \A i \in 1 .. n : Kept(entries)[i] \in Entry /\ Kept(entries)[i].type \in {"flag", "utf8", "document"}
  BY KeptIs
<1>2. chain = [i \in 1 .. n |-> OpOf(part, i, Kept(entries)[i])]
  BY <1>1 DEF ParseProjection
<1>3. \A i \in 1 .. n : OpOf(part, i, Kept(entries)[i]) \in OpSet
  BY <1>1, OpOfIs DEF OpRight
<1> HIDE DEF n
<1>4. chain \in Seq(OpSet) /\ Len(chain) = n /\ DOMAIN chain = 1 .. n
  <2> HIDE DEF chain
  <2> QED
    BY <1>1, <1>2, <1>3
<1>5. \A i \in 1 .. n : chain[i] = OpOf(part, i, Kept(entries)[i])
  BY <1>2
<1> HIDE DEF chain
<1>6. ASSUME NEW i \in 1 .. n
      PROVE  LET op == chain[i]
              IN  /\ OpRight(part, part, i, op)
                  /\ op.path # Null => op.list = << >>
                  /\ Kept(entries)[i].type = "document" => op.path = Null
                  /\ Kept(entries)[i].type # "document" => op.path = Str(part, i, 1, Kept(entries)[i].key)
  <2>1. i \in Nat /\ Kept(entries)[i] \in Entry /\ Kept(entries)[i].type \in {"flag", "utf8", "document"}
    BY <1>1
  <2> QED
    BY <1>5, <2>1, OpOfIs
<1> QED
  BY <1>4, <1>6 DEF n, chain

\* Where no entry has a $foundin, the list of a redaction has every path.
LEMMA RedactionIs ==
  ASSUME NEW entries \in Seq(Entry),
         \A i \in 1 .. Len(Kept(entries)) : Kept(entries)[i].type # "document"
  PROVE  /\ ParseRedaction(entries) \in Seq(OpSet)
         /\ Len(ParseRedaction(entries)) = Len(Kept(entries))
         /\ DOMAIN ParseRedaction(entries) = 1 .. Len(Kept(entries))
         /\ \A i \in 1 .. Len(Kept(entries)) : OpRight(1, 2, i, ParseRedaction(entries)[i])
         /\ Len(Kept(entries)) # 0 =>
              /\ Len(ParseRedaction(entries)[1].list) = Len(Kept(entries))
              /\ DOMAIN ParseRedaction(entries)[1].list = 1 .. Len(Kept(entries))
              /\ \A k \in 1 .. Len(Kept(entries)) :
                   ParseRedaction(entries)[1].list[k].text = Kept(entries)[k].key
<1> DEFINE n == Len(Kept(entries))
           plain == ParseProjection(1, entries)
           chain == ParseRedaction(entries)
           list == [k \in 1 .. n |-> Str(2, 1, 2 + k, plain[k].path.text)]
<1>0. n \in Nat /\ \A i \in 1 .. n : Kept(entries)[i] \in Entry
  BY KeptIs
<1>1. /\ plain \in Seq(OpSet) /\ Len(plain) = n /\ DOMAIN plain = 1 .. n
      /\ \A i \in 1 .. n : /\ OpRight(1, 1, i, plain[i])
                           /\ plain[i].path = Str(1, i, 1, Kept(entries)[i].key)
                           /\ plain[i].path # Null => plain[i].list = << >>
  BY ProjectionIs
<1>2. ASSUME NEW i \in 1 .. n
      PROVE  /\ plain[i].path.text = Kept(entries)[i].key
             /\ plain[i].path.text \in DottedPath
             /\ plain[i].list = << >> /\ plain[i].path # Null
  <2>1. Kept(entries)[i].key \in DottedPath
    <3>1. Kept(entries)[i] \in Entry
      BY <1>0
    <3>2. Name \subseteq DottedPath
      BY DEF Name, DottedPath
    <3> QED
      BY <3>1, <3>2 DEF Entry
  <2>2. Kept(entries)[i].key \in Text /\ i \in Nat
    BY <1>0, <2>1, TextIs
  <2>3. plain[i].path # Null /\ plain[i].path.text = Kept(entries)[i].key
    BY <1>1, <2>2, StrIs
  <2> QED
    BY <1>1, <2>1, <2>3
<1> HIDE DEF n, plain
<1>3. ASSUME NEW k \in 1 .. n
      PROVE  /\ list[k] = Str(2, 1, 2 + k, plain[k].path.text) /\ list[k] \in Pointer
             /\ list[k].text = plain[k].path.text
  <2>1. 2 + k \in Nat /\ plain[k].path.text \in Text
    BY <1>0, <1>2, TextIs
  <2>2. \A text \in Text : Str(2, 1, 2 + k, text) \in Pointer /\ Str(2, 1, 2 + k, text).text = text
    BY <2>1, StrIs
  <2>3. list[k] = Str(2, 1, 2 + k, plain[k].path.text)
    OBVIOUS
  <2> HIDE DEF list
  <2> QED
    BY <2>1, <2>2, <2>3
<1>4. list \in Seq(Pointer) /\ Len(list) = n /\ DOMAIN list = 1 .. n
  BY <1>0, <1>3
<1>5. chain = [i \in 1 .. n |-> IF i = 1 THEN [plain[1] EXCEPT !.list = list] ELSE plain[i]]
  BY <1>1 DEF ParseRedaction, plain
<1> HIDE DEF list
<1>6. ASSUME NEW i \in 1 .. n
      PROVE  /\ chain[i] \in OpSet /\ chain[i].path = plain[i].path /\ chain[i].as = plain[i].as
             /\ chain[i].list = IF i = 1 THEN list ELSE << >>
  <2>1. plain[i] \in OpSet
    BY <1>1 DEF OpRight
  <2>2. CASE i = 1
    <3>1. chain[i] = [plain[1] EXCEPT !.list = list]
      BY <1>5, <2>2
    <3> HIDE DEF chain
    <3> QED
      BY <1>4, <2>1, <2>2, <3>1 DEF OpSet
  <2>3. CASE i # 1
    <3>1. chain[i] = plain[i]
      BY <1>5, <2>3
    <3> HIDE DEF chain
    <3> QED
      BY <1>2, <2>1, <2>3, <3>1
  <2> QED
    BY <2>2, <2>3
<1>7. chain \in Seq(OpSet) /\ Len(chain) = n /\ DOMAIN chain = 1 .. n
  <2>1. chain = [i \in 1 .. n |-> chain[i]]
    BY <1>5
  <2>2. \A i \in 1 .. n : chain[i] \in OpSet
    BY <1>6
  <2> HIDE DEF chain
  <2> QED
    BY <1>0, <2>1, <2>2
<1> HIDE DEF chain
<1>8. ASSUME NEW i \in 1 .. n PROVE OpRight(1, 2, i, chain[i])
  <2>1. OpRight(1, 1, i, plain[i])
    BY <1>1
  <2>2. CASE i = 1
    <3>1. chain[i].list = list
      BY <1>6, <2>2
    <3>2. \A k \in 1 .. Len(list) : list[k] = Str(2, i, 2 + k, list[k].text) /\ list[k].text \in DottedPath
      BY <1>2, <1>3, <1>4, <2>2
    <3> QED
      BY <1>6, <2>1, <3>1, <3>2 DEF OpRight
  <2>3. CASE i # 1
    <3>1. chain[i].list = << >> /\ Len(chain[i].list) = 0
      BY <1>6, <2>3
    <3> QED
      BY <1>6, <2>1, <3>1 DEF OpRight
  <2> QED
    BY <2>2, <2>3
<1>9. ASSUME n # 0
      PROVE  /\ Len(chain[1].list) = n /\ DOMAIN chain[1].list = 1 .. n
             /\ \A k \in 1 .. n : chain[1].list[k].text = Kept(entries)[k].key
  <2>1. 1 \in 1 .. n
    BY <1>0, <1>9
  <2>2. chain[1].list = list
    BY <1>6, <2>1
  <2> QED
    BY <1>2, <1>3, <1>4, <2>2
<1> QED
  BY <1>7, <1>8, <1>9 DEF chain, n
-----------------------------------------------------------------------------
(***************************************************************************)
(* The command c, as the parsers read it.                                  *)
(***************************************************************************)
\* The parts of a name, and the $project and the $query that count.
PartsIn(c, name) == {i \in DOMAIN c.parts : c.parts[i].name = name}
ProjectIn(c)     == IF c.name = "$unwind" THEN Max(PartsIn(c, "$project")) ELSE 1
EntriesIn(c)     == c.parts[ProjectIn(c)].entries

ChainOf(c) == IF c.name = "$redact" THEN ParseRedaction(EntriesIn(c))
              ELSE ParseProjection(ProjectIn(c), EntriesIn(c))

StringsIn(c) ==
  IF c.name = "$unwind"
  THEN UNION {StringsOf(ParseProjection(i, c.parts[i].entries)) : i \in PartsIn(c, "$project")}
  ELSE StringsOf(ChainOf(c))

\* The parser goes on to use the ops.
Accepted(c) ==
  /\ ChainOf(c) # << >>
  /\ c.name = "$unwind" => PartsIn(c, "$project") # {} /\ PartsIn(c, "$query") # {}
  /\ c.name = "$redact" => \A i \in 1 .. Len(Kept(EntriesIn(c))) :
                             Kept(EntriesIn(c))[i].type # "document"

(***************************************************************************)
(* The array of an op, for the document dd and the paths of the op.        *)
(***************************************************************************)
LoopsIn(dd, p)  == Len(p) > 1 /\ FindDirect[p][dd] = << >>
CountsIn(dd, p) == (LoopsIn(dd, p) \/ Len(p) = 1) /\ Shown(dd, p) # << >>
LeavesIn(dd, p) ==
  LET shown == Shown(dd, p) IN FlattenSeq([k \in DOMAIN shown |-> Leaves[shown[k]]])

\* No loop starts from the counters that an earlier path left.
Fine(dd, paths) ==
  \A k \in DOMAIN paths : LoopsIn(dd, paths[k]) => \A j \in 1 .. k - 1 : ~CountsIn(dd, paths[j])

AllPlain(dd, p) == \A v \in Range(Shown(dd, p)) : Plain(v)

\* The values of the first n paths.
Gather(dd, paths, n) == FlattenSeq([k \in 1 .. n |-> LeavesIn(dd, paths[k])])

\* What is in the first n paths is a list of values: the search for each ends.
Whole(dd, paths, n) == \A k \in 1 .. n : LeavesIn(dd, paths[k]) \in Seq(Value)

\* The array arr when n paths are done, and the counters.
Filling(dd, paths, n, arr, chk, skp, pck) ==
  Fine(dd, paths) =>
    /\ Whole(dd, paths, n) /\ Values(arr) = Gather(dd, paths, n)
    /\ (\A j \in 1 .. n : ~CountsIn(dd, paths[j])) => chk = 0 /\ skp = 0 /\ pck = 0
    /\ n = 0 => arr = << >>
    /\ Len(paths) = 1 /\ (n = 1 => AllPlain(dd, paths[1])) => KeysFrom(arr, 0)

\* The call of a loop over the path p that skips n, and the value it finds.
CallIn(dd, p, n)  == FindDescendants[p][dd][n]
FoundIn(dd, p, n) == ValueAt(dd, CallIn(dd, p, n).place)
FirstLeaves(dd, p, n) == FlattenSeq([k \in 1 .. n |-> Leaves[FoundIn(dd, p, k - 1)]])

\* The same inside the loop over the path p after the first n.
Looping(dd, paths, n, p, arr, chk, skp, pck) ==
  Fine(dd, paths) =>
    /\ skp = chk
    /\ \A k \in 0 .. chk - 1 : CallIn(dd, p, k).found
    /\ Whole(dd, paths, n) /\ Values(arr) = Gather(dd, paths, n) \o FirstLeaves(dd, p, chk)
    /\ chk = 0 => pck = 0
    /\ Len(paths) = 1 /\ (\A k \in 0 .. chk - 1 : Plain(FoundIn(dd, p, k))) =>
         KeysFrom(arr, 0) /\ pck = Len(arr)

\* The array when all is done.
FilledRight(dd, paths, items) ==
  /\ items \in Filled
  /\ Fine(dd, paths) => Whole(dd, paths, Len(paths)) /\ Values(items) = Gather(dd, paths, Len(paths))
  /\ Len(paths) = 1 /\ AllPlain(dd, paths[1]) => KeysFrom(items, 0)

\* The output for the first n ops of the chain.
Outputs == Seq([name : Text, items : Filled])

OutputRight(dd, chain, out, n) ==
  /\ out \in Outputs /\ Len(out) = n
  /\ \A i \in 1 .. n : FilledRight(dd, PathsOf(chain[i]), out[i].items)

\* The list of a $foundin from number n + 1 on.
LeftOver(list, n, left) ==
  /\ left \in Seq(Pointer) /\ Len(left) = Len(list) - n
  /\ \A k \in 1 .. Len(left) : left[k] = list[n + k]

\* Whether the values that q wants are shown in a document of the value v alone.
MatchesIn(q, name, v) ==
  LET item == <<[key |-> Key(name), val |-> v]>>
  IN  \A clause \in q :
        \E w \in Range(Shown(item, clause.path)) : Candidates(w) \cap clause.wants # {}

\* The fields that a redaction keeps, and where each of them is in the output.
KeptFields(c, dd) ==
  {i \in DOMAIN dd : \A j \in DOMAIN Kept(c.parts[1].entries) :
                       Kept(c.parts[1].entries)[j].key # <<dd[i].key>>}
Nth(c, dd, i) == Cardinality({j \in KeptFields(c, dd) : j <= i})

\* The output for the first n fields.
RedactedRight(c, dd, out, n) ==
  /\ out \in Outputs /\ Len(out) = Cardinality({j \in KeptFields(c, dd) : j <= n})
  /\ \A i \in KeptFields(c, dd) : i <= n =>
       /\ out[Nth(c, dd, i)].name = <<dd[i].key>>
       /\ Values(out[Nth(c, dd, i)].items) = Leaves[dd[i].val]
-----------------------------------------------------------------------------
(***************************************************************************)
(* The inductive invariant, by where the behaviour is.                     *)
(***************************************************************************)
Chain == ChainOf(command)
OpPaths == PathsOf(Chain[cur])

Executes == at \in {"execute", "list", "find", "end"}
Runs     == Executes \/ at \in {"redact", "match"} \/ Done

ParseInv ==
  /\ at = "parse" => cur = 1 /\ projected = << >> /\ result = FALSE
  /\ Runs =>
       /\ Accepted(command)
       /\ strings = StringsIn(command)
       /\ command.name = "$unwind" => query = QueryOf(command)

\* n paths of the op are done.
ListInv(n) ==
  /\ Chain[cur].path = Null
  /\ LeftOver(Chain[cur].list, n, todo)
  /\ Filling(doc, OpPaths, n, arrlist, checked, skip, packed)

\* The path after the first n is looked for.
FindInv(n) ==
  /\ ops[cur].path.text = OpPaths[n + 1]
  /\ IF Chain[cur].path = Null THEN LeftOver(Chain[cur].list, n + 1, todo) ELSE n = 0
  /\ IF LoopsIn(doc, OpPaths[n + 1])
     THEN Looping(doc, OpPaths, n, OpPaths[n + 1], arrlist, checked, skip, packed)
     ELSE Filling(doc, OpPaths, n, arrlist, checked, skip, packed)

\* Every op is as it was parsed, but for the string that one of them borrows.
OpsInv ==
  \/ ops = Chain
  \/ /\ at \in {"list", "find"} /\ Chain[cur].path = Null
     /\ \E p \in Pointer : ops = [Chain EXCEPT ![cur].path = p]

ExecuteInv ==
  Executes =>
    /\ command.name # "$redact" /\ result = FALSE /\ OpsInv
    /\ cur \in 1 .. Len(Chain)
    /\ OutputRight(doc, Chain, projected, cur - 1)
    /\ at # "execute" =>
         arrlist \in Filled /\ checked \in Nat /\ skip \in Nat /\ packed \in Nat
    /\ at = "list" => \E n \in 0 .. Len(OpPaths) : ListInv(n)
    /\ at = "find" => \E n \in 0 .. Len(OpPaths) - 1 : FindInv(n)
    /\ at = "end" => Filling(doc, OpPaths, Len(OpPaths), arrlist, checked, skip, packed)

RedactInv ==
  at = "redact" =>
    /\ command.name = "$redact" /\ ops = Chain /\ cur \in 1 .. Len(doc) + 1
    /\ RedactedRight(command, doc, projected, cur - 1)

MatchInv ==
  at = "match" =>
    /\ command.name = "$unwind" /\ ops = Chain /\ result = FALSE
    /\ OutputRight(doc, Chain, projected, Len(Chain))
    /\ cur \in 1 .. Len(Elements) + 1
    /\ \A k \in 1 .. cur - 1 : ~MatchesIn(query, NameOf(Chain[1]), Elements[k].val)

DoneInv ==
  Done =>
    /\ ops = Chain
    /\ command.name = "$redact" => RedactedRight(command, doc, projected, Len(doc))
    /\ command.name # "$redact" => OutputRight(doc, Chain, projected, Len(Chain))
    /\ command.name = "$unwind" /\ query # NoQuery =>
         (result <=> \E k \in 1 .. Len(Elements) :
                       MatchesIn(query, NameOf(Chain[1]), Elements[k].val))
    /\ at = "destroyed" => freed = FlattenSeq([i \in DOMAIN Chain |-> FreeOf(Chain[i])])

ProjectionInv ==
  /\ doc \in Docs /\ command \in Commands
  /\ ParseInv /\ ExecuteInv /\ RedactInv /\ MatchInv /\ DoneInv
  /\ CrashExplained
-----------------------------------------------------------------------------
(***************************************************************************)
(* What the parsers make of a command.                                     *)
(***************************************************************************)
\* A set of positions that is not empty has a last one.
LEMMA MaxIs ==
  ASSUME NEW n \in Nat, NEW S, S \subseteq 1 .. n, S # {}
  PROVE  Max(S) \in S
<1> DEFINE T == {n - x : x \in S}
<1>1. T \subseteq Nat /\ T # {}
  <2>1. \A x \in 1 .. n : n - x \in Nat
    OBVIOUS
  <2> QED
    BY <2>1
<1>2. PICK t \in T : \A y \in T : t <= y
  <2> HIDE DEF T
  <2> QED
    BY <1>1, Least
<1>3. PICK x \in S : t = n - x
  BY <1>2
<1>4. ASSUME NEW y \in S PROVE x >= y
  <2>1. n - x <= n - y
    BY <1>2, <1>3
  <2> QED
    BY <2>1
<1> QED
  BY <1>4 DEF Max

\* The parts of a command.
LEMMA PartsAre ==
  ASSUME NEW c \in Commands
  PROVE  /\ \A name : PartsIn(c, name) \subseteq 1 .. Len(c.parts)
         /\ \A name : PartsIn(c, name) # {} => Max(PartsIn(c, name)) \in PartsIn(c, name)
         /\ \A i \in PartsIn(c, "$project") : i \in Nat \ {0} /\ c.parts[i].entries \in Seq(Entry)
         /\ c.name # "$unwind" => PartsIn(c, "$project") = {1}
<1>1. /\ c.parts \in Seq(Part)
      /\ c.name # "$unwind" => Len(c.parts) = 1 /\ c.parts[1].name = "$project"
  BY CommandsAssumption
<1>2. Len(c.parts) \in Nat /\ DOMAIN c.parts = 1 .. Len(c.parts) /\ \A i \in DOMAIN c.parts : c.parts[i] \in Part
  BY <1>1, InSeq
<1>3. \A name : PartsIn(c, name) \subseteq 1 .. Len(c.parts)
  BY <1>2 DEF PartsIn
<1>4. \A name : PartsIn(c, name) # {} => Max(PartsIn(c, name)) \in PartsIn(c, name)
  BY <1>2, <1>3, MaxIs
<1>5. ASSUME NEW i \in PartsIn(c, "$project") PROVE i \in Nat \ {0} /\ c.parts[i].entries \in Seq(Entry)
  <2>1. i \in Nat \ {0} /\ c.parts[i] \in Part /\ c.parts[i].name = "$project"
    BY <1>2 DEF PartsIn
  <2> QED
    BY <2>1 DEF Part
<1>6. c.name # "$unwind" => PartsIn(c, "$project") = {1}
  BY <1>1, <1>2 DEF PartsIn
<1> QED
  BY <1>3, <1>4, <1>5, <1>6

\* The part whose ops are used is one of its $project parts.
LEMMA ProjectIs ==
  ASSUME NEW c \in Commands, Accepted(c)
  PROVE  ProjectIn(c) \in PartsIn(c, "$project") /\ ProjectIn(c) \in Nat \ {0} /\ EntriesIn(c) \in Seq(Entry)
<1>1. ProjectIn(c) \in PartsIn(c, "$project")
  BY PartsAre DEF Accepted, ProjectIn
<1> QED
  BY <1>1, PartsAre DEF EntriesIn

\* The ops of a command that is accepted.
LEMMA ChainIs ==
  ASSUME NEW c \in Commands, Accepted(c)
  PROVE  /\ ChainOf(c) \in Seq(OpSet) /\ Len(ChainOf(c)) \in Nat \ {0}
         /\ DOMAIN ChainOf(c) = 1 .. Len(ChainOf(c))
         /\ \E part, listed \in Nat \ {0} :
              \A i \in 1 .. Len(ChainOf(c)) : OpRight(part, listed, i, ChainOf(c)[i])
         /\ c.name # "$redact" =>
              \A i \in 1 .. Len(ChainOf(c)) : ChainOf(c)[i].path # Null => ChainOf(c)[i].list = << >>
<1> DEFINE es == EntriesIn(c)
           p == ProjectIn(c)
<1>1. p \in Nat \ {0} /\ es \in Seq(Entry) /\ ChainOf(c) # << >> /\ Len(Kept(es)) \in Nat
  BY ProjectIs, KeptIs DEF Accepted
<1>2. CASE c.name = "$redact"
  <2>1. ChainOf(c) = ParseRedaction(es)
    BY <1>2 DEF ChainOf
  <2>2. \A i \in 1 .. Len(Kept(es)) : Kept(es)[i].type # "document"
    BY <1>2 DEF Accepted
  <2> HIDE DEF es, p
  <2>3. /\ ChainOf(c) \in Seq(OpSet) /\ Len(ChainOf(c)) = Len(Kept(es))
        /\ DOMAIN ChainOf(c) = 1 .. Len(Kept(es))
        /\ \A i \in 1 .. Len(Kept(es)) : OpRight(1, 2, i, ChainOf(c)[i])
    BY <1>1, <2>1, <2>2, RedactionIs
  <2>4. Len(ChainOf(c)) # 0
    BY <1>1, <2>3, EmptySeq
  <2>5. 1 \in Nat \ {0} /\ 2 \in Nat \ {0}
    OBVIOUS
  <2> QED
    BY <1>1, <1>2, <2>3, <2>4, <2>5
<1>3. CASE c.name # "$redact"
  <2>1. ChainOf(c) = ParseProjection(p, es)
    BY <1>3 DEF ChainOf
  <2> HIDE DEF es, p
  <2>2. /\ ChainOf(c) \in Seq(OpSet) /\ Len(ChainOf(c)) = Len(Kept(es))
        /\ DOMAIN ChainOf(c) = 1 .. Len(Kept(es))
        /\ \A i \in 1 .. Len(Kept(es)) : /\ OpRight(p, p, i, ChainOf(c)[i])
                                         /\ ChainOf(c)[i].path # Null => ChainOf(c)[i].list = << >>
    BY <1>1, <2>1, ProjectionIs
  <2>3. Len(ChainOf(c)) # 0
    BY <1>1, <2>2, EmptySeq
  <2> QED
    BY <1>1, <1>3, <2>2, <2>3
<1> QED
  BY <1>2, <1>3
-----------------------------------------------------------------------------
(***************************************************************************)
(* The strings of the ops, one after the other.                            *)
(***************************************************************************)
\* Two sequences without a repetition and without an element in common.
LEMMA JoinDistinct ==
  ASSUME NEW T, NEW u \in Seq(T), NEW w \in Seq(T), IsInjective(u), IsInjective(w),
         Range(u) \cap Range(w) = {}
  PROVE  IsInjective(u \o w) /\ Range(u \o w) = Range(u) \cup Range(w)
<1> DEFINE a == Len(u)
           b == Len(w)
           x == u \o w
<1>1. a \in Nat /\ b \in Nat /\ DOMAIN u = 1 .. a /\ DOMAIN w = 1 .. b
  BY InSeq
<1>2. /\ DOMAIN x = 1 .. a + b
      /\ \A i \in 1 .. a + b : x[i] = IF i <= a THEN u[i] ELSE w[i - a]
  <2>1. x \in Seq(T) /\ Len(x) = a + b /\ \A i \in 1 .. a + b : x[i] = IF i <= a THEN u[i] ELSE w[i - a]
    BY ConcatProperties
  <2> HIDE DEF x
  <2> QED
    BY <2>1, InSeq
<1> HIDE DEF a, b, x
<1>3. \A i \in 1 .. a + b : IF i <= a THEN i \in 1 .. a ELSE i - a \in 1 .. b
  BY <1>1
<1>4. \A i \in 1 .. a + b : IF i <= a THEN x[i] = u[i] /\ x[i] \in Range(u)
                            ELSE x[i] = w[i - a] /\ x[i] \in Range(w)
  BY <1>1, <1>2, <1>3 DEF Range
<1>5. ASSUME NEW i \in 1 .. a + b, NEW j \in 1 .. a + b, x[i] = x[j] PROVE i = j
  <2>1. CASE i <= a /\ j <= a
    BY <1>1, <1>3, <1>4, <1>5, <2>1 DEF IsInjective
  <2>2. CASE ~(i <= a) /\ ~(j <= a)
    <3>1. i - a \in DOMAIN w /\ j - a \in DOMAIN w /\ w[i - a] = w[j - a]
      BY <1>1, <1>3, <1>4, <1>5, <2>2
    <3>2. i - a = j - a
      BY <3>1 DEF IsInjective
    <3> QED
      BY <1>1, <3>2
  <2>3. CASE (i <= a) # (j <= a)
    BY <1>4, <1>5, <2>3
  <2> QED
    BY <2>1, <2>2, <2>3
<1>6. IsInjective(x)
  BY <1>2, <1>5 DEF IsInjective
<1>7. Range(x) = Range(u) \cup Range(w)
  <2>1. Range(x) \subseteq Range(u) \cup Range(w)
    BY <1>2, <1>4 DEF Range
  <2>2. ASSUME NEW i \in 1 .. a PROVE u[i] \in Range(x)
    <3>1. i \in 1 .. a + b /\ i <= a
      BY <1>1
    <3> QED
      BY <1>2, <3>1 DEF Range
  <2>3. ASSUME NEW i \in 1 .. b PROVE w[i] \in Range(x)
    <3>1. a + i \in 1 .. a + b /\ ~(a + i <= a) /\ (a + i) - a = i
      BY <1>1
    <3> QED
      BY <1>2, <3>1 DEF Range
  <2> QED
    BY <1>1, <2>1, <2>2, <2>3 DEF Range
<1> QED
  BY <1>6, <1>7 DEF x

\* Any number of them.
LEMMA FlattenDistinct ==
  ASSUME NEW T, NEW n \in Nat, NEW s,
         \A k \in 1 .. n : s[k] \in Seq(T) /\ IsInjective(s[k]),
         \A k, j \in 1 .. n : k # j => Range(s[k]) \cap Range(s[j]) = {}
  PROVE  LET f == FlattenSeq([k \in 1 .. n |-> s[k]])
         IN  IsInjective(f) /\ \A x : x \in Range(f) <=> \E k \in 1 .. n : x \in Range(s[k])
<1> DEFINE f(m) == FlattenSeq([k \in 1 .. m |-> s[k]])
           Good(m) == /\ f(m) \in Seq(T) /\ IsInjective(f(m))
                      /\ \A x : x \in Range(f(m)) <=> \E k \in 1 .. m : x \in Range(s[k])
           P == {m \in 0 .. n : Good(m)}
<1>1. Good(0)
  <2>1. 1 .. 0 = {}
    OBVIOUS
  <2>2. [k \in 1 .. 0 |-> s[k]] = << >>
    BY <2>1
  <2>3. f(0) = << >>
    BY <2>2 DEF FlattenSeq
  <2>4. << >> \in Seq(T) /\ DOMAIN << >> = {}
    OBVIOUS
  <2>5. IsInjective(<< >>) /\ Range(<< >>) = {}
    BY <2>4 DEF IsInjective, Range
  <2> HIDE DEF f
  <2> QED
    BY <2>1, <2>3, <2>4, <2>5
<1>2. ASSUME NEW m \in 0 .. n - 1, m \in P PROVE m + 1 \in P
  <2>1. m \in Nat /\ m + 1 \in 1 .. n /\ m + 1 \in 0 .. n /\ \A k \in 1 .. m + 1 : k \in 1 .. n
    OBVIOUS
  <2>2. \A k \in 1 .. m + 1 : s[k] \in Seq(T)
    BY <2>1
  <2>3. f(m) \in Seq(T) /\ f(m + 1) = f(m) \o s[m + 1]
    BY <2>1, <2>2, FlattenNext
  <2>4. IsInjective(f(m)) /\ \A x : x \in Range(f(m)) <=> \E k \in 1 .. m : x \in Range(s[k])
    BY <1>2
  <2> HIDE DEF f
  <2>5. s[m + 1] \in Seq(T) /\ IsInjective(s[m + 1])
    BY <2>1
  <2>6. Range(f(m)) \cap Range(s[m + 1]) = {}
    <3>1. \A k \in 1 .. m : k \in 1 .. n /\ k # m + 1
      BY <2>1
    <3>2. \A k \in 1 .. m : Range(s[k]) \cap Range(s[m + 1]) = {}
      BY <2>1, <3>1
    <3> QED
      BY <2>4, <3>2
  <2>7. IsInjective(f(m + 1)) /\ Range(f(m + 1)) = Range(f(m)) \cup Range(s[m + 1])
    <3> DEFINE u == f(m)
               w == s[m + 1]
    <3>1. u \in Seq(T) /\ w \in Seq(T) /\ IsInjective(u) /\ IsInjective(w) /\ Range(u) \cap Range(w) = {}
      BY <2>3, <2>4, <2>5, <2>6
    <3>2. f(m + 1) = u \o w
      BY <2>3
    <3> HIDE DEF u, w
    <3>3. IsInjective(u \o w) /\ Range(u \o w) = Range(u) \cup Range(w)
      BY <3>1, JoinDistinct
    <3> QED
      BY <3>2, <3>3 DEF u, w
  <2>8. f(m + 1) \in Seq(T)
    BY <2>3, <2>5, ConcatProperties
  <2>9. \A x : x \in Range(f(m + 1)) <=> \E k \in 1 .. m + 1 : x \in Range(s[k])
    <3>1. \A k : k \in 1 .. m + 1 <=> k \in 1 .. m \/ k = m + 1
      BY <2>1
    <3>2. \A x : x \in Range(f(m + 1)) <=> x \in Range(f(m)) \/ x \in Range(s[m + 1])
      BY <2>7
    <3> QED
      BY <2>4, <3>1, <3>2
  <2> QED
    BY <2>1, <2>7, <2>8, <2>9
<1>3. P = 0 .. n
  <2>1. P \subseteq 0 .. n /\ 0 \in P
    BY <1>1
  <2> HIDE DEF P
  <2> QED
    BY <1>2, <2>1, UpFromZero
<1>4. n \in P
  <2> HIDE DEF P
  <2> QED
    BY <1>3
<1> QED
  BY <1>4

\* The strings of one op are different, and are its own.
LEMMA FreeOfIs ==
  ASSUME NEW part \in Nat \ {0}, NEW listed \in Nat \ {0}, NEW i \in Nat, NEW op,
         OpRight(part, listed, i, op)
  PROVE  /\ FreeOf(op) \in Seq(Pointer) /\ IsInjective(FreeOf(op))
         /\ Range(FreeOf(op)) = ({op.path, op.as} \cup Range(op.list)) \ {Null}
         /\ \A p \in Range(FreeOf(op)) : p.op = i
<1> DEFINE list == op.list
<1>1. /\ op.path \in Pointer /\ op.as \in Pointer /\ list \in Seq(Pointer)
      /\ op.path # Null => op.path.nth = 1 /\ op.path.op = i
      /\ op.as # Null => op.as.nth = 2 /\ op.as.op = i
  BY DEF OpRight, OpSet, Str
<1>2. /\ Len(list) \in Nat /\ DOMAIN list = 1 .. Len(list)
      /\ \A k \in 1 .. Len(list) : /\ list[k] \in Pointer /\ list[k].nth = 2 + k /\ list[k].op = i
                                   /\ list[k] # Null
  <2>1. Len(list) \in Nat /\ DOMAIN list = 1 .. Len(list) /\ \A k \in 1 .. Len(list) : list[k] \in Pointer
    BY <1>1, InSeq
  <2>2. ASSUME NEW k \in 1 .. Len(list)
        PROVE  list[k].nth = 2 + k /\ list[k].op = i /\ list[k] # Null
    <3>1. list[k] = Str(listed, i, 2 + k, list[k].text)
      BY DEF OpRight
    <3>2. Str(listed, i, 2 + k, list[k].text).part = listed /\ Null.part = 0
      BY DEF Str, Null
    <3>3. Str(listed, i, 2 + k, list[k].text).nth = 2 + k /\ Str(listed, i, 2 + k, list[k].text).op = i
      BY DEF Str
    <3> QED
      BY <3>1, <3>2, <3>3
  <2> QED
    BY <2>1, <2>2
<1> HIDE DEF list
<1>3. ASSUME NEW s \in Pointer
      PROVE  Freed(s) \in Seq(Pointer) /\ IsInjective(Freed(s)) /\ Range(Freed(s)) = {s} \ {Null}
  <2>1. << >> \in Seq(Pointer) /\ <<s>> \in Seq(Pointer) /\ DOMAIN << >> = {} /\ DOMAIN <<s>> = {1} /\ <<s>>[1] = s
    OBVIOUS
  <2> QED
    BY <2>1 DEF Freed, IsInjective, Range
<1>4. IsInjective(list)
  <2>1. ASSUME NEW k \in 1 .. Len(list), NEW j \in 1 .. Len(list), list[k] = list[j] PROVE k = j
    <3>1. 2 + k = 2 + j
      BY <1>2, <2>1
    <3> QED
      BY <1>2, <3>1
  <2> QED
    BY <1>2, <2>1 DEF IsInjective
<1>5. Range(list) \cap {Null} = {} /\ \A p \in Range(list) : p.nth # 1 /\ p.nth # 2 /\ p.op = i
  <2>1. ASSUME NEW k \in 1 .. Len(list) PROVE list[k].nth # 1 /\ list[k].nth # 2
    BY <1>2
  <2> QED
    BY <1>2, <2>1 DEF Range
<1> DEFINE u == Freed(op.path)
           w == Freed(op.as)
<1>6. /\ u \in Seq(Pointer) /\ IsInjective(u) /\ Range(u) = {op.path} \ {Null}
      /\ w \in Seq(Pointer) /\ IsInjective(w) /\ Range(w) = {op.as} \ {Null}
  BY <1>1, <1>3
<1>7. FreeOf(op) = (u \o w) \o list
  <2>1. FreeOf(op) = u \o w \o list
    BY DEF FreeOf, list
  <2> HIDE DEF u, w
  <2> QED
    BY <2>1
<1> HIDE DEF u, w
<1>8. Range(u) \cap Range(w) = {}
  BY <1>1, <1>6
<1>9. /\ u \o w \in Seq(Pointer) /\ IsInjective(u \o w)
      /\ Range(u \o w) = {op.path, op.as} \ {Null}
  <2>1. u \o w \in Seq(Pointer)
    BY <1>6, ConcatProperties
  <2>2. IsInjective(u \o w) /\ Range(u \o w) = Range(u) \cup Range(w)
    BY <1>6, <1>8, JoinDistinct
  <2> QED
    BY <1>6, <2>1, <2>2
<1>10. Range(u \o w) \cap Range(list) = {}
  BY <1>1, <1>5, <1>9
<1>11. (u \o w) \o list \in Seq(Pointer)
  BY <1>1, <1>9, ConcatProperties
<1>12. IsInjective((u \o w) \o list) /\ Range((u \o w) \o list) = Range(u \o w) \cup Range(list)
  <2> DEFINE x == u \o w
  <2>1. x \in Seq(Pointer) /\ IsInjective(x) /\ Range(x) \cap Range(list) = {}
    BY <1>9, <1>10
  <2> HIDE DEF x
  <2>2. IsInjective(x \o list) /\ Range(x \o list) = Range(x) \cup Range(list)
    BY <1>1, <1>4, <2>1, JoinDistinct
  <2> QED
    BY <2>2 DEF x
<1>13. Range(FreeOf(op)) = ({op.path, op.as} \cup Range(op.list)) \ {Null}
  BY <1>5, <1>7, <1>9, <1>12 DEF list
<1>14. \A p \in Range(FreeOf(op)) : p.op = i
  BY <1>1, <1>5, <1>13 DEF list
<1> QED
  BY <1>7, <1>11, <1>12, <1>13, <1>14

\* The strings of a chain are different, and are all of them.
LEMMA ChainFreed ==
  ASSUME NEW c \in Commands, Accepted(c)
  PROVE  LET f == FlattenSeq([i \in DOMAIN ChainOf(c) |-> FreeOf(ChainOf(c)[i])])
         IN  IsInjective(f) /\ Range(f) = StringsOf(ChainOf(c))
<1> DEFINE chain == ChainOf(c)
           n == Len(chain)
           s == [i \in 1 .. n |-> FreeOf(chain[i])]
<1>1. PICK part \in Nat \ {0}, listed \in Nat \ {0} :
        \A i \in 1 .. n : OpRight(part, listed, i, chain[i])
  BY ChainIs
<1>2. n \in Nat /\ DOMAIN chain = 1 .. n
  BY ChainIs
<1> HIDE DEF chain, n
<1>3. ASSUME NEW i \in 1 .. n
      PROVE  /\ FreeOf(chain[i]) \in Seq(Pointer) /\ IsInjective(FreeOf(chain[i]))
             /\ Range(FreeOf(chain[i])) = ({chain[i].path, chain[i].as} \cup Range(chain[i].list)) \ {Null}
             /\ \A p \in Range(FreeOf(chain[i])) : p.op = i
  <2>1. i \in Nat /\ OpRight(part, listed, i, chain[i])
    BY <1>1, <1>2
  <2> QED
    BY <2>1, FreeOfIs
<1>4. \A i \in 1 .. n : s[i] = FreeOf(chain[i])
  OBVIOUS
<1>5. s = [i \in 1 .. n |-> s[i]]
  OBVIOUS
<1> HIDE DEF s
<1>6. \A k \in 1 .. n : /\ s[k] \in Seq(Pointer) /\ IsInjective(s[k])
                        /\ \A p \in Range(s[k]) : p.op = k
  BY <1>3, <1>4
<1>7. ASSUME NEW k \in 1 .. n, NEW j \in 1 .. n, k # j PROVE Range(s[k]) \cap Range(s[j]) = {}
  <2>1. \A p \in Range(s[k]) : p.op = k
    BY <1>6
  <2>2. \A p \in Range(s[j]) : p.op = j
    BY <1>6
  <2> QED
    BY <1>7, <2>1, <2>2
<1>8. IsInjective(FlattenSeq(s)) /\ \A x : x \in Range(FlattenSeq(s)) <=> \E k \in 1 .. n : x \in Range(s[k])
  <2>1. \A k \in 1 .. n : s[k] \in Seq(Pointer) /\ IsInjective(s[k])
    BY <1>6
  <2>2. \A k, j \in 1 .. n : k # j => Range(s[k]) \cap Range(s[j]) = {}
    BY <1>7
  <2> DEFINE t == [k \in 1 .. n |-> s[k]]
  <2>3. IsInjective(FlattenSeq(t)) /\ \A x : x \in Range(FlattenSeq(t)) <=> \E k \in 1 .. n : x \in Range(s[k])
    BY <1>2, <2>1, <2>2, FlattenDistinct
  <2>4. s = t
    BY <1>5
  <2> QED
    BY <2>3, <2>4
<1>9. \A x : x \in StringsOf(chain) <=> \E k \in 1 .. n : x \in Range(s[k])
  <2> DEFINE r(k) == {chain[k].path, chain[k].as} \cup Range(chain[k].list)
  <2>1. \A k \in 1 .. n : \A x : x \in Range(s[k]) <=> x \in r(k) /\ x # Null
    BY <1>3, <1>4
  <2> DEFINE D == DOMAIN chain
             U == UNION {r(k) : k \in D}
  <2>2. D = 1 .. n
    BY <1>2
  <2>3. StringsOf(chain) = U \ {Null}
    BY Zenon DEF StringsOf
  <2> HIDE DEF r, D
  <2>5. \A x : x \in StringsOf(chain) <=> x # Null /\ \E k \in 1 .. n : x \in r(k)
    <3>1. \A x : x \in U => \E k \in D : x \in r(k)
      BY Zenon
    <3>2. \A k \in D : \A x \in r(k) : x \in U
      <4> SUFFICES ASSUME NEW k \in D, NEW x \in r(k) PROVE \E y \in {r(j) : j \in D} : x \in y
        OBVIOUS
      <4>1. r(k) \in {r(j) : j \in D}
        OBVIOUS
      <4> QED
        BY <4>1
    <3> HIDE DEF U
    <3> QED
      BY <2>2, <2>3, <3>1, <3>2
  <2> QED
    BY <2>1, <2>5, Zenon
<1>10. s = [i \in DOMAIN chain |-> FreeOf(chain[i])]
  BY <1>2, <1>4, <1>5
<1>11. Range(FlattenSeq(s)) = StringsOf(chain)
  BY <1>8, <1>9
<1> QED
  BY <1>8, <1>10, <1>11 DEF chain
-----------------------------------------------------------------------------
(***************************************************************************)
(* How the array of an op is filled.                                       *)
(***************************************************************************)
LEMMA FlattenType ==
  ASSUME NEW T, NEW n \in Nat, NEW s, \A k \in 1 .. n : s[k] \in Seq(T)
  PROVE  FlattenSeq([k \in 1 .. n |-> s[k]]) \in Seq(T)
<1>1. CASE n = 0
  <2>1. [k \in 1 .. n |-> s[k]] = << >>
    BY <1>1
  <2>2. << >> \in Seq(T)
    OBVIOUS
  <2> QED
    BY <2>1, <2>2 DEF FlattenSeq
<1>2. CASE n # 0
  <2>1. PICK m \in Nat : n = m + 1
    BY <1>2
  <2>2. /\ FlattenSeq([k \in 1 .. m |-> s[k]]) \in Seq(T)
        /\ FlattenSeq([k \in 1 .. m + 1 |-> s[k]]) = FlattenSeq([k \in 1 .. m |-> s[k]]) \o s[m + 1]
    BY <2>1, FlattenNext
  <2>3. s[m + 1] \in Seq(T)
    BY <2>1
  <2> QED
    BY <2>1, <2>2, <2>3, ConcatProperties
<1> QED
  BY <1>1, <1>2

\* What the first calls of a loop find is a list of values, each call adding
\* what is in the value it finds.
LEMMA FirstLeavesNext ==
  ASSUME NEW dd \in Items, NEW p \in DottedPath, NEW n \in Nat,
         \A k \in 0 .. n : CallIn(dd, p, k).found
  PROVE  /\ FirstLeaves(dd, p, n) \in Seq(Value)
         /\ FirstLeaves(dd, p, n + 1) = FirstLeaves(dd, p, n) \o Leaves[FoundIn(dd, p, n)]
<1> DEFINE s == [k \in 1 .. n + 1 |-> Leaves[FoundIn(dd, p, k - 1)]]
<1>1. ASSUME NEW k \in 1 .. n + 1 PROVE s[k] \in Seq(Value)
  <2>1. k - 1 \in Nat /\ k - 1 \in 0 .. n
    OBVIOUS
  <2>2. FoundIn(dd, p, k - 1) \in Value
    BY <2>1, FoundValues DEF FoundIn, CallIn
  <2> QED
    BY <2>2, LeavesUnfold
<1>2. /\ [k \in 1 .. n |-> s[k]] = [k \in 1 .. n |-> Leaves[FoundIn(dd, p, k - 1)]]
      /\ [k \in 1 .. n + 1 |-> s[k]] = [k \in 1 .. n + 1 |-> Leaves[FoundIn(dd, p, k - 1)]]
      /\ s[n + 1] = Leaves[FoundIn(dd, p, n)]
  <2>1. n + 1 \in 1 .. n + 1 /\ (n + 1) - 1 = n /\ \A k \in 1 .. n : k \in 1 .. n + 1
    OBVIOUS
  <2> QED
    BY <2>1
<1> HIDE DEF s
<1>3. /\ FlattenSeq([k \in 1 .. n |-> s[k]]) \in Seq(Value)
      /\ FlattenSeq([k \in 1 .. n + 1 |-> s[k]]) = FlattenSeq([k \in 1 .. n |-> s[k]]) \o s[n + 1]
  BY <1>1, FlattenNext
<1> QED
  BY <1>2, <1>3 DEF FirstLeaves

\* A path that is found as it stands.
LEMMA DirectLeaves ==
  ASSUME NEW dd \in Items, NEW p \in DottedPath, FindDirect[p][dd] # << >>
  PROVE  LET v == ValueAt(dd, FindDirect[p][dd])
         IN  /\ v \in Value /\ Shown(dd, p) = <<v>>
             /\ LeavesIn(dd, p) = Leaves[v] /\ Leaves[v] \in Seq(Value)
<1> DEFINE v == ValueAt(dd, FindDirect[p][dd])
<1>1. v \in Value /\ Shown(dd, p) = <<v>>
  BY ShownIs, FoundValues
<1>2. Leaves[v] \in Seq(Value)
  BY <1>1, LeavesUnfold
<1>3. LeavesIn(dd, p) = FlattenSeq([k \in DOMAIN Shown(dd, p) |-> Leaves[Shown(dd, p)[k]]])
  BY DEF LeavesIn
<1> HIDE DEF v
<1>4. [k \in DOMAIN <<v>> |-> Leaves[<<v>>[k]]] = <<Leaves[v]>>
  OBVIOUS
<1>5. LeavesIn(dd, p) = FlattenSeq(<<Leaves[v]>>)
  BY <1>1, <1>3, <1>4
<1>6. LeavesIn(dd, p) = Leaves[v]
  BY <1>2, <1>5, FlattenOne
<1> QED
  BY <1>1, <1>2, <1>6 DEF v

\* A path without a dot that names no field.
LEMMA NoLeaves ==
  ASSUME NEW dd \in Items, NEW p \in DottedPath, FindDirect[p][dd] = << >>, Len(p) = 1
  PROVE  Shown(dd, p) = << >> /\ LeavesIn(dd, p) = << >>
<1>1. Shown(dd, p) = << >>
  BY ShownIs
<1>2. [k \in DOMAIN << >> |-> Leaves[<< >>[k]]] = << >>
  OBVIOUS
<1>3. LeavesIn(dd, p) = FlattenSeq(<< >>)
  BY <1>1, <1>2 DEF LeavesIn
<1> QED
  BY <1>1, <1>3 DEF FlattenSeq

\* A path that is looked for through arrays, when the loop ends.
LEMMA LoopLeaves ==
  ASSUME NEW dd \in Items, NEW p \in DottedPath, LoopsIn(dd, p), NEW n \in Nat,
         \A k \in 0 .. n - 1 : CallIn(dd, p, k).found, ~CallIn(dd, p, n).found
  PROVE  /\ Shown(dd, p) = [k \in 1 .. n |-> FoundIn(dd, p, k - 1)]
         /\ LeavesIn(dd, p) = FirstLeaves(dd, p, n)
         /\ LeavesIn(dd, p) \in Seq(Value)
<1>1. Shown(dd, p) = [k \in 1 .. n |-> FoundIn(dd, p, k - 1)]
  <2>1. \A k \in Nat : k < n => FindDescendants[p][dd][k].found
    <3>1. \A k \in Nat : k < n => k \in 0 .. n - 1
      OBVIOUS
    <3> QED
      BY <3>1 DEF CallIn
  <2>2. FindDirect[p][dd] = << >> /\ Len(p) # 1 /\ ~FindDescendants[p][dd][n].found
    BY PathParts DEF LoopsIn, CallIn
  <2>3. Shown(dd, p) = FirstFound(dd, p, n)
    BY <2>1, <2>2, ShownIs
  <2> QED
    BY <2>3 DEF FirstFound, FoundIn, CallIn
<1> DEFINE s == [k \in 1 .. n |-> Leaves[FoundIn(dd, p, k - 1)]]
<1>2. [k \in DOMAIN Shown(dd, p) |-> Leaves[Shown(dd, p)[k]]] = s
  BY <1>1
<1>3. LeavesIn(dd, p) = FlattenSeq(s)
  BY <1>2 DEF LeavesIn
<1>4. FlattenSeq(s) = FirstLeaves(dd, p, n)
  BY DEF FirstLeaves
<1>5. ASSUME NEW k \in 1 .. n PROVE s[k] \in Seq(Value)
  <2>1. k - 1 \in Nat /\ k - 1 \in 0 .. n - 1
    OBVIOUS
  <2>2. FoundIn(dd, p, k - 1) \in Value
    BY <2>1, FoundValues DEF FoundIn, CallIn
  <2> QED
    BY <2>2, LeavesUnfold
<1>6. s = [k \in 1 .. n |-> s[k]]
  OBVIOUS
<1> HIDE DEF s
<1>7. FlattenSeq(s) \in Seq(Value)
  BY <1>5, <1>6, FlattenType
<1> QED
  BY <1>1, <1>3, <1>4, <1>7
\* A value more in an array.
LEMMA ArrayGrows ==
  ASSUME NEW arr \in Filled, NEW v \in Value, NEW i \in Nat
  PROVE  /\ Into[v][i] \in Filled /\ arr \o Into[v][i] \in Filled
         /\ Values(arr \o Into[v][i]) = Values(arr) \o Leaves[v]
         /\ Values(arr) \in Seq(Value) /\ Leaves[v] \in Seq(Value)
<1>1. Into[v][i] \in Filled /\ Values(Into[v][i]) = Leaves[v] /\ Leaves[v] \in Seq(Value)
  BY IntoUnfold, IntoValues, LeavesUnfold
<1> DEFINE w == Into[v][i]
<1> HIDE DEF w
<1>2. w \in Filled
  BY <1>1 DEF w
<1>3. arr \o w \in Filled /\ Values(arr) \in Seq(Value) /\ Values(arr \o w) = Values(arr) \o Values(w)
  BY <1>2, ValuesJoin
<1> QED
  BY <1>1, <1>3 DEF w

\* The keys go on where those before end.
LEMMA KeysJoin ==
  ASSUME NEW u \in Filled, NEW w \in Filled, KeysFrom(u, 0), KeysFrom(w, Len(u))
  PROVE  KeysFrom(u \o w, 0) /\ Len(u \o w) = Len(u) + Len(w) /\ Len(u) \in Nat /\ Len(w) \in Nat
<1> DEFINE E == [key : Nat, val : Value]
           x == u \o w
<1>1. u \in Seq(E) /\ w \in Seq(E)
  BY DEF Filled
<1> HIDE DEF E
<1>2. /\ Len(x) = Len(u) + Len(w) /\ Len(u) \in Nat /\ Len(w) \in Nat
      /\ \A k \in 1 .. Len(u) + Len(w) : x[k] = IF k <= Len(u) THEN u[k] ELSE w[k - Len(u)]
  BY <1>1, ConcatProperties, LenProperties
<1> HIDE DEF x
<1>3. ASSUME NEW k \in 1 .. Len(x) PROVE x[k].key = 0 + k - 1
  <2>1. CASE k <= Len(u)
    <3>1. k \in 1 .. Len(u) /\ x[k] = u[k]
      BY <1>2, <2>1
    <3> QED
      BY <3>1 DEF KeysFrom
  <2>2. CASE ~(k <= Len(u))
    <3>1. k - Len(u) \in 1 .. Len(w) /\ x[k] = w[k - Len(u)] /\ Len(u) + (k - Len(u)) - 1 = 0 + k - 1
      BY <1>2, <2>2
    <3>2. w[k - Len(u)].key = Len(u) + (k - Len(u)) - 1
      BY <3>1 DEF KeysFrom
    <3> QED
      BY <3>1, <3>2
  <2> QED
    BY <2>1, <2>2
<1> QED
  BY <1>2, <1>3 DEF KeysFrom, x

\* No path.
LEMMA GatherNone ==
  ASSUME NEW dd, NEW paths
  PROVE  Gather(dd, paths, 0) = << >>
<1>1. [k \in 1 .. 0 |-> LeavesIn(dd, paths[k])] = << >>
  OBVIOUS
<1> QED
  BY <1>1 DEF Gather, FlattenSeq

\* One path more.
LEMMA GatherNext ==
  ASSUME NEW dd, NEW paths, NEW n \in Nat, Whole(dd, paths, n),
         LeavesIn(dd, paths[n + 1]) \in Seq(Value)
  PROVE  /\ Whole(dd, paths, n + 1) /\ Gather(dd, paths, n) \in Seq(Value)
         /\ Gather(dd, paths, n + 1) = Gather(dd, paths, n) \o LeavesIn(dd, paths[n + 1])
<1> DEFINE s == [k \in 1 .. n + 1 |-> LeavesIn(dd, paths[k])]
<1>1. \A k \in 1 .. n + 1 : k \in 1 .. n \/ k = n + 1
  OBVIOUS
<1>2. Whole(dd, paths, n + 1)
  BY <1>1 DEF Whole
<1>3. \A k \in 1 .. n + 1 : s[k] \in Seq(Value)
  BY <1>2 DEF Whole
<1>4. /\ [k \in 1 .. n |-> s[k]] = [k \in 1 .. n |-> LeavesIn(dd, paths[k])]
      /\ [k \in 1 .. n + 1 |-> s[k]] = [k \in 1 .. n + 1 |-> LeavesIn(dd, paths[k])]
      /\ s[n + 1] = LeavesIn(dd, paths[n + 1])
  <2>1. n + 1 \in 1 .. n + 1 /\ \A k \in 1 .. n : k \in 1 .. n + 1
    OBVIOUS
  <2> QED
    BY <2>1
<1> HIDE DEF s
<1>5. /\ FlattenSeq([k \in 1 .. n |-> s[k]]) \in Seq(Value)
      /\ FlattenSeq([k \in 1 .. n + 1 |-> s[k]]) = FlattenSeq([k \in 1 .. n |-> s[k]]) \o s[n + 1]
  BY <1>3, FlattenNext
<1> QED
  BY <1>2, <1>4, <1>5 DEF Gather

\* What a list of whole paths gathers is a list of values.
LEMMA GatherType ==
  ASSUME NEW dd, NEW paths, NEW n \in Nat, Whole(dd, paths, n)
  PROVE  Gather(dd, paths, n) \in Seq(Value)
<1> DEFINE s == [k \in 1 .. n |-> LeavesIn(dd, paths[k])]
<1>1. \A k \in 1 .. n : s[k] \in Seq(Value)
  BY DEF Whole
<1>2. s = [k \in 1 .. n |-> s[k]]
  OBVIOUS
<1>3. Gather(dd, paths, n) = FlattenSeq(s)
  BY DEF Gather
<1> HIDE DEF s
<1> QED
  BY <1>1, <1>2, <1>3, FlattenType

\* An array that is empty.
LEMMA EmptyArray ==
  /\ << >> \in Filled /\ Values(<< >>) = << >> /\ KeysFrom(<< >>, 0) /\ Len(<< >>) = 0
  BY DEF Filled, Values, KeysFrom

\* Before the first path.
LEMMA FillBegins ==
  ASSUME NEW dd, NEW paths
  PROVE  Filling(dd, paths, 0, << >>, 0, 0, 0)
<1>1. Whole(dd, paths, 0)
  BY DEF Whole
<1> QED
  BY <1>1, GatherNone, EmptyArray DEF Filling

\* A loop starts from counters at zero, as long as no path before it counted.
LEMMA LoopStarts ==
  ASSUME NEW dd \in Items, NEW paths \in Seq(DottedPath), NEW n \in 0 .. Len(paths) - 1,
         NEW arr \in Filled, NEW chk \in Nat, NEW skp \in Nat, NEW pck \in Nat,
         LoopsIn(dd, paths[n + 1]), Filling(dd, paths, n, arr, chk, skp, pck)
  PROVE  Looping(dd, paths, n, paths[n + 1], arr, chk, skp, pck)
<1> SUFFICES ASSUME Fine(dd, paths)
             PROVE  /\ skp = chk
                    /\ \A k \in 0 .. chk - 1 : CallIn(dd, paths[n + 1], k).found
                    /\ Whole(dd, paths, n)
                    /\ Values(arr) = Gather(dd, paths, n) \o FirstLeaves(dd, paths[n + 1], chk)
                    /\ chk = 0 => pck = 0
                    /\ Len(paths) = 1 => KeysFrom(arr, 0) /\ pck = Len(arr)
  BY DEF Looping
<1>0. n \in Nat /\ n + 1 \in 1 .. Len(paths) /\ Len(paths) \in Nat /\ DOMAIN paths = 1 .. Len(paths) /\ n + 1 - 1 = n
  BY InSeq
<1>1. \A j \in 1 .. n : ~CountsIn(dd, paths[j])
  BY <1>0 DEF Fine
<1>2. chk = 0 /\ skp = 0 /\ pck = 0 /\ Whole(dd, paths, n) /\ Values(arr) = Gather(dd, paths, n)
  BY <1>1 DEF Filling
<1>3. FirstLeaves(dd, paths[n + 1], 0) = << >>
  <2>1. [k \in 1 .. 0 |-> Leaves[FoundIn(dd, paths[n + 1], k - 1)]] = << >>
    OBVIOUS
  <2> QED
    BY <2>1 DEF FirstLeaves, FlattenSeq
<1>4. Gather(dd, paths, n) \o << >> = Gather(dd, paths, n)
  <2>1. Gather(dd, paths, n) \in Seq(Value)
    BY <1>0, <1>2, GatherType
  <2> QED
    BY <2>1, ConcatEmptySeq
<1>5. \A k \in 0 .. chk - 1 : FALSE
  BY <1>2
<1>6. Len(paths) = 1 => KeysFrom(arr, 0) /\ pck = Len(arr)
  <2>1. Len(paths) = 1 => n = 0
    BY <1>0
  <2>2. n = 0 => arr = << >>
    BY DEF Filling
  <2> QED
    BY <1>2, <2>1, <2>2, EmptyArray
<1> QED
  BY <1>2, <1>3, <1>4, <1>5, <1>6

\* A path that is found as it stands adds what is in its value.
LEMMA FillDirect ==
  ASSUME NEW dd \in Items, NEW paths \in Seq(DottedPath), NEW n \in 0 .. Len(paths) - 1,
         NEW arr \in Filled, NEW chk \in Nat, NEW skp \in Nat, NEW pck \in Nat,
         NEW v, FindDirect[paths[n + 1]][dd] # << >>, v = ValueAt(dd, FindDirect[paths[n + 1]][dd]),
         NEW chk2, NEW pck2, Len(paths[n + 1]) # 1 => chk2 = chk /\ pck2 = pck,
         Filling(dd, paths, n, arr, chk, skp, pck)
  PROVE  /\ arr \o Into[v][chk] \in Filled
         /\ Filling(dd, paths, n + 1, arr \o Into[v][chk], chk2, skp, pck2)
<1> DEFINE p == paths[n + 1]
           x == arr \o Into[v][chk]
<1>0. /\ n \in Nat /\ n + 1 \in 1 .. Len(paths) /\ Len(paths) \in Nat /\ n + 1 # 0
      /\ p \in DottedPath
  BY InSeq
<1>1. v \in Value /\ Shown(dd, p) = <<v>> /\ LeavesIn(dd, p) = Leaves[v] /\ LeavesIn(dd, p) \in Seq(Value)
  BY <1>0, DirectLeaves
<1>2. /\ Into[v][chk] \in Filled /\ x \in Filled
      /\ Values(x) = Values(arr) \o Leaves[v]
  BY <1>1, ArrayGrows
<1>3. ASSUME Fine(dd, paths)
      PROVE  /\ Whole(dd, paths, n + 1) /\ Values(x) = Gather(dd, paths, n + 1)
             /\ (\A j \in 1 .. n + 1 : ~CountsIn(dd, paths[j])) => chk2 = 0 /\ skp = 0 /\ pck2 = 0
             /\ Len(paths) = 1 /\ AllPlain(dd, paths[1]) => KeysFrom(x, 0)
  <2>1. Whole(dd, paths, n) /\ Values(arr) = Gather(dd, paths, n)
    BY <1>3 DEF Filling
  <2>2. Whole(dd, paths, n + 1) /\ Gather(dd, paths, n + 1) = Gather(dd, paths, n) \o LeavesIn(dd, p)
    BY <1>0, <1>1, <2>1, GatherNext
  <2>3. (\A j \in 1 .. n + 1 : ~CountsIn(dd, paths[j])) => chk2 = 0 /\ skp = 0 /\ pck2 = 0
    <3> SUFFICES ASSUME \A j \in 1 .. n + 1 : ~CountsIn(dd, paths[j]) PROVE chk2 = 0 /\ skp = 0 /\ pck2 = 0
      OBVIOUS
    <3>1. ~CountsIn(dd, p) /\ \A j \in 1 .. n : ~CountsIn(dd, paths[j])
      BY <1>0
    <3>2. Len(p) # 1
      <4>1. Shown(dd, p) # << >>
        BY <1>1
      <4> QED
        BY <3>1, <4>1 DEF CountsIn
    <3>3. chk = 0 /\ skp = 0 /\ pck = 0
      BY <1>3, <3>1 DEF Filling
    <3> QED
      BY <3>2, <3>3
  <2>4. Len(paths) = 1 /\ AllPlain(dd, paths[1]) => KeysFrom(x, 0)
    <3> SUFFICES ASSUME Len(paths) = 1, AllPlain(dd, paths[1]) PROVE KeysFrom(x, 0)
      OBVIOUS
    <3>1. n = 0 /\ p = paths[1]
      BY <1>0
    <3>2. chk = 0 /\ arr = << >>
      BY <1>3, <3>1 DEF Filling
    <3>3. Plain(v)
      <4>1. v \in Range(<<v>>)
        BY DEF Range
      <4> QED
        BY <1>1, <3>1, <4>1 DEF AllPlain
    <3>4. KeysFrom(Into[v][0], 0)
      BY <1>1, <3>3, IntoKeys
    <3>5. x = Into[v][0]
      <4>1. Into[v][0] \in Filled
        BY <1>2, <3>2
      <4> QED
        BY <3>2, <4>1, ConcatEmptySeq DEF Filled
    <3> QED
      BY <3>4, <3>5
  <2> HIDE DEF x
  <2> QED
    BY <1>1, <1>2, <2>1, <2>2, <2>3, <2>4
<1> HIDE DEF x, p
<1>4. Filling(dd, paths, n + 1, x, chk2, skp, pck2)
  BY <1>0, <1>3 DEF Filling
<1> QED
  BY <1>2, <1>4 DEF x

\* A path without a dot that names no field adds nothing.
LEMMA FillNothing ==
  ASSUME NEW dd \in Items, NEW paths \in Seq(DottedPath), NEW n \in 0 .. Len(paths) - 1,
         NEW arr \in Filled, NEW chk \in Nat, NEW skp \in Nat, NEW pck \in Nat,
         FindDirect[paths[n + 1]][dd] = << >>, Len(paths[n + 1]) = 1,
         Filling(dd, paths, n, arr, chk, skp, pck)
  PROVE  Filling(dd, paths, n + 1, arr, chk, skp, pck)
<1> DEFINE p == paths[n + 1]
<1>0. /\ n \in Nat /\ n + 1 \in 1 .. Len(paths) /\ Len(paths) \in Nat /\ n + 1 # 0
      /\ p \in DottedPath /\ \A j \in 1 .. n : j \in 1 .. n + 1
  BY InSeq
<1>1. LeavesIn(dd, p) = << >> /\ << >> \in Seq(Value)
  BY <1>0, NoLeaves
<1>2. ASSUME Fine(dd, paths)
      PROVE  /\ Whole(dd, paths, n + 1) /\ Values(arr) = Gather(dd, paths, n + 1)
             /\ (\A j \in 1 .. n + 1 : ~CountsIn(dd, paths[j])) => chk = 0 /\ skp = 0 /\ pck = 0
             /\ Len(paths) = 1 => KeysFrom(arr, 0)
  <2>1. Whole(dd, paths, n) /\ Values(arr) = Gather(dd, paths, n)
    BY <1>2 DEF Filling
  <2>2. /\ Whole(dd, paths, n + 1) /\ Gather(dd, paths, n) \in Seq(Value)
        /\ Gather(dd, paths, n + 1) = Gather(dd, paths, n) \o << >>
    BY <1>0, <1>1, <2>1, GatherNext
  <2>3. Gather(dd, paths, n + 1) = Gather(dd, paths, n)
    BY <2>2, ConcatEmptySeq
  <2>4. Len(paths) = 1 => KeysFrom(arr, 0)
    <3>1. Len(paths) = 1 => n = 0
      BY <1>0
    <3>2. n = 0 => arr = << >>
      BY <1>2 DEF Filling
    <3> QED
      BY <3>1, <3>2, EmptyArray
  <2> QED
    BY <1>0, <1>2, <2>1, <2>2, <2>3, <2>4 DEF Filling
<1> QED
  BY <1>0, <1>2 DEF Filling
\* A call of the loop that finds a value adds what is in it.
LEMMA LoopGoesOn ==
  ASSUME NEW dd \in Items, NEW paths \in Seq(DottedPath), NEW n \in 0 .. Len(paths) - 1,
         NEW arr \in Filled, NEW chk \in Nat, NEW skp \in Nat, NEW pck \in Nat,
         NEW p \in DottedPath, CallIn(dd, p, skp).found,
         NEW v, v = ValueAt(dd, CallIn(dd, p, skp).place),
         Looping(dd, paths, n, p, arr, chk, skp, pck)
  PROVE  /\ v \in Value /\ arr \o Into[v][pck] \in Filled
         /\ Looping(dd, paths, n, p, arr \o Into[v][pck], chk + 1, chk + 1, pck + Added(v))
<1> DEFINE x == arr \o Into[v][pck]
<1>1. v \in Value
  BY FoundValues DEF CallIn
<1>2. /\ Into[v][pck] \in Filled /\ x \in Filled /\ Values(x) = Values(arr) \o Leaves[v]
      /\ Values(arr) \in Seq(Value) /\ Leaves[v] \in Seq(Value)
  BY <1>1, ArrayGrows
<1>3. ASSUME Fine(dd, paths)
      PROVE  /\ \A k \in 0 .. (chk + 1) - 1 : CallIn(dd, p, k).found
             /\ Whole(dd, paths, n)
             /\ Values(x) = Gather(dd, paths, n) \o FirstLeaves(dd, p, chk + 1)
             /\ Len(paths) = 1 /\ (\A k \in 0 .. (chk + 1) - 1 : Plain(FoundIn(dd, p, k))) =>
                  KeysFrom(x, 0) /\ pck + Added(v) = Len(x)
  <2>1. /\ skp = chk /\ Whole(dd, paths, n)
        /\ \A k \in 0 .. chk - 1 : CallIn(dd, p, k).found
        /\ Values(arr) = Gather(dd, paths, n) \o FirstLeaves(dd, p, chk)
        /\ Len(paths) = 1 /\ (\A k \in 0 .. chk - 1 : Plain(FoundIn(dd, p, k))) =>
             KeysFrom(arr, 0) /\ pck = Len(arr)
    BY <1>3 DEF Looping
  <2>2. \A k \in 0 .. (chk + 1) - 1 : k \in 0 .. chk - 1 \/ k = chk
    OBVIOUS
  <2>3. \A k \in 0 .. (chk + 1) - 1 : CallIn(dd, p, k).found
    BY <2>1, <2>2
  <2>4. v = FoundIn(dd, p, chk)
    BY <2>1 DEF FoundIn
  <2>5. /\ FirstLeaves(dd, p, chk) \in Seq(Value)
        /\ FirstLeaves(dd, p, chk + 1) = FirstLeaves(dd, p, chk) \o Leaves[v]
    <3>1. \A k \in 0 .. chk : CallIn(dd, p, k).found
      BY <2>3
    <3> QED
      BY <2>4, <3>1, FirstLeavesNext
  <2>6. Gather(dd, paths, n) \in Seq(Value)
    BY <2>1, GatherType
  <2>7. Values(x) = Gather(dd, paths, n) \o FirstLeaves(dd, p, chk + 1)
    <3> DEFINE a == Gather(dd, paths, n)
               b == FirstLeaves(dd, p, chk)
               c == Leaves[v]
    <3>1. a \in Seq(Value) /\ b \in Seq(Value) /\ c \in Seq(Value)
      BY <1>2, <2>5, <2>6
    <3>2. Values(x) = (a \o b) \o c /\ FirstLeaves(dd, p, chk + 1) = b \o c
      BY <1>2, <2>1, <2>5
    <3> HIDE DEF a, b, c, x
    <3>3. (a \o b) \o c = a \o (b \o c)
      <4> DEFINE Q == Seq(Value)
      <4>1. Assoc(Q)
        BY SeqAssoc
      <4>2. a \in Q /\ b \in Q /\ c \in Q
        BY <3>1
      <4> HIDE DEF Q
      <4> QED
        BY <4>1, <4>2, Zenon DEF Assoc
    <3> QED
      BY <3>2, <3>3 DEF a
  <2>8. Len(paths) = 1 /\ (\A k \in 0 .. (chk + 1) - 1 : Plain(FoundIn(dd, p, k))) =>
          KeysFrom(x, 0) /\ pck + Added(v) = Len(x)
    <3> SUFFICES ASSUME Len(paths) = 1, \A k \in 0 .. (chk + 1) - 1 : Plain(FoundIn(dd, p, k))
                 PROVE  KeysFrom(x, 0) /\ pck + Added(v) = Len(x)
      OBVIOUS
    <3>1. Plain(v) /\ \A k \in 0 .. chk - 1 : Plain(FoundIn(dd, p, k))
      <4>1. chk \in 0 .. (chk + 1) - 1 /\ \A k \in 0 .. chk - 1 : k \in 0 .. (chk + 1) - 1
        OBVIOUS
      <4> QED
        BY <2>4, <4>1
    <3>2. KeysFrom(arr, 0) /\ pck = Len(arr)
      BY <2>1, <3>1
    <3> DEFINE w == Into[v][pck]
    <3>3. Len(w) = Added(v) /\ KeysFrom(w, pck) /\ w \in Filled
      BY <1>1, <1>2, <3>1, IntoKeys
    <3> HIDE DEF w
    <3>4. KeysFrom(arr \o w, 0) /\ Len(arr \o w) = Len(arr) + Len(w)
      BY <3>2, <3>3, KeysJoin
    <3> QED
      BY <3>2, <3>3, <3>4 DEF w
  <2> HIDE DEF x
  <2> QED
    BY <2>1, <2>3, <2>7, <2>8
<1> HIDE DEF x
<1>4. chk + 1 # 0
  OBVIOUS
<1>5. Looping(dd, paths, n, p, x, chk + 1, chk + 1, pck + Added(v))
  BY <1>3, <1>4 DEF Looping
<1> QED
  BY <1>1, <1>2, <1>5 DEF x

\* The call of the loop that finds nothing ends it.
LEMMA LoopStops ==
  ASSUME NEW dd \in Items, NEW paths \in Seq(DottedPath), NEW n \in 0 .. Len(paths) - 1,
         NEW arr \in Filled, NEW chk \in Nat, NEW skp \in Nat, NEW pck \in Nat,
         NEW p \in DottedPath, p = paths[n + 1], LoopsIn(dd, p), ~CallIn(dd, p, skp).found,
         Looping(dd, paths, n, p, arr, chk, skp, pck)
  PROVE  Filling(dd, paths, n + 1, arr, chk, CallIn(dd, p, skp).skip, pck)
<1>0. /\ n \in Nat /\ n + 1 \in 1 .. Len(paths) /\ Len(paths) \in Nat /\ n + 1 # 0
      /\ \A j \in 1 .. n : j \in 1 .. n + 1
  BY InSeq
<1>1. ASSUME Fine(dd, paths)
      PROVE  /\ Whole(dd, paths, n + 1) /\ Values(arr) = Gather(dd, paths, n + 1)
             /\ (\A j \in 1 .. n + 1 : ~CountsIn(dd, paths[j])) =>
                  chk = 0 /\ CallIn(dd, p, skp).skip = 0 /\ pck = 0
             /\ Len(paths) = 1 /\ AllPlain(dd, paths[1]) => KeysFrom(arr, 0)
  <2>1. /\ skp = chk /\ Whole(dd, paths, n)
        /\ \A k \in 0 .. chk - 1 : CallIn(dd, p, k).found
        /\ Values(arr) = Gather(dd, paths, n) \o FirstLeaves(dd, p, chk)
        /\ chk = 0 => pck = 0
        /\ Len(paths) = 1 /\ (\A k \in 0 .. chk - 1 : Plain(FoundIn(dd, p, k))) => KeysFrom(arr, 0)
    BY <1>1 DEF Looping
  <2>2. /\ Shown(dd, p) = [k \in 1 .. chk |-> FoundIn(dd, p, k - 1)]
        /\ LeavesIn(dd, p) = FirstLeaves(dd, p, chk)
        /\ LeavesIn(dd, p) \in Seq(Value)
    BY <2>1, LoopLeaves
  <2>3. Whole(dd, paths, n + 1) /\ Gather(dd, paths, n + 1) = Gather(dd, paths, n) \o LeavesIn(dd, p)
    <3>1. LeavesIn(dd, paths[n + 1]) \in Seq(Value) /\ LeavesIn(dd, paths[n + 1]) = LeavesIn(dd, p)
      BY <2>2
    <3> QED
      BY <1>0, <2>1, <3>1, GatherNext
  <2>4. (\A j \in 1 .. n + 1 : ~CountsIn(dd, paths[j])) => chk = 0 /\ CallIn(dd, p, skp).skip = 0 /\ pck = 0
    <3> SUFFICES ASSUME \A j \in 1 .. n + 1 : ~CountsIn(dd, paths[j])
                 PROVE  chk = 0 /\ CallIn(dd, p, skp).skip = 0 /\ pck = 0
      OBVIOUS
    <3>1. Shown(dd, p) = << >>
      BY <1>0 DEF CountsIn
    <3>2. chk = 0
      <4>1. DOMAIN Shown(dd, p) = 1 .. chk
        BY <2>2
      <4>2. 1 .. chk = {}
        BY <3>1, <4>1
      <4> QED
        BY <4>2
    <3>3. CallIn(dd, p, 0).skip = 0
      BY SearchZero DEF Zero, CallIn
    <3> QED
      BY <2>1, <3>2, <3>3
  <2>5. Len(paths) = 1 /\ AllPlain(dd, paths[1]) => KeysFrom(arr, 0)
    <3> SUFFICES ASSUME Len(paths) = 1, AllPlain(dd, paths[1]) PROVE KeysFrom(arr, 0)
      OBVIOUS
    <3>1. p = paths[1]
      BY <1>0
    <3>2. ASSUME NEW k \in 0 .. chk - 1 PROVE Plain(FoundIn(dd, p, k))
      <4>1. k + 1 \in 1 .. chk /\ (k + 1) - 1 = k
        OBVIOUS
      <4>2. k + 1 \in DOMAIN Shown(dd, p) /\ Shown(dd, p)[k + 1] = FoundIn(dd, p, k)
        BY <2>2, <4>1
      <4>3. FoundIn(dd, p, k) \in Range(Shown(dd, p))
        BY <4>2 DEF Range
      <4> QED
        BY <3>1, <4>3 DEF AllPlain
    <3> QED
      BY <2>1, <3>2
  <2> QED
    BY <2>1, <2>2, <2>3, <2>4, <2>5
<1> QED
  BY <1>0, <1>1 DEF Filling

\* After the last path.
LEMMA FillEnds ==
  ASSUME NEW dd, NEW paths \in Seq(DottedPath), NEW arr \in Filled, NEW chk, NEW skp, NEW pck,
         Filling(dd, paths, Len(paths), arr, chk, skp, pck)
  PROVE  FilledRight(dd, paths, arr)
<1>1. Len(paths) = 1 => Fine(dd, paths)
  <2> SUFFICES ASSUME Len(paths) = 1 PROVE Fine(dd, paths)
    OBVIOUS
  <2>1. DOMAIN paths = {1} /\ 1 .. 1 - 1 = {}
    BY InSeq
  <2> QED
    BY <2>1 DEF Fine
<1>2. Fine(dd, paths) => /\ Whole(dd, paths, Len(paths)) /\ Values(arr) = Gather(dd, paths, Len(paths))
                         /\ Len(paths) = 1 /\ AllPlain(dd, paths[1]) => KeysFrom(arr, 0)
  BY DEF Filling
<1> QED
  BY <1>1, <1>2 DEF FilledRight
-----------------------------------------------------------------------------
(***************************************************************************)
(* The steps of execute keep the invariant.                                *)
(***************************************************************************)
\* The paths of an op that is executed.
LEMMA PathsAre ==
  ASSUME NEW c \in Commands, Accepted(c), c.name # "$redact", NEW i \in 1 .. Len(ChainOf(c))
  PROVE  LET op == ChainOf(c)[i]
         IN  /\ op \in OpSet /\ op.list \in Seq(Pointer) /\ Len(op.list) \in Nat
             /\ PathsOf(op) \in Seq(DottedPath) /\ Len(PathsOf(op)) \in Nat
             /\ op.path # Null => /\ op.list = << >> /\ Len(PathsOf(op)) = 1
                                  /\ PathsOf(op)[1] = op.path.text
             /\ op.path = Null => /\ Len(PathsOf(op)) = Len(op.list)
                                  /\ \A k \in 1 .. Len(op.list) :
                                       op.list[k] \in Pointer /\ op.list[k].text = PathsOf(op)[k]
<1> DEFINE op == ChainOf(c)[i]
<1>1. PICK part \in Nat \ {0}, listed \in Nat \ {0} : OpRight(part, listed, i, op)
  BY ChainIs
<1>2. op.path # Null => op.list = << >>
  BY ChainIs
<1> HIDE DEF op
<1>3. /\ op \in OpSet /\ op.list \in Seq(Pointer)
      /\ op.path # Null => op.path.text \in DottedPath
      /\ \A k \in 1 .. Len(op.list) : op.list[k].text \in DottedPath
  BY <1>1 DEF OpRight, OpSet
<1>4. /\ Len(op.list) \in Nat /\ DOMAIN op.list = 1 .. Len(op.list)
      /\ \A k \in 1 .. Len(op.list) : op.list[k] \in Pointer
      /\ op.list = << >> <=> Len(op.list) = 0
  BY <1>3, InSeq, EmptySeq
<1>5. CASE op.path # Null
  <2>1. PathsOf(op) = <<op.path.text>>
    BY <1>2, <1>5 DEF PathsOf
  <2>2. <<op.path.text>> \in Seq(DottedPath) /\ Len(<<op.path.text>>) = 1 /\ <<op.path.text>>[1] = op.path.text
    BY <1>3, <1>5
  <2> QED
    BY <1>2, <1>3, <1>4, <1>5, <2>1, <2>2 DEF op
<1>6. CASE op.path = Null
  <2> DEFINE t == [k \in 1 .. Len(op.list) |-> op.list[k].text]
  <2>1. PathsOf(op) = t
    <3>1. CASE op.list = << >>
      <4>1. t = << >>
        BY <3>1
      <4> QED
        BY <1>6, <3>1, <4>1 DEF PathsOf
    <3>2. CASE op.list # << >>
      BY <1>4, <3>2 DEF PathsOf
    <3> QED
      BY <3>1, <3>2
  <2>2. t \in Seq(DottedPath) /\ Len(t) = Len(op.list) /\ \A k \in 1 .. Len(op.list) : t[k] = op.list[k].text
    BY <1>3, <1>4
  <2> HIDE DEF t
  <2> QED
    BY <1>3, <1>4, <1>6, <2>1, <2>2 DEF op
<1> QED
  BY <1>5, <1>6

\* What the invariant says of an op that is executed.
LEMMA Executed ==
  ASSUME ProjectionInv, Executes
  PROVE  /\ doc \in Items /\ command \in Commands /\ Accepted(command) /\ command.name # "$redact"
         /\ Chain \in Seq(OpSet) /\ Len(Chain) \in Nat \ {0} /\ DOMAIN Chain = 1 .. Len(Chain)
         /\ cur \in 1 .. Len(Chain)
         /\ Chain[cur] \in OpSet /\ Chain[cur].list \in Seq(Pointer) /\ Len(Chain[cur].list) \in Nat
         /\ OpPaths \in Seq(DottedPath) /\ Len(OpPaths) \in Nat
         /\ Chain[cur].path # Null => /\ Chain[cur].list = << >> /\ Len(OpPaths) = 1
                                      /\ OpPaths[1] = Chain[cur].path.text
         /\ Chain[cur].path = Null => /\ Len(OpPaths) = Len(Chain[cur].list)
                                      /\ \A k \in 1 .. Len(Chain[cur].list) :
                                           /\ Chain[cur].list[k] \in Pointer
                                           /\ Chain[cur].list[k].text = OpPaths[k]
<1>1. doc \in Items /\ command \in Commands /\ Accepted(command) /\ command.name # "$redact" /\ cur \in 1 .. Len(Chain)
  BY DocsAssumption DEF ProjectionInv, ParseInv, ExecuteInv, Runs
<1>2. Chain \in Seq(OpSet) /\ Len(Chain) \in Nat \ {0} /\ DOMAIN Chain = 1 .. Len(Chain)
  BY <1>1, ChainIs DEF Chain
<1>3. LET op == Chain[cur]
      IN  /\ op \in OpSet /\ op.list \in Seq(Pointer) /\ Len(op.list) \in Nat
          /\ PathsOf(op) \in Seq(DottedPath) /\ Len(PathsOf(op)) \in Nat
          /\ op.path # Null => /\ op.list = << >> /\ Len(PathsOf(op)) = 1
                               /\ PathsOf(op)[1] = op.path.text
          /\ op.path = Null => /\ Len(PathsOf(op)) = Len(op.list)
                               /\ \A k \in 1 .. Len(op.list) :
                                    op.list[k] \in Pointer /\ op.list[k].text = PathsOf(op)[k]
  BY <1>1, PathsAre DEF Chain
<1> QED
  BY <1>1, <1>2, <1>3 DEF OpPaths

\* The ops are those that were parsed, but for a path that is borrowed.
LEMMA OpsAre ==
  ASSUME ProjectionInv, Executes
  PROVE  /\ Len(ops) = Len(Chain) /\ ops[cur].list = Chain[cur].list
         /\ \A p : [ops EXCEPT ![cur].path = p] = [Chain EXCEPT ![cur].path = p]
         /\ Chain[cur].path # Null \/ at \in {"execute", "end"} => ops = Chain
<1>0. /\ Chain \in Seq(OpSet) /\ DOMAIN Chain = 1 .. Len(Chain) /\ Len(Chain) \in Nat
      /\ cur \in DOMAIN Chain /\ Chain[cur] \in OpSet
  BY Executed
<1>1. OpsInv
  BY DEF ProjectionInv, ExecuteInv
<1> DEFINE chain == Chain
<1> HIDE DEF chain
<1>2. CASE ops = chain
  BY <1>2 DEF chain
<1>3. CASE ops # chain
  <2>1. at \in {"list", "find"} /\ Chain[cur].path = Null
    BY <1>1, <1>3 DEF OpsInv, chain
  <2>2. PICK q \in Pointer : ops = [chain EXCEPT ![cur].path = q]
    BY <1>1, <1>3 DEF OpsInv, chain
  <2>3. /\ chain \in Seq(OpSet) /\ DOMAIN chain = 1 .. Len(chain) /\ Len(chain) \in Nat
        /\ cur \in DOMAIN chain /\ chain[cur] \in OpSet
    BY <1>0 DEF chain
  <2>4. [chain[cur] EXCEPT !.path = q].list = chain[cur].list
    BY <2>3 DEF OpSet
  <2>5. ops[cur] = [chain[cur] EXCEPT !.path = q] /\ DOMAIN ops = DOMAIN chain
    BY <2>2, <2>3
  <2>6. ops \in Seq(OpSet)
    <3>1. [chain[cur] EXCEPT !.path = q] \in OpSet
      BY <2>3 DEF OpSet
    <3>2. ops = [k \in 1 .. Len(chain) |-> IF k = cur THEN [chain[cur] EXCEPT !.path = q] ELSE chain[k]]
      BY <2>2, <2>3
    <3>3. \A k \in 1 .. Len(chain) : chain[k] \in OpSet
      BY <2>3, InSeq
    <3> QED
      BY <2>3, <3>1, <3>2, <3>3
  <2>7. Len(ops) = Len(chain)
    <3>1. DOMAIN ops = 1 .. Len(ops) /\ Len(ops) \in Nat
      BY <2>6, InSeq
    <3> QED
      BY <2>3, <2>5, <3>1
  <2>8. ASSUME NEW p PROVE [ops EXCEPT ![cur].path = p] = [chain EXCEPT ![cur].path = p]
    <3>1. [[chain[cur] EXCEPT !.path = q] EXCEPT !.path = p] = [chain[cur] EXCEPT !.path = p]
      BY <2>3 DEF OpSet
    <3>2. /\ DOMAIN ops = DOMAIN chain
          /\ \A k \in DOMAIN chain : k # cur => ops[k] = chain[k]
      BY <2>2, <2>3
    <3>3. /\ [ops EXCEPT ![cur].path = p] = [k \in DOMAIN ops |-> IF k = cur THEN [ops[cur] EXCEPT !.path = p] ELSE ops[k]]
          /\ [chain EXCEPT ![cur].path = p] = [k \in DOMAIN chain |-> IF k = cur THEN [chain[cur] EXCEPT !.path = p] ELSE chain[k]]
      BY Zenon
    <3> QED
      BY <2>5, <3>1, <3>2, <3>3
  <2> QED
    BY <2>1, <2>4, <2>5, <2>7, <2>8 DEF chain
<1> QED
  BY <1>2, <1>3

\* What no step of a command that runs changes.
LEMMA Carried ==
  ASSUME ProjectionInv, Runs, Runs', UNCHANGED parsed
  PROVE  /\ doc' \in Docs /\ command' \in Commands /\ ParseInv' /\ CrashExplained'
         /\ doc' = doc /\ command' = command /\ Chain' = Chain
<1>1. doc' = doc /\ command' = command /\ query' = query /\ strings' = strings
  BY DEF parsed
<1>2. at' \notin {"parse", "assert", "crash"}
  BY DEF Runs, Executes, Done
<1>3. ParseInv'
  BY <1>1, <1>2 DEF ProjectionInv, ParseInv
<1>4. CrashExplained'
  BY <1>2 DEF CrashExplained
<1>5. doc \in Docs /\ command \in Commands
  BY DEF ProjectionInv
<1> QED
  BY <1>1, <1>3, <1>4, <1>5 DEF Chain

\* A step from one place of execute to another: what is left to show.
LEMMA StillExecutes ==
  ASSUME ProjectionInv, Executes, Executes', Executing, cur' = cur, projected' = projected, OpsInv',
         at' # "execute",
         arrlist' \in Filled, checked' \in Nat, skip' \in Nat, packed' \in Nat,
         at' = "list" => \E n \in 0 .. Len(OpPaths) : ListInv(n)',
         at' = "find" => \E n \in 0 .. Len(OpPaths) - 1 : FindInv(n)',
         at' = "end" => Filling(doc, OpPaths, Len(OpPaths), arrlist', checked', skip', packed')
  PROVE  ProjectionInv'
<1>1. /\ doc' \in Docs /\ command' \in Commands /\ ParseInv' /\ CrashExplained'
      /\ doc' = doc /\ command' = command /\ Chain' = Chain
  BY Carried DEF Runs, Executing
<1>2. OpPaths' = OpPaths
  BY <1>1 DEF OpPaths
<1>3. result' = result
  BY DEF Executing
<1>4. /\ command.name # "$redact" /\ result = FALSE /\ cur \in 1 .. Len(Chain)
      /\ OutputRight(doc, Chain, projected, cur - 1)
  BY DEF ProjectionInv, ExecuteInv
<1>5. ExecuteInv'
  BY <1>1, <1>2, <1>3, <1>4 DEF ExecuteInv
<1>6. at' \notin {"redact", "match", "done", "destroyed"}
  BY DEF Executes
<1>7. RedactInv' /\ MatchInv' /\ DoneInv'
  BY <1>6 DEF RedactInv, MatchInv, DoneInv, Done
<1> QED
  BY <1>1, <1>5, <1>7 DEF ProjectionInv

\* The ops stay as they are, or one borrows a string.
LEMMA OpsStay ==
  ASSUME ProjectionInv, Executes, UNCHANGED <<parsed, ops, cur>>,
         at' \in {"list", "find"} \/ ops = Chain
  PROVE  OpsInv'
<1>1. Chain' = Chain /\ ops' = ops /\ cur' = cur
  BY DEF Chain, parsed
<1>2. CASE ops = Chain
  BY <1>1, <1>2 DEF OpsInv
<1>3. CASE ops # Chain
  <2>1. OpsInv
    BY DEF ProjectionInv, ExecuteInv
  <2> QED
    BY <1>1, <1>3, <2>1 DEF OpsInv
<1> QED
  BY <1>2, <1>3

\* Starting an op keeps the invariant.
LEMMA StartOpKeeps == ProjectionInv /\ StartOp => ProjectionInv'
<1> SUFFICES ASSUME ProjectionInv, StartOp PROVE ProjectionInv'
  OBVIOUS
<1>1. /\ at = "execute" /\ checked' = 0 /\ skip' = 0 /\ packed' = 0 /\ arrlist' = << >>
      /\ todo' = ops[cur].list /\ at' = IF ops[cur].path # Null THEN "find" ELSE "list"
      /\ Executing /\ ops' = ops /\ cur' = cur /\ projected' = projected
  BY DEF StartOp
<1>2. Executes /\ Executes' /\ at' # "execute" /\ at' # "end"
  BY <1>1 DEF Executes
<1>3. /\ doc \in Items /\ Len(Chain) \in Nat \ {0} /\ cur \in 1 .. Len(Chain)
      /\ OpPaths \in Seq(DottedPath) /\ Len(OpPaths) \in Nat
      /\ Chain[cur].list \in Seq(Pointer) /\ Len(Chain[cur].list) \in Nat
      /\ Chain[cur].path # Null => Len(OpPaths) = 1 /\ OpPaths[1] = Chain[cur].path.text
      /\ Chain[cur].path = Null => Len(OpPaths) = Len(Chain[cur].list)
  BY <1>2, Executed
<1>4. ops = Chain
  BY <1>1, <1>2, OpsAre
<1>5. OpsInv'
  BY <1>1, <1>2, <1>4, OpsStay DEF Executing
<1>6. doc' = doc /\ Chain' = Chain /\ OpPaths' = OpPaths
  BY <1>1 DEF Executing, parsed, Chain, OpPaths
<1>7. Filling(doc, OpPaths, 0, << >>, 0, 0, 0) /\ << >> \in Filled /\ 0 \in Nat
  BY FillBegins, EmptyArray
<1>8. ASSUME at' = "list" PROVE \E n \in 0 .. Len(OpPaths) : ListInv(n)'
  <2>1. Chain[cur].path = Null
    BY <1>1, <1>4, <1>8
  <2>2. LeftOver(Chain[cur].list, 0, Chain[cur].list)
    <3>1. \A k \in 1 .. Len(Chain[cur].list) : 0 + k = k
      OBVIOUS
    <3> QED
      BY <1>3, <3>1 DEF LeftOver
  <2>3. ListInv(0)'
    BY <1>1, <1>4, <1>6, <1>7, <2>1, <2>2 DEF ListInv
  <2> QED
    BY <1>3, <2>3
<1>9. ASSUME at' = "find" PROVE \E n \in 0 .. Len(OpPaths) - 1 : FindInv(n)'
  <2>1. Chain[cur].path # Null
    BY <1>1, <1>4, <1>9
  <2>2. 0 \in 0 .. Len(OpPaths) - 1 /\ 0 + 1 = 1
    BY <1>3, <2>1
  <2>3. LoopsIn(doc, OpPaths[1]) => Looping(doc, OpPaths, 0, OpPaths[1], << >>, 0, 0, 0)
    <3> SUFFICES ASSUME LoopsIn(doc, OpPaths[0 + 1])
                 PROVE  Looping(doc, OpPaths, 0, OpPaths[0 + 1], << >>, 0, 0, 0)
      BY <2>2
    <3> QED
      BY <1>3, <1>7, <2>2, LoopStarts
  <2>4. ops'[cur'].path.text = OpPaths[1]
    BY <1>1, <1>3, <1>4, <2>1
  <2>5. FindInv(0)'
    BY <1>1, <1>6, <1>7, <2>1, <2>2, <2>3, <2>4 DEF FindInv
  <2> QED
    BY <2>2, <2>5
<1> QED
  BY <1>1, <1>2, <1>5, <1>7, <1>8, <1>9, StillExecutes

\* Borrowing the next path of a $foundin keeps it.
LEMMA TakePathKeeps == ProjectionInv /\ TakePath => ProjectionInv'
<1> SUFFICES ASSUME ProjectionInv, TakePath PROVE ProjectionInv'
  OBVIOUS
<1>1. /\ at = "list" /\ todo # << >> /\ ops' = [ops EXCEPT ![cur].path = Head(todo)]
      /\ todo' = Tail(todo) /\ at' = "find"
      /\ Executing /\ cur' = cur /\ projected' = projected /\ arrlist' = arrlist
      /\ checked' = checked /\ skip' = skip /\ packed' = packed
  BY DEF TakePath, counters
<1>2. Executes /\ Executes'
  BY <1>1 DEF Executes
<1>3. /\ doc \in Items /\ Chain \in Seq(OpSet) /\ DOMAIN Chain = 1 .. Len(Chain)
      /\ cur \in 1 .. Len(Chain) /\ Chain[cur] \in OpSet
      /\ OpPaths \in Seq(DottedPath) /\ Len(OpPaths) \in Nat
      /\ Chain[cur].path = Null => /\ Len(OpPaths) = Len(Chain[cur].list)
                                   /\ \A k \in 1 .. Len(Chain[cur].list) :
                                        /\ Chain[cur].list[k] \in Pointer
                                        /\ Chain[cur].list[k].text = OpPaths[k]
  BY <1>2, Executed
<1>4. arrlist \in Filled /\ checked \in Nat /\ skip \in Nat /\ packed \in Nat
  BY <1>1, <1>2 DEF ProjectionInv, ExecuteInv
<1>5. PICK n \in 0 .. Len(OpPaths) : ListInv(n)
  BY <1>1, <1>2 DEF ProjectionInv, ExecuteInv
<1>6. doc' = doc /\ Chain' = Chain /\ OpPaths' = OpPaths
  BY <1>1 DEF Executing, parsed, Chain, OpPaths
<1> DEFINE list == Chain[cur].list
<1>7. /\ Chain[cur].path = Null /\ Len(OpPaths) = Len(list)
      /\ todo \in Seq(Pointer) /\ Len(todo) = Len(list) - n
      /\ \A k \in 1 .. Len(todo) : todo[k] = list[n + k]
      /\ Filling(doc, OpPaths, n, arrlist, checked, skip, packed)
  BY <1>3, <1>5 DEF ListInv, LeftOver
<1>8. Len(todo) \in Nat /\ Len(todo) # 0
  BY <1>1, <1>7, EmptySeq
<1>9. n \in 0 .. Len(OpPaths) - 1 /\ n + 1 \in 1 .. Len(list) /\ n \in Nat
  <2> HIDE DEF list
  <2> QED
    BY <1>3, <1>7, <1>8
<1>10. Head(todo) = list[n + 1] /\ list[n + 1] \in Pointer /\ list[n + 1].text = OpPaths[n + 1]
  <2>1. 1 \in 1 .. Len(todo) /\ Head(todo) = todo[1]
    BY <1>7, <1>8
  <2> QED
    BY <1>3, <1>7, <1>9, <2>1
<1>11. LeftOver(list, n + 1, Tail(todo))
  <2> HIDE DEF list
  <2>1. /\ Tail(todo) \in Seq(Pointer) /\ Len(Tail(todo)) = Len(todo) - 1
        /\ \A k \in 1 .. Len(todo) - 1 : Tail(todo)[k] = todo[k + 1]
    BY <1>1, <1>7, HeadTailProperties
  <2>2. \A k \in 1 .. Len(todo) - 1 : k + 1 \in 1 .. Len(todo) /\ n + (k + 1) = (n + 1) + k
    BY <1>8, <1>9
  <2>3. Len(list) - (n + 1) = Len(todo) - 1
    BY <1>3, <1>7, <1>9
  <2>4. ASSUME NEW k \in 1 .. Len(Tail(todo)) PROVE Tail(todo)[k] = list[(n + 1) + k]
    BY <1>7, <2>1, <2>2
  <2> QED
    BY <2>1, <2>3, <2>4 DEF LeftOver
<1>12. ops' = [Chain EXCEPT ![cur].path = Head(todo)]
  BY <1>1, <1>2, OpsAre
<1>13. OpsInv' /\ ops'[cur].path = Head(todo)
  <2>1. ops'[cur].path = Head(todo)
    BY <1>3, <1>12 DEF OpSet
  <2>2. OpsInv'
    BY <1>1, <1>6, <1>7, <1>10, <1>12 DEF OpsInv
  <2> QED
    BY <2>1, <2>2
<1>14. FindInv(n)'
  <2>1. LoopsIn(doc, OpPaths[n + 1]) =>
          Looping(doc, OpPaths, n, OpPaths[n + 1], arrlist, checked, skip, packed)
    BY <1>3, <1>4, <1>7, <1>9, LoopStarts
  <2>2. ops'[cur'].path.text = OpPaths'[n + 1]
    BY <1>1, <1>6, <1>10, <1>13
  <2>3. LeftOver(Chain'[cur'].list, n + 1, todo') /\ Chain'[cur'].path = Null
    BY <1>1, <1>6, <1>7, <1>11
  <2> QED
    BY <1>1, <1>6, <1>7, <2>1, <2>2, <2>3 DEF FindInv
<1>15. at' # "execute" /\ at' # "list" /\ at' # "end"
  BY <1>1
<1> QED
  BY <1>1, <1>2, <1>4, <1>9, <1>13, <1>14, <1>15, StillExecutes

\* The end of a $foundin keeps it.
LEMMA EndListKeeps == ProjectionInv /\ EndList => ProjectionInv'
<1> SUFFICES ASSUME ProjectionInv, EndList PROVE ProjectionInv'
  OBVIOUS
<1>1. /\ at = "list" /\ todo = << >> /\ ops' = [ops EXCEPT ![cur].path = Null] /\ at' = "end"
      /\ Executing /\ cur' = cur /\ projected' = projected /\ arrlist' = arrlist
      /\ checked' = checked /\ skip' = skip /\ packed' = packed
  BY DEF EndList, counters
<1>2. Executes /\ Executes'
  BY <1>1 DEF Executes
<1>3. /\ Chain \in Seq(OpSet) /\ DOMAIN Chain = 1 .. Len(Chain)
      /\ cur \in 1 .. Len(Chain) /\ Chain[cur] \in OpSet /\ Len(OpPaths) \in Nat
      /\ Chain[cur].path = Null => Len(OpPaths) = Len(Chain[cur].list)
  BY <1>2, Executed
<1>4. arrlist \in Filled /\ checked \in Nat /\ skip \in Nat /\ packed \in Nat
  BY <1>1, <1>2 DEF ProjectionInv, ExecuteInv
<1>5. PICK n \in 0 .. Len(OpPaths) : ListInv(n)
  BY <1>1, <1>2 DEF ProjectionInv, ExecuteInv
<1>6. /\ Chain[cur].path = Null /\ 0 = Len(OpPaths) - n
      /\ Filling(doc, OpPaths, n, arrlist, checked, skip, packed)
  <2>1. Len(<< >>) = 0
    OBVIOUS
  <2> QED
    BY <1>1, <1>3, <1>5, <2>1 DEF ListInv, LeftOver
<1>7. n = Len(OpPaths)
  BY <1>3, <1>6
<1>8. ops' = Chain
  <2>1. ops' = [Chain EXCEPT ![cur].path = Null]
    BY <1>1, <1>2, OpsAre
  <2>2. [Chain[cur] EXCEPT !.path = Null] = Chain[cur]
    BY <1>3, <1>6 DEF OpSet
  <2>3. Chain = [k \in 1 .. Len(Chain) |-> Chain[k]]
    BY <1>3
  <2>4. [Chain EXCEPT ![cur].path = Null] =
          [k \in DOMAIN Chain |-> IF k = cur THEN [Chain[cur] EXCEPT !.path = Null] ELSE Chain[k]]
    BY Zenon
  <2> QED
    BY <1>3, <2>1, <2>2, <2>3, <2>4
<1>9. OpsInv'
  <2>1. Chain' = Chain
    BY <1>1 DEF Executing, parsed, Chain
  <2> QED
    BY <1>8, <2>1 DEF OpsInv
<1>10. at' # "execute" /\ at' # "list" /\ at' # "find"
  BY <1>1
<1> QED
  BY <1>1, <1>2, <1>4, <1>6, <1>7, <1>9, <1>10, StillExecutes
\* A path that is done: the next of the list, or the end of the op.
LEMMA PathDone ==
  ASSUME ProjectionInv, Finding, Leave, NEW n \in 0 .. Len(OpPaths) - 1, FindInv(n),
         arrlist' \in Filled, checked' \in Nat, skip' \in Nat, packed' \in Nat,
         Filling(doc, OpPaths, n + 1, arrlist', checked', skip', packed')
  PROVE  ProjectionInv'
<1>1. /\ at = "find" /\ Executing /\ ops' = ops /\ cur' = cur /\ todo' = todo /\ projected' = projected
      /\ at' = IF ops[cur].list = << >> THEN "end" ELSE "list"
  BY DEF Finding, Leave
<1>2. Executes /\ Executes' /\ at' # "execute" /\ at' # "find"
  BY <1>1 DEF Executes
<1>3. /\ Chain[cur].list \in Seq(Pointer) /\ Len(Chain[cur].list) \in Nat /\ Len(OpPaths) \in Nat
      /\ Chain[cur].path # Null => Chain[cur].list = << >> /\ Len(OpPaths) = 1
      /\ Chain[cur].path = Null => Len(OpPaths) = Len(Chain[cur].list)
  BY <1>2, Executed
<1>4. ops[cur].list = Chain[cur].list /\ (Chain[cur].path # Null => ops = Chain)
  BY <1>2, OpsAre
<1>5. n \in Nat /\ n + 1 \in 0 .. Len(OpPaths)
  BY <1>3
<1>6. doc' = doc /\ Chain' = Chain /\ OpPaths' = OpPaths
  BY <1>1 DEF Executing, parsed, Chain, OpPaths
<1>7. CASE Chain[cur].path # Null
  <2>1. n + 1 = Len(OpPaths)
    <3>1. Len(OpPaths) = 1
      BY <1>3, <1>7
    <3>2. n \in 0 .. 1 - 1
      BY <3>1
    <3> QED
      BY <3>1, <3>2
  <2>2. at' = "end" /\ ops = Chain /\ at' # "list"
    BY <1>1, <1>3, <1>4, <1>7
  <2>3. OpsInv'
    BY <1>1, <1>2, <2>2, OpsStay DEF Executing
  <2> QED
    BY <1>1, <1>2, <2>1, <2>2, <2>3, StillExecutes
<1>8. CASE Chain[cur].path = Null
  <2>1. Chain[cur].list # << >>
    BY <1>3, <1>8
  <2>2. at' = "list" /\ at' # "end"
    BY <1>1, <1>4, <2>1
  <2>3. LeftOver(Chain[cur].list, n + 1, todo)
    BY <1>8 DEF FindInv
  <2>4. ListInv(n + 1)'
    BY <1>1, <1>6, <1>8, <2>3 DEF ListInv
  <2>5. OpsInv'
    BY <1>1, <1>2, <2>2, OpsStay DEF Executing
  <2> QED
    BY <1>1, <1>2, <1>5, <2>2, <2>4, <2>5, StillExecutes
<1> QED
  BY <1>7, <1>8

\* What is known while a path is looked for.
LEMMA Found ==
  ASSUME ProjectionInv, Finding
  PROVE  /\ doc \in Items /\ OpPaths \in Seq(DottedPath) /\ Len(OpPaths) \in Nat
         /\ arrlist \in Filled /\ checked \in Nat /\ skip \in Nat /\ packed \in Nat
         /\ \E n \in 0 .. Len(OpPaths) - 1 :
              FindInv(n) /\ Path = OpPaths[n + 1] /\ Path \in DottedPath
<1>1. at = "find" /\ Executes
  BY DEF Finding, Executes
<1>2. doc \in Items /\ OpPaths \in Seq(DottedPath) /\ Len(OpPaths) \in Nat
  BY <1>1, Executed
<1>3. arrlist \in Filled /\ checked \in Nat /\ skip \in Nat /\ packed \in Nat
  BY <1>1 DEF ProjectionInv, ExecuteInv
<1>4. PICK n \in 0 .. Len(OpPaths) - 1 : FindInv(n)
  BY <1>1 DEF ProjectionInv, ExecuteInv
<1>5. Path = OpPaths[n + 1]
  BY <1>4 DEF FindInv, Path
<1>6. OpPaths[n + 1] \in DottedPath
  <2>1. n + 1 \in 1 .. Len(OpPaths)
    BY <1>2
  <2> QED
    BY <1>2, <2>1, InSeq
<1> QED
  BY <1>2, <1>3, <1>4, <1>5, <1>6

\* Looking for a path without a dot keeps it.
LEMMA FindPlainKeeps == ProjectionInv /\ FindPlain => ProjectionInv'
<1> SUFFICES ASSUME ProjectionInv, FindPlain PROVE ProjectionInv'
  OBVIOUS
<1>1. Finding /\ Len(Path) = 1 /\ Leave
  BY DEF FindPlain
<1>2. /\ doc \in Items /\ OpPaths \in Seq(DottedPath)
      /\ arrlist \in Filled /\ checked \in Nat /\ skip \in Nat /\ packed \in Nat
  BY <1>1, Found
<1>3. PICK n \in 0 .. Len(OpPaths) - 1 : FindInv(n) /\ Path = OpPaths[n + 1] /\ Path \in DottedPath
  BY <1>1, Found
<1>4. Filling(doc, OpPaths, n, arrlist, checked, skip, packed)
  <2>1. ~LoopsIn(doc, OpPaths[n + 1])
    <3>1. Len(OpPaths[n + 1]) = 1 /\ ~(1 > 1)
      BY <1>1, <1>3
    <3> QED
      BY <3>1 DEF LoopsIn
  <2> QED
    BY <1>3, <2>1 DEF FindInv
<1>5. CASE Direct = << >>
  <2>1. arrlist' = arrlist /\ checked' = checked /\ skip' = skip /\ packed' = packed
    BY <1>5 DEF FindPlain, counters
  <2>2. FindDirect[OpPaths[n + 1]][doc] = << >> /\ Len(OpPaths[n + 1]) = 1
    BY <1>1, <1>3, <1>5 DEF Direct
  <2>3. Filling(doc, OpPaths, n + 1, arrlist, checked, skip, packed)
    BY <1>2, <1>4, <2>2, FillNothing
  <2> QED
    BY <1>1, <1>2, <1>3, <2>1, <2>3, PathDone
<1>6. CASE Direct # << >>
  <2> DEFINE v == ValueAt(doc, Direct)
  <2>1. /\ arrlist' = arrlist \o Into[v][checked]
        /\ checked' = checked + Added(v) /\ packed' = packed + Added(v) /\ skip' = skip
    BY <1>6 DEF FindPlain
  <2>2. /\ FindDirect[OpPaths[n + 1]][doc] # << >> /\ Len(OpPaths[n + 1]) = 1
        /\ v = ValueAt(doc, FindDirect[OpPaths[n + 1]][doc])
    BY <1>1, <1>3, <1>6 DEF Direct
  <2>3. v \in Value
    BY <1>2, <1>3, <2>2, FoundValues
  <2> HIDE DEF v
  <2>4. checked' \in Nat /\ packed' \in Nat /\ skip' \in Nat
    BY <1>2, <2>1, <2>3, AddedIs
  <2>5. /\ arrlist' \in Filled
        /\ Filling(doc, OpPaths, n + 1, arrlist', checked', skip, packed')
    BY <1>2, <1>4, <2>1, <2>2, FillDirect
  <2> QED
    BY <1>1, <1>3, <2>1, <2>4, <2>5, PathDone
<1> QED
  BY <1>5, <1>6

\* Finding a path with a dot as it stands keeps it.
LEMMA FindAsItStandsKeeps == ProjectionInv /\ FindAsItStands => ProjectionInv'
<1> SUFFICES ASSUME ProjectionInv, FindAsItStands PROVE ProjectionInv'
  OBVIOUS
<1>1. Finding /\ Len(Path) > 1 /\ Direct # << >> /\ Leave
  BY DEF FindAsItStands
<1>2. /\ doc \in Items /\ OpPaths \in Seq(DottedPath)
      /\ arrlist \in Filled /\ checked \in Nat /\ skip \in Nat /\ packed \in Nat
  BY <1>1, Found
<1>3. PICK n \in 0 .. Len(OpPaths) - 1 : FindInv(n) /\ Path = OpPaths[n + 1] /\ Path \in DottedPath
  BY <1>1, Found
<1>4. Filling(doc, OpPaths, n, arrlist, checked, skip, packed)
  <2>1. ~LoopsIn(doc, OpPaths[n + 1])
    BY <1>1, <1>3 DEF LoopsIn, Direct
  <2> QED
    BY <1>3, <2>1 DEF FindInv
<1> DEFINE v == ValueAt(doc, Direct)
<1>5. /\ arrlist' = arrlist \o Into[v][checked]
      /\ checked' = checked /\ packed' = packed /\ skip' = skip
  BY DEF FindAsItStands, counters
<1>6. /\ FindDirect[OpPaths[n + 1]][doc] # << >>
      /\ v = ValueAt(doc, FindDirect[OpPaths[n + 1]][doc])
  BY <1>1, <1>3 DEF Direct
<1> HIDE DEF v
<1>7. /\ arrlist' \in Filled
      /\ Filling(doc, OpPaths, n + 1, arrlist', checked, skip, packed)
  BY <1>2, <1>4, <1>5, <1>6, FillDirect
<1> QED
  BY <1>1, <1>2, <1>3, <1>5, <1>7, PathDone

\* Finding one value more through the arrays keeps it.
LEMMA FindNextKeeps == ProjectionInv /\ FindNext => ProjectionInv'
<1> SUFFICES ASSUME ProjectionInv, FindNext PROVE ProjectionInv'
  OBVIOUS
<1>1. Finding /\ Len(Path) > 1 /\ Direct = << >> /\ NextOne.found /\ at' = at
  BY DEF FindNext
<1>2. /\ doc \in Items /\ OpPaths \in Seq(DottedPath)
      /\ arrlist \in Filled /\ checked \in Nat /\ skip \in Nat /\ packed \in Nat
  BY <1>1, Found
<1>3. PICK n \in 0 .. Len(OpPaths) - 1 : FindInv(n) /\ Path = OpPaths[n + 1] /\ Path \in DottedPath
  BY <1>1, Found
<1> DEFINE p == OpPaths[n + 1]
           v == ValueAt(doc, NextOne.place)
<1>4. LoopsIn(doc, p) /\ p \in DottedPath
  BY <1>1, <1>3 DEF LoopsIn, Direct
<1>5. Looping(doc, OpPaths, n, p, arrlist, checked, skip, packed)
  BY <1>3, <1>4 DEF FindInv
<1>6. /\ arrlist' = arrlist \o Into[v][packed]
      /\ checked' = checked + 1 /\ skip' = checked + 1 /\ packed' = packed + Added(v)
  BY DEF FindNext
<1>7. CallIn(doc, p, skip).found /\ v = ValueAt(doc, CallIn(doc, p, skip).place)
  BY <1>1, <1>3 DEF NextOne, CallIn
<1> HIDE DEF v, p
<1>8. /\ v \in Value /\ arrlist' \in Filled
      /\ Looping(doc, OpPaths, n, p, arrlist', checked', skip', packed')
  BY <1>2, <1>4, <1>5, <1>6, <1>7, LoopGoesOn
<1>9. checked' \in Nat /\ packed' \in Nat /\ skip' \in Nat
  BY <1>2, <1>6, <1>8, AddedIs
<1>10. at = "find" /\ Executing /\ ops' = ops /\ cur' = cur /\ todo' = todo /\ projected' = projected
  BY <1>1 DEF Finding
<1>11. doc' = doc /\ Chain' = Chain /\ OpPaths' = OpPaths
  BY <1>10 DEF Executing, parsed, Chain, OpPaths
<1>12. FindInv(n)'
  <2>1. FindInv(n)
    BY <1>3
  <2> QED
    BY <1>4, <1>8, <1>10, <1>11, <2>1 DEF FindInv, p
<1>13. Executes /\ Executes' /\ at' # "execute" /\ at' # "list" /\ at' # "end" /\ at' \in {"list", "find"}
  BY <1>1, <1>10 DEF Executes
<1>14. OpsInv'
  BY <1>10, <1>13, OpsStay DEF Executing
<1> QED
  BY <1>8, <1>9, <1>10, <1>12, <1>13, <1>14, StillExecutes

\* Finding no more keeps it.
LEMMA FindNoMoreKeeps == ProjectionInv /\ FindNoMore => ProjectionInv'
<1> SUFFICES ASSUME ProjectionInv, FindNoMore PROVE ProjectionInv'
  OBVIOUS
<1>1. Finding /\ Len(Path) > 1 /\ Direct = << >> /\ ~NextOne.found /\ Leave
  BY DEF FindNoMore
<1>2. /\ doc \in Items /\ OpPaths \in Seq(DottedPath)
      /\ arrlist \in Filled /\ checked \in Nat /\ skip \in Nat /\ packed \in Nat
  BY <1>1, Found
<1>3. PICK n \in 0 .. Len(OpPaths) - 1 : FindInv(n) /\ Path = OpPaths[n + 1] /\ Path \in DottedPath
  BY <1>1, Found
<1> DEFINE p == OpPaths[n + 1]
<1>4. LoopsIn(doc, p) /\ p \in DottedPath
  BY <1>1, <1>3 DEF LoopsIn, Direct
<1>5. Looping(doc, OpPaths, n, p, arrlist, checked, skip, packed)
  BY <1>3, <1>4 DEF FindInv
<1>6. skip' = NextOne.skip /\ checked' = checked /\ packed' = packed /\ arrlist' = arrlist
  BY DEF FindNoMore
<1>7. ~CallIn(doc, p, skip).found /\ skip' = CallIn(doc, p, skip).skip
  BY <1>1, <1>3, <1>6 DEF NextOne, CallIn
<1>8. skip' \in Nat
  BY <1>2, <1>4, <1>7, FoundValues DEF CallIn
<1>9. Filling(doc, OpPaths, n + 1, arrlist, checked, skip', packed)
  <2>1. p = OpPaths[n + 1]
    OBVIOUS
  <2> HIDE DEF p
  <2> QED
    BY <1>2, <1>4, <1>5, <1>7, <2>1, LoopStops
<1> QED
  BY <1>1, <1>2, <1>3, <1>6, <1>8, <1>9, PathDone
\* One array more in the output.
LEMMA OutputGrows ==
  ASSUME NEW out \in Outputs, NEW name \in Text, NEW items \in Filled
  PROVE  LET x == Append(out, [name |-> name, items |-> items])
         IN  /\ x \in Outputs /\ Len(out) \in Nat /\ Len(x) = Len(out) + 1
             /\ \A i \in 1 .. Len(out) : x[i] = out[i]
             /\ x[Len(out) + 1].name = name /\ x[Len(out) + 1].items = items
<1> DEFINE E == [name : Text, items : Filled]
           e == [name |-> name, items |-> items]
<1>1. e \in E /\ e.name = name /\ e.items = items
  OBVIOUS
<1>2. out \in Seq(E)
  BY DEF Outputs
<1> HIDE DEF E, e
<1>3. /\ Append(out, e) \in Seq(E) /\ Len(out) \in Nat /\ Len(Append(out, e)) = Len(out) + 1
      /\ \A i \in 1 .. Len(out) : Append(out, e)[i] = out[i]
      /\ Append(out, e)[Len(out) + 1] = e
  BY <1>1, <1>2, AppendProperties, LenProperties
<1> QED
  BY <1>1, <1>3 DEF Outputs, E, e

\* No array yet.
LEMMA OutputNone ==
  /\ << >> \in Outputs /\ Len(<< >>) = 0
  /\ \A dd, chain : OutputRight(dd, chain, << >>, 0)
<1>1. << >> \in Outputs /\ Len(<< >>) = 0
  BY DEF Outputs
<1> QED
  BY <1>1 DEF OutputRight

\* The first array of an output that has one.
LEMMA FirstOutput ==
  ASSUME NEW out \in Outputs, Len(out) # 0
  PROVE  out[1].items \in Filled /\ Len(out[1].items) \in Nat
<1> DEFINE E == [name : Text, items : Filled]
<1>1. out \in Seq(E)
  BY DEF Outputs
<1>2. \A e \in E : e.items \in Filled
  OBVIOUS
<1> HIDE DEF E
<1>3. 1 \in DOMAIN out
  BY <1>1, InSeq
<1>4. out[1].items \in Filled
  BY <1>1, <1>2, <1>3, InSeq
<1> QED
  BY <1>4, InSeq DEF Filled

\* The name of an op is one.
LEMMA NameIs ==
  ASSUME NEW op \in OpSet
  PROVE  NameOf(op) \in Text
  BY DEF OpSet, Pointer, NameOf

\* Appending the array of an op keeps it.
LEMMA EndArrayKeeps == ProjectionInv /\ EndArray => ProjectionInv'
<1> SUFFICES ASSUME ProjectionInv, EndArray PROVE ProjectionInv'
  OBVIOUS
<1> DEFINE x == Append(projected, [name |-> NameOf(ops[cur]), items |-> arrlist])
<1>1. /\ at = "end" /\ projected' = x /\ ops' = ops
      /\ cur' = IF cur < Len(ops) THEN cur + 1 ELSE 1
      /\ at' = IF cur < Len(ops) THEN "execute" ELSE IF command.name = "$unwind" THEN "match" ELSE "done"
      /\ UNCHANGED parsed /\ result' = result
  BY DEF EndArray, Executing
<1>2. Executes /\ Runs /\ Runs' /\ at' \notin {"list", "find", "end", "redact", "destroyed"}
  BY <1>1 DEF Executes, Runs, Done
<1>3. /\ doc \in Items /\ command \in Commands /\ command.name # "$redact"
      /\ Len(Chain) \in Nat \ {0} /\ cur \in 1 .. Len(Chain) /\ Chain[cur] \in OpSet
      /\ OpPaths \in Seq(DottedPath)
  BY <1>2, Executed
<1>4. ops = Chain
  BY <1>1, <1>2, OpsAre
<1>5. /\ result = FALSE /\ OutputRight(doc, Chain, projected, cur - 1) /\ arrlist \in Filled
      /\ Filling(doc, OpPaths, Len(OpPaths), arrlist, checked, skip, packed)
  BY <1>1, <1>2 DEF ProjectionInv, ExecuteInv
<1>6. FilledRight(doc, PathsOf(Chain[cur]), arrlist)
  BY <1>3, <1>5, FillEnds DEF OpPaths
<1>7. OutputRight(doc, Chain, x, cur)
  <2>1. projected \in Outputs /\ Len(projected) = cur - 1 /\ NameOf(ops[cur]) \in Text
    BY <1>3, <1>4, <1>5, NameIs DEF OutputRight
  <2>2. /\ x \in Outputs /\ Len(x) = (cur - 1) + 1
        /\ \A i \in 1 .. cur - 1 : x[i] = projected[i]
        /\ x[(cur - 1) + 1].items = arrlist
    BY <1>5, <2>1, OutputGrows
  <2> HIDE DEF x
  <2>3. (cur - 1) + 1 = cur /\ \A i \in 1 .. cur : i \in 1 .. cur - 1 \/ i = cur
    BY <1>3
  <2>4. ASSUME NEW i \in 1 .. cur PROVE FilledRight(doc, PathsOf(Chain[i]), x[i].items)
    <3>1. CASE i \in 1 .. cur - 1
      BY <1>5, <2>2, <3>1 DEF OutputRight
    <3>2. CASE i = cur
      BY <1>6, <2>2, <2>3, <3>2
    <3> QED
      BY <2>3, <3>1, <3>2
  <2> QED
    BY <2>2, <2>3, <2>4 DEF OutputRight
<1> HIDE DEF x
<1>8. /\ doc' \in Docs /\ command' \in Commands /\ ParseInv' /\ CrashExplained'
      /\ doc' = doc /\ command' = command /\ Chain' = Chain
  BY <1>1, <1>2, Carried
<1>9. CASE cur < Len(ops)
  <2>1. at' = "execute" /\ cur' = cur + 1 /\ cur' \in 1 .. Len(Chain) /\ cur' - 1 = cur
    BY <1>1, <1>3, <1>4, <1>9
  <2>2. OpsInv'
    BY <1>1, <1>4, <1>8 DEF OpsInv
  <2>3. ExecuteInv'
    BY <1>1, <1>3, <1>5, <1>7, <1>8, <2>1, <2>2 DEF ExecuteInv
  <2>4. RedactInv' /\ MatchInv' /\ DoneInv'
    BY <2>1 DEF RedactInv, MatchInv, DoneInv, Done
  <2> QED
    BY <1>8, <2>3, <2>4 DEF ProjectionInv
<1>10. CASE ~(cur < Len(ops))
  <2>1. cur = Len(Chain) /\ cur' = 1 /\ at' = IF command.name = "$unwind" THEN "match" ELSE "done"
    BY <1>1, <1>3, <1>4, <1>10
  <2>2. OutputRight(doc, Chain, projected', Len(Chain))
    BY <1>1, <1>7, <2>1
  <2>3. ExecuteInv' /\ RedactInv'
    BY <2>1 DEF ExecuteInv, RedactInv, Executes
  <2>4. MatchInv'
    <3> SUFFICES ASSUME at' = "match" PROVE MatchInv'
      BY DEF MatchInv
    <3>1. command.name = "$unwind"
      BY <2>1
    <3>2. Len(projected'[1].items) \in Nat
      BY <1>3, <2>2, FirstOutput DEF OutputRight
    <3>3. 1 \in 1 .. Len(Elements') + 1 /\ 1 .. 1 - 1 = {}
      BY <3>2 DEF Elements
    <3> QED
      BY <1>1, <1>4, <1>5, <1>8, <2>1, <2>2, <3>1, <3>3 DEF MatchInv
  <2>5. DoneInv'
    <3> SUFFICES ASSUME Done' PROVE DoneInv'
      BY DEF DoneInv
    <3>1. at' = "done" /\ command.name # "$unwind"
      BY <2>1 DEF Done
    <3> QED
      BY <1>1, <1>3, <1>4, <1>8, <2>2, <3>1 DEF DoneInv
  <2> QED
    BY <1>8, <2>3, <2>4, <2>5 DEF ProjectionInv
<1> QED
  BY <1>9, <1>10
-----------------------------------------------------------------------------
(***************************************************************************)
(* The steps of a redaction and of a match keep it.                        *)
(***************************************************************************)
\* One field more: it is left out, or it is the next in the output.
LEMMA RedactNext ==
  ASSUME NEW c, NEW dd \in Items, NEW n \in 0 .. Len(dd) - 1, NEW out, RedactedRight(c, dd, out, n)
  PROVE  /\ n + 1 \notin KeptFields(c, dd) => RedactedRight(c, dd, out, n + 1)
         /\ n + 1 \in KeptFields(c, dd) =>
              RedactedRight(c, dd, Append(out, [name  |-> <<dd[n + 1].key>>,
                                                items |-> Into[dd[n + 1].val][0]]), n + 1)
<1> DEFINE K == KeptFields(c, dd)
           upTo(m) == {j \in K : j <= m}
           v == dd[n + 1].val
           name == <<dd[n + 1].key>>
           x == Append(out, [name |-> name, items |-> Into[v][0]])
<1>1. /\ Len(dd) \in Nat /\ DOMAIN dd = 1 .. Len(dd) /\ n \in Nat /\ n + 1 \in 1 .. Len(dd)
      /\ dd[n + 1].key \in Keys /\ v \in Value
  BY ItemsParts
<1>2. K \subseteq 1 .. Len(dd)
  BY <1>1 DEF KeptFields
<1>3. /\ out \in Outputs /\ Len(out) = Cardinality(upTo(n))
      /\ \A i \in K : i <= n => /\ out[Nth(c, dd, i)].name = <<dd[i].key>>
                                /\ Values(out[Nth(c, dd, i)].items) = Leaves[dd[i].val]
  BY DEF RedactedRight
<1>4. \A i : Nth(c, dd, i) = Cardinality(upTo(i))
  BY DEF Nth
<1>5. /\ \A m \in Nat : IsFiniteSet(upTo(m)) /\ Cardinality(upTo(m)) \in Nat
      /\ \A j \in K : j \in Nat
  <2>1. \A j \in K : j \in Nat
    BY <1>2
  <2>2. ASSUME NEW m \in Nat PROVE IsFiniteSet(upTo(m)) /\ Cardinality(upTo(m)) \in Nat
    <3>1. upTo(m) \in SUBSET Nat /\ \A j \in upTo(m) : j <= m
      BY <2>1
    <3> HIDE DEF upTo
    <3>2. IsFiniteSet(upTo(m))
      BY <3>1, FS_BoundedSetOfNaturals
    <3> QED
      BY <3>2, FS_CardinalityType
  <2> QED
    BY <2>1, <2>2
<1>6. /\ n + 1 \notin K => upTo(n + 1) = upTo(n)
      /\ n + 1 \in K => upTo(n + 1) = upTo(n) \cup {n + 1} /\ n + 1 \notin upTo(n)
  <2>1. \A j \in K : j <= n + 1 <=> j <= n \/ j = n + 1
    BY <1>1, <1>5
  <2>2. ~(n + 1 <= n)
    BY <1>1
  <2> HIDE DEF K
  <2> QED
    BY <2>1, <2>2
<1>7. ASSUME NEW i \in K, i <= n PROVE Nth(c, dd, i) \in 1 .. Len(out)
  <2>1. i \in Nat
    BY <1>5
  <2>2. upTo(i) \subseteq upTo(n) /\ i \in upTo(i)
    <3>1. \A j \in K : j <= i => j <= n
      BY <1>1, <1>5, <1>7
    <3>2. i <= i /\ i \in K
      BY <2>1, <1>7
    <3> HIDE DEF K
    <3>3. upTo(i) \subseteq upTo(n)
      BY <3>1
    <3>4. i \in upTo(i)
      BY <3>2
    <3> QED
      BY <3>3, <3>4
  <2> HIDE DEF upTo, K
  <2>3. IsFiniteSet(upTo(n)) /\ Cardinality(upTo(n)) \in Nat /\ IsFiniteSet(upTo(i)) /\ Cardinality(upTo(i)) \in Nat
    BY <1>1, <1>5, <2>1
  <2>4. Cardinality(upTo(i)) <= Cardinality(upTo(n))
    BY <2>2, <2>3, FS_Subset
  <2>5. Cardinality(upTo(i)) # 0
    BY <2>2, <2>3, FS_EmptySet
  <2> QED
    BY <1>3, <1>4, <2>3, <2>4, <2>5
<1>8. ASSUME n + 1 \notin K PROVE RedactedRight(c, dd, out, n + 1)
  <2>1. Len(out) = Cardinality(upTo(n + 1))
    BY <1>3, <1>6, <1>8
  <2>2. ASSUME NEW i \in K, i <= n + 1 PROVE i <= n
    BY <1>1, <1>5, <1>8, <2>2
  <2> QED
    BY <1>3, <2>1, <2>2 DEF RedactedRight
<1>9. ASSUME n + 1 \in K PROVE RedactedRight(c, dd, x, n + 1)
  <2>1. name \in Text
    BY <1>1 DEF Text
  <2>2. Into[v][0] \in Filled /\ Values(Into[v][0]) = Leaves[v]
    BY <1>1, IntoUnfold, IntoValues
  <2>3. /\ x \in Outputs /\ Len(out) \in Nat /\ Len(x) = Len(out) + 1
        /\ \A i \in 1 .. Len(out) : x[i] = out[i]
        /\ x[Len(out) + 1].name = name /\ x[Len(out) + 1].items = Into[v][0]
    <3> DEFINE its == Into[v][0]
               y    == Append(out, [name |-> name, items |-> its])
    <3>1. its \in Filled /\ name \in Text /\ out \in Outputs
      BY <1>3, <2>1, <2>2
    <3>2. x = y
      OBVIOUS
    <3> HIDE DEF name, v, its, x
    <3>3. /\ y \in Outputs /\ Len(out) \in Nat /\ Len(y) = Len(out) + 1
          /\ \A i \in 1 .. Len(out) : y[i] = out[i]
          /\ y[Len(out) + 1].name = name /\ y[Len(out) + 1].items = its
      BY <3>1, OutputGrows
    <3> HIDE DEF y
    <3> QED
      BY <3>2, <3>3 DEF its
  <2> HIDE DEF x
  <2>4. Cardinality(upTo(n + 1)) = Len(out) + 1
    <3> HIDE DEF upTo
    <3>1. IsFiniteSet(upTo(n)) /\ upTo(n + 1) = upTo(n) \cup {n + 1} /\ n + 1 \notin upTo(n)
      BY <1>1, <1>5, <1>6, <1>9
    <3> QED
      BY <1>3, <3>1, FS_AddElement
  <2>5. ASSUME NEW i \in K, i <= n + 1
        PROVE  /\ x[Nth(c, dd, i)].name = <<dd[i].key>>
               /\ Values(x[Nth(c, dd, i)].items) = Leaves[dd[i].val]
    <3>1. CASE i <= n
      <4>1. x[Nth(c, dd, i)] = out[Nth(c, dd, i)]
        BY <1>7, <2>3, <3>1
      <4> QED
        BY <1>3, <3>1, <4>1
    <3>2. CASE ~(i <= n)
      <4>1. i = n + 1
        BY <1>1, <1>5, <2>5, <3>2
      <4>2. Nth(c, dd, i) = Len(out) + 1
        BY <1>4, <2>4, <4>1
      <4> QED
        BY <2>2, <2>3, <4>1, <4>2
    <3> QED
      BY <3>1, <3>2
  <2> QED
    BY <2>3, <2>4, <2>5 DEF RedactedRight
<1> QED
  BY <1>8, <1>9

\* Before the first field.
LEMMA RedactBegins ==
  ASSUME NEW c, NEW dd \in Items
  PROVE  RedactedRight(c, dd, << >>, 0)
<1>1. KeptFields(c, dd) \subseteq 1 .. Len(dd)
  BY ItemsParts DEF KeptFields
<1>2. \A j \in KeptFields(c, dd) : ~(j <= 0)
  BY <1>1
<1>3. {j \in KeptFields(c, dd) : j <= 0} = {}
  BY <1>2
<1> QED
  BY <1>2, <1>3, OutputNone, FS_EmptySet DEF RedactedRight

\* What a redaction looks up is the paths of its entries.
LEMMA RedactedIs ==
  ASSUME NEW c \in Commands, Accepted(c), c.name = "$redact", NEW dd \in Items, NEW i \in 1 .. Len(dd)
  PROVE  i \in KeptFields(c, dd) <=>
           ~ \E k \in DOMAIN ChainOf(c)[1].list : ChainOf(c)[1].list[k].text = <<dd[i].key>>
<1> DEFINE es == c.parts[1].entries
           list == ChainOf(c)[1].list
<1>1. es \in Seq(Entry) /\ ChainOf(c) = ParseRedaction(es)
  BY ProjectIs DEF EntriesIn, ProjectIn, ChainOf
<1>2. \A k \in 1 .. Len(Kept(es)) : Kept(es)[k].type # "document"
  BY DEF Accepted, EntriesIn, ProjectIn
<1> HIDE DEF es
<1>3. Len(ChainOf(c)) = Len(Kept(es)) /\ Len(ChainOf(c)) # 0
  BY <1>1, <1>2, RedactionIs, ChainIs
<1>4. /\ DOMAIN list = 1 .. Len(Kept(es))
      /\ \A k \in 1 .. Len(Kept(es)) : list[k].text = Kept(es)[k].key
  BY <1>1, <1>2, <1>3, RedactionIs
<1>5. DOMAIN Kept(es) = 1 .. Len(Kept(es)) /\ i \in DOMAIN dd
  BY <1>1, KeptIs, ItemsParts
<1>6. i \in KeptFields(c, dd) <=> \A k \in DOMAIN Kept(es) : Kept(es)[k].key # <<dd[i].key>>
  BY <1>5 DEF KeptFields, es
<1> QED
  BY <1>4, <1>5, <1>6

\* What the invariant says during a redaction.
LEMMA Redacting ==
  ASSUME ProjectionInv, at = "redact"
  PROVE  /\ doc \in Items /\ command \in Commands /\ Accepted(command) /\ command.name = "$redact"
         /\ ops = Chain /\ cur \in 1 .. Len(doc) + 1 /\ Len(doc) \in Nat
         /\ RedactedRight(command, doc, projected, cur - 1)
<1>1. doc \in Items
  BY DocsAssumption DEF ProjectionInv
<1>2. Runs
  BY DEF Runs
<1> QED
  BY <1>1, <1>2, ItemsParts DEF ProjectionInv, ParseInv, RedactInv

\* A field that is redacted or kept keeps the invariant.
LEMMA RedactFieldKeeps == ProjectionInv /\ RedactField => ProjectionInv'
<1> SUFFICES ASSUME ProjectionInv, RedactField PROVE ProjectionInv'
  OBVIOUS
<1>1. /\ at = "redact" /\ cur <= Len(doc) /\ cur' = cur + 1 /\ at' = at /\ ops' = ops
      /\ projected' = IF Redacted(doc[cur].key) THEN projected
                      ELSE Append(projected, [name  |-> <<doc[cur].key>>,
                                              items |-> Into[doc[cur].val][0]])
      /\ UNCHANGED parsed
  BY DEF RedactField, Executing
<1>2. /\ doc \in Items /\ command \in Commands /\ Accepted(command) /\ command.name = "$redact"
      /\ ops = Chain /\ cur \in 1 .. Len(doc) + 1 /\ Len(doc) \in Nat
      /\ RedactedRight(command, doc, projected, cur - 1)
  BY <1>1, Redacting
<1>3. cur - 1 \in 0 .. Len(doc) - 1 /\ (cur - 1) + 1 = cur /\ cur \in 1 .. Len(doc)
      /\ cur + 1 \in 1 .. Len(doc) + 1 /\ (cur + 1) - 1 = cur
  BY <1>1, <1>2
<1>4. cur \in KeptFields(command, doc) <=> ~Redacted(doc[cur].key)
  <2>1. cur \in KeptFields(command, doc) <=>
          ~ \E k \in DOMAIN Chain[1].list : Chain[1].list[k].text = <<doc[cur].key>>
    BY <1>2, <1>3, RedactedIs DEF Chain
  <2> QED
    BY <1>2, <2>1 DEF Redacted
<1>5. RedactedRight(command, doc, projected', cur)
  <2> DEFINE x == Append(projected, [name |-> <<doc[cur].key>>, items |-> Into[doc[cur].val][0]])
  <2>1. /\ cur \notin KeptFields(command, doc) => RedactedRight(command, doc, projected, cur)
        /\ cur \in KeptFields(command, doc) => RedactedRight(command, doc, x, cur)
    <3>1. /\ (cur - 1) + 1 \notin KeptFields(command, doc) =>
               RedactedRight(command, doc, projected, (cur - 1) + 1)
          /\ (cur - 1) + 1 \in KeptFields(command, doc) =>
               RedactedRight(command, doc,
                 Append(projected, [name  |-> <<doc[(cur - 1) + 1].key>>,
                                    items |-> Into[doc[(cur - 1) + 1].val][0]]), (cur - 1) + 1)
      BY <1>2, <1>3, RedactNext
    <3> QED
      BY <1>3, <3>1
  <2>2. projected' = IF Redacted(doc[cur].key) THEN projected ELSE x
    BY <1>1
  <2> HIDE DEF x
  <2> QED
    BY <1>4, <2>1, <2>2
<1>6. /\ doc' \in Docs /\ command' \in Commands /\ ParseInv' /\ CrashExplained'
      /\ doc' = doc /\ command' = command /\ Chain' = Chain
  BY <1>1, Carried DEF Runs
<1>7. RedactInv'
  BY <1>1, <1>2, <1>3, <1>5, <1>6 DEF RedactInv
<1>8. ExecuteInv' /\ MatchInv' /\ DoneInv'
  BY <1>1 DEF ExecuteInv, MatchInv, DoneInv, Executes, Done
<1> QED
  BY <1>6, <1>7, <1>8 DEF ProjectionInv

\* The end of a redaction keeps it.
LEMMA RedactEndKeeps == ProjectionInv /\ RedactEnd => ProjectionInv'
<1> SUFFICES ASSUME ProjectionInv, RedactEnd PROVE ProjectionInv'
  OBVIOUS
<1>1. /\ at = "redact" /\ cur > Len(doc) /\ at' = "done" /\ ops' = ops /\ projected' = projected
      /\ UNCHANGED parsed
  BY DEF RedactEnd, Executing
<1>2. /\ command.name = "$redact" /\ ops = Chain /\ cur \in 1 .. Len(doc) + 1 /\ Len(doc) \in Nat
      /\ RedactedRight(command, doc, projected, cur - 1)
  BY <1>1, Redacting
<1>3. cur - 1 = Len(doc)
  BY <1>1, <1>2
<1>4. /\ doc' \in Docs /\ command' \in Commands /\ ParseInv' /\ CrashExplained'
      /\ doc' = doc /\ command' = command /\ Chain' = Chain
  BY <1>1, Carried DEF Runs, Done
<1>5. DoneInv'
  BY <1>1, <1>2, <1>3, <1>4 DEF DoneInv
<1>6. ExecuteInv' /\ MatchInv' /\ RedactInv'
  BY <1>1 DEF ExecuteInv, MatchInv, RedactInv, Executes
<1> QED
  BY <1>4, <1>5, <1>6 DEF ProjectionInv

\* What the invariant says during a match.
LEMMA Matching ==
  ASSUME ProjectionInv, at = "match"
  PROVE  /\ command.name = "$unwind" /\ ops = Chain /\ result = FALSE
         /\ OutputRight(doc, Chain, projected, Len(Chain))
         /\ cur \in 1 .. Len(Elements) + 1 /\ Len(Elements) \in Nat
         /\ \A k \in 1 .. cur - 1 : ~MatchesIn(query, NameOf(Chain[1]), Elements[k].val)
         /\ command \in Commands /\ Accepted(command) /\ query = QueryOf(command)
<1>1. /\ command.name = "$unwind" /\ ops = Chain /\ result = FALSE
      /\ OutputRight(doc, Chain, projected, Len(Chain))
      /\ cur \in 1 .. Len(Elements) + 1
      /\ \A k \in 1 .. cur - 1 : ~MatchesIn(query, NameOf(Chain[1]), Elements[k].val)
  BY DEF ProjectionInv, MatchInv
<1>2. command \in Commands /\ Accepted(command) /\ query = QueryOf(command)
  BY <1>1 DEF ProjectionInv, ParseInv, Runs
<1>3. Len(Elements) \in Nat
  <2>1. Len(Chain) \in Nat \ {0}
    BY <1>2, ChainIs DEF Chain
  <2> QED
    BY <1>1, <2>1, FirstOutput DEF OutputRight, Elements
<1> QED
  BY <1>1, <1>2, <1>3

\* Matching one element keeps it.
LEMMA MatchElementKeeps == ProjectionInv /\ MatchElement => ProjectionInv'
<1> SUFFICES ASSUME ProjectionInv, MatchElement PROVE ProjectionInv'
  OBVIOUS
<1> DEFINE m == MatchesIn(query, NameOf(Chain[1]), Elements[cur].val)
<1>1. /\ at = "match" /\ cur <= Len(Elements) /\ query # NoQuery
      /\ result' = Matches(NameOf(ops[1]), Elements[cur].val) /\ cur' = cur + 1
      /\ at' = IF result' THEN "done" ELSE at
      /\ UNCHANGED parsed /\ ops' = ops /\ projected' = projected
  BY DEF MatchElement
<1>2. /\ command.name = "$unwind" /\ ops = Chain
      /\ OutputRight(doc, Chain, projected, Len(Chain))
      /\ cur \in 1 .. Len(Elements) + 1 /\ Len(Elements) \in Nat
      /\ \A k \in 1 .. cur - 1 : ~MatchesIn(query, NameOf(Chain[1]), Elements[k].val)
  BY <1>1, Matching
<1>3. m \in BOOLEAN /\ result' = m
  <2>1. m \in BOOLEAN
    BY DEF MatchesIn
  <2>2. result' = m
    BY <1>1, <1>2 DEF Matches, MatchesIn
  <2> QED
    BY <2>1, <2>2
<1>4. Runs /\ Runs' /\ UNCHANGED parsed
  BY <1>1 DEF Runs, Done
<1>5. /\ doc' \in Docs /\ command' \in Commands /\ ParseInv' /\ CrashExplained'
      /\ doc' = doc /\ command' = command /\ Chain' = Chain
  BY <1>4, Carried
<1>6. Elements' = Elements /\ query' = query
  BY <1>1 DEF Elements, parsed
<1>7. ExecuteInv' /\ RedactInv'
  BY <1>1 DEF ExecuteInv, RedactInv, Executes
<1>8. CASE m
  <2>1. at' = "done" /\ result' = TRUE
    BY <1>1, <1>3, <1>8
  <2>2. \E k \in 1 .. Len(Elements) : MatchesIn(query, NameOf(Chain[1]), Elements[k].val)
    <3>1. cur \in 1 .. Len(Elements)
      BY <1>1, <1>2
    <3> QED
      BY <1>8, <3>1
  <2> HIDE DEF m
  <2>3. DoneInv'
    BY <1>1, <1>2, <1>5, <1>6, <2>1, <2>2 DEF DoneInv
  <2>4. MatchInv'
    BY <2>1 DEF MatchInv
  <2> QED
    BY <1>5, <1>7, <2>3, <2>4 DEF ProjectionInv
<1>9. CASE ~m
  <2>1. at' = "match" /\ result' = FALSE
    BY <1>1, <1>3, <1>9
  <2>2. cur + 1 \in 1 .. Len(Elements) + 1 /\ \A k \in 1 .. (cur + 1) - 1 : k \in 1 .. cur - 1 \/ k = cur
    BY <1>1, <1>2
  <2>3. \A k \in 1 .. (cur + 1) - 1 : ~MatchesIn(query, NameOf(Chain[1]), Elements[k].val)
    BY <1>2, <1>9, <2>2
  <2> HIDE DEF m
  <2>4. MatchInv'
    BY <1>1, <1>2, <1>5, <1>6, <2>1, <2>2, <2>3 DEF MatchInv
  <2>5. DoneInv'
    BY <2>1 DEF DoneInv, Done
  <2> QED
    BY <1>5, <1>7, <2>4, <2>5 DEF ProjectionInv
<1> QED
  BY <1>3, <1>8, <1>9

\* The end of a match keeps it.
LEMMA MatchEndKeeps == ProjectionInv /\ MatchEnd => ProjectionInv'
<1> SUFFICES ASSUME ProjectionInv, MatchEnd PROVE ProjectionInv'
  OBVIOUS
<1>1. /\ at = "match" /\ cur > Len(Elements) /\ at' = "done" /\ UNCHANGED parsed
      /\ ops' = ops /\ projected' = projected /\ result' = result
  BY DEF MatchEnd
<1>2. /\ command.name = "$unwind" /\ ops = Chain /\ result = FALSE
      /\ OutputRight(doc, Chain, projected, Len(Chain))
      /\ cur \in 1 .. Len(Elements) + 1 /\ Len(Elements) \in Nat
      /\ \A k \in 1 .. cur - 1 : ~MatchesIn(query, NameOf(Chain[1]), Elements[k].val)
  BY <1>1, Matching
<1>3. cur - 1 = Len(Elements)
  BY <1>1, <1>2
<1>4. ~ \E k \in 1 .. Len(Elements) : MatchesIn(query, NameOf(Chain[1]), Elements[k].val)
  BY <1>2, <1>3
<1>5. /\ doc' \in Docs /\ command' \in Commands /\ ParseInv' /\ CrashExplained'
      /\ doc' = doc /\ command' = command /\ Chain' = Chain
  BY <1>1, Carried DEF Runs, Done
<1>6. Elements' = Elements /\ query' = query
  BY <1>1 DEF Elements, parsed
<1>7. DoneInv'
  BY <1>1, <1>2, <1>4, <1>5, <1>6 DEF DoneInv
<1>8. ExecuteInv' /\ MatchInv' /\ RedactInv'
  BY <1>1 DEF ExecuteInv, MatchInv, RedactInv, Executes
<1> QED
  BY <1>5, <1>7, <1>8 DEF ProjectionInv
-----------------------------------------------------------------------------
(***************************************************************************)
(* The steps of the parsers, of the end and of a program that stops.       *)
(***************************************************************************)
\* Nothing is asked of a program that has stopped, but why it has.
LEMMA Halted ==
  ASSUME ProjectionInv, at' \in {"refused", "assert", "crash"}, doc' = doc, command' = command,
         CrashExplained'
  PROVE  ProjectionInv'
<1>1. ~Runs' /\ ~Executes' /\ ~Done' /\ at' \notin {"parse", "redact", "match"}
  BY DEF Runs, Executes, Done
<1>2. ParseInv' /\ ExecuteInv' /\ RedactInv' /\ MatchInv' /\ DoneInv'
  BY <1>1 DEF ParseInv, ExecuteInv, RedactInv, MatchInv, DoneInv
<1> QED
  BY <1>2 DEF ProjectionInv

\* The start of execute.
LEMMA ExecuteBegins ==
  ASSUME ProjectionInv, at = "parse", at' = "execute", Quiet, Accepted(command),
         command.name # "$redact", ops' = Chain, strings' = StringsIn(command),
         command.name = "$unwind" => query' = QueryOf(command)
  PROVE  ProjectionInv'
<1>1. /\ doc' = doc /\ command' = command /\ Chain' = Chain
      /\ cur' = 1 /\ projected' = << >> /\ result' = FALSE
  BY DEF ProjectionInv, ParseInv, Quiet, Chain
<1>2. doc \in Docs /\ command \in Commands
  BY DEF ProjectionInv
<1>3. ParseInv'
  BY <1>1 DEF ParseInv
<1>4. 1 \in 1 .. Len(Chain)
  BY <1>2, ChainIs DEF Chain
<1>5. OutputRight(doc, Chain, << >>, 0)
  BY OutputNone DEF OutputRight
<1>6. ExecuteInv'
  <2>1. OpsInv'
    BY <1>1 DEF OpsInv
  <2>2. cur' - 1 = 0
    BY <1>1
  <2> QED
    BY <1>1, <1>4, <1>5, <2>1, <2>2 DEF ExecuteInv
<1>7. RedactInv' /\ MatchInv' /\ DoneInv' /\ CrashExplained'
  BY DEF RedactInv, MatchInv, DoneInv, Done, CrashExplained
<1> QED
  BY <1>1, <1>2, <1>3, <1>6, <1>7 DEF ProjectionInv

\* An empty chain is one of no entries.
LEMMA NoOps ==
  ASSUME NEW part \in Nat \ {0}, NEW entries \in Seq(Entry)
  PROVE  ParseProjection(part, entries) = << >> <=> Kept(entries) = << >>
<1>1. /\ ParseProjection(part, entries) \in Seq(OpSet) /\ Kept(entries) \in Seq(Entry)
      /\ Len(ParseProjection(part, entries)) = Len(Kept(entries))
  BY ProjectionIs, KeptIs
<1> QED
  BY <1>1, EmptySeq

\* Parsing a $project keeps the invariant.
LEMMA ParseProjectKeeps == ProjectionInv /\ ParseProject => ProjectionInv'
<1> SUFFICES ASSUME ProjectionInv, ParseProject PROVE ProjectionInv'
  OBVIOUS
<1>1. /\ at = "parse" /\ command.name = "$project" /\ ops' = Chain /\ strings' = StringsOf(Chain)
      /\ at' = IF Chain = << >> THEN "refused" ELSE "execute"
      /\ Quiet
  BY DEF ParseProject, Chain, ChainOf, ProjectIn, EntriesIn
<1>2. doc' = doc /\ command' = command
  BY <1>1 DEF Quiet
<1>3. CASE Chain = << >>
  <2>1. at' = "refused" /\ CrashExplained'
    BY <1>1, <1>3 DEF CrashExplained
  <2> QED
    BY <1>2, <2>1, Halted
<1>4. CASE Chain # << >>
  <2>1. Accepted(command)
    BY <1>1, <1>4 DEF Accepted, Chain
  <2>2. strings' = StringsIn(command)
    BY <1>1 DEF StringsIn, Chain
  <2> QED
    BY <1>1, <1>4, <2>1, <2>2, ExecuteBegins
<1> QED
  BY <1>3, <1>4

\* Parsing a $redact keeps the invariant.
LEMMA ParseRedactKeeps == ProjectionInv /\ ParseRedact => ProjectionInv'
<1> SUFFICES ASSUME ProjectionInv, ParseRedact PROVE ProjectionInv'
  OBVIOUS
<1> DEFINE es == command.parts[1].entries
           chain == ParseProjection(1, es)
           bad == chain = << >> \/ \E i \in DOMAIN chain : chain[i].path = Null
<1>1. /\ at = "parse" /\ command.name = "$redact" /\ Quiet
      /\ bad => Crash("crash")
      /\ ~bad => ops' = ParseRedaction(es) /\ strings' = StringsOf(ops') /\ at' = "redact"
  BY DEF ParseRedact
<1>2. /\ doc' = doc /\ command' = command /\ Chain' = Chain
      /\ cur' = 1 /\ projected' = << >> /\ result' = FALSE
  BY <1>1 DEF ProjectionInv, ParseInv, Quiet, Chain
<1>3. doc \in Docs /\ doc \in Items /\ command \in Commands
  BY DocsAssumption DEF ProjectionInv
<1>4. es \in Seq(Entry)
  <2>1. 1 \in PartsIn(command, "$project")
    BY <1>1, <1>3, PartsAre
  <2> QED
    BY <1>3, <2>1, PartsAre
<1>5. chain = << >> <=> Kept(es) = << >>
  BY <1>4, NoOps
<1>6. Len(Kept(es)) \in Nat /\ DOMAIN Kept(es) = 1 .. Len(Kept(es)) /\ DOMAIN chain = 1 .. Len(Kept(es))
  <2>1. Len(Kept(es)) \in Nat /\ DOMAIN Kept(es) = 1 .. Len(Kept(es))
    BY <1>4, KeptIs
  <2>2. DOMAIN chain = 1 .. Len(Kept(es))
    <3> HIDE DEF es
    <3> QED
      BY <1>4, ProjectionIs
  <2> QED
    BY <2>1, <2>2
<1>7. \A i \in 1 .. Len(Kept(es)) : chain[i].path = Null <=> Kept(es)[i].type = "document"
  <2> SUFFICES ASSUME NEW i \in 1 .. Len(Kept(es))
               PROVE  chain[i].path = Null <=> Kept(es)[i].type = "document"
    OBVIOUS
  <2>1. /\ Kept(es)[i].type = "document" => chain[i].path = Null
        /\ Kept(es)[i].type # "document" => chain[i].path = Str(1, i, 1, Kept(es)[i].key)
    BY <1>4, ProjectionIs
  <2>2. Kept(es)[i].key \in Text
    <3>1. Kept(es)[i] \in Entry
      BY <1>4, <1>6, KeptIs
    <3>2. Kept(es)[i].key \in DottedPath \/ Kept(es)[i].key \in Name
      BY <3>1 DEF Entry
    <3> QED
      BY <3>2, TextIs
  <2>3. Str(1, i, 1, Kept(es)[i].key) # Null
    <3>1. i \in Nat
      BY <1>6
    <3> QED
      BY <2>2, <3>1, StrIs
  <2> QED
    BY <2>1, <2>3
<1> HIDE DEF chain
<1>8. CASE bad
  <2>1. at' = "crash"
    BY <1>1, <1>8 DEF Crash
  <2>2. Kept(es) = << >> \/ \E i \in DOMAIN Kept(es) : Kept(es)[i].type = "document"
    BY <1>5, <1>6, <1>7, <1>8
  <2>3. CrashExplained'
    BY <1>1, <1>2, <2>2 DEF CrashExplained
  <2> QED
    BY <1>2, <2>1, <2>3, Halted
<1>9. CASE ~bad
  <2>1. ops' = ParseRedaction(es) /\ strings' = StringsOf(ops') /\ at' = "redact"
    BY <1>1, <1>9
  <2>2. EntriesIn(command) = es /\ Chain = ParseRedaction(es)
    BY <1>1 DEF EntriesIn, ProjectIn, Chain, ChainOf
  <2>3. \A i \in 1 .. Len(Kept(es)) : Kept(es)[i].type # "document"
    BY <1>6, <1>7, <1>9
  <2>4. Chain # << >>
    <3>1. ParseRedaction(es) \in Seq(OpSet) /\ Len(ParseRedaction(es)) = Len(Kept(es))
      BY <1>4, <2>3, RedactionIs
    <3>2. Kept(es) \in Seq(Entry) /\ Kept(es) # << >>
      BY <1>4, <1>5, <1>9, KeptIs
    <3> QED
      BY <2>2, <3>1, <3>2, EmptySeq
  <2> HIDE DEF es, bad
  <2>5. Accepted(command)
    BY <1>1, <2>2, <2>3, <2>4 DEF Accepted, Chain
  <2>6. ops' = Chain /\ strings' = StringsIn(command)
    BY <1>1, <2>1, <2>2 DEF StringsIn, Chain
  <2>7. ParseInv'
    BY <1>1, <1>2, <2>1, <2>5, <2>6 DEF ParseInv
  <2>8. RedactInv'
    <3>1. RedactedRight(command, doc, << >>, 0)
      BY <1>3, RedactBegins
    <3>2. cur' - 1 = 0 /\ cur' \in 1 .. Len(doc) + 1
      BY <1>2, <1>3, ItemsParts
    <3> QED
      BY <1>1, <1>2, <2>6, <3>1, <3>2 DEF RedactInv
  <2>9. ExecuteInv' /\ MatchInv' /\ DoneInv' /\ CrashExplained'
    BY <2>1 DEF ExecuteInv, Executes, MatchInv, DoneInv, Done, CrashExplained
  <2> QED
    BY <1>2, <1>3, <2>7, <2>8, <2>9 DEF ProjectionInv
<1> QED
  BY <1>8, <1>9

\* Parsing an $unwind keeps the invariant.
LEMMA ParseUnwindKeeps == ProjectionInv /\ ParseUnwind => ProjectionInv'
<1> SUFFICES ASSUME ProjectionInv, ParseUnwind PROVE ProjectionInv'
  OBVIOUS
<1> DEFINE projects == PartsIn(command, "$project")
           queries == PartsIn(command, "$query")
           none == projects = {} \/ queries = {}
<1>1. /\ at = "parse" /\ command.name = "$unwind" /\ Quiet
      /\ none => Crash("assert")
      /\ ~none /\ Chain = << >> => Crash("crash")
      /\ ~none /\ Chain # << >> =>
           /\ ops' = Chain /\ strings' = StringsIn(command)
           /\ query' = QueryOf(command) /\ at' = "execute"
  BY DEF ParseUnwind, PartsNamed, PartsIn, Chain, ChainOf, ProjectIn, EntriesIn, StringsIn
<1>2. doc' = doc /\ command' = command /\ command \in Commands
  BY <1>1 DEF Quiet, ProjectionInv
<1>3. \A name : PartsNamed(name)' = PartsIn(command, name)
  BY <1>2 DEF PartsNamed, PartsIn
<1>4. CASE none
  <2>1. at' = "assert"
    BY <1>1, <1>4 DEF Crash
  <2>2. CrashExplained'
    BY <1>1, <1>2, <1>3, <1>4 DEF CrashExplained
  <2> QED
    BY <1>2, <2>1, <2>2, Halted
<1>5. CASE ~none /\ Chain = << >>
  <2>1. at' = "crash"
    BY <1>1, <1>5 DEF Crash
  <2>2. PICK i \in projects : Chain = ParseProjection(i, command.parts[i].entries)
    <3>1. Max(projects) \in projects
      BY <1>2, <1>5, PartsAre
    <3> QED
      BY <1>1, <3>1 DEF Chain, ChainOf, ProjectIn, EntriesIn
  <2>3. Kept(command.parts[i].entries) = << >>
    BY <1>2, <1>5, <2>2, PartsAre, NoOps
  <2>4. CrashExplained'
    BY <1>1, <1>2, <1>3, <2>2, <2>3 DEF CrashExplained
  <2> QED
    BY <1>2, <2>1, <2>4, Halted
<1>6. CASE ~none /\ Chain # << >>
  <2>1. Accepted(command)
    BY <1>1, <1>6 DEF Accepted, Chain
  <2> QED
    BY <1>1, <1>6, <2>1, ExecuteBegins
<1> QED
  BY <1>4, <1>5, <1>6

\* A query is NULL because one part is empty or refused.
LEMMA NoQueryIs ==
  ASSUME NEW c \in Commands, PartsIn(c, "$query") # {}, QueryOf(c) = NoQuery
  PROVE  \E i \in PartsIn(c, "$query") : c.parts[i].query = NoQuery
<1> DEFINE read == {i \in DOMAIN c.parts : /\ c.parts[i].name = "$query"
                                           /\ c.parts[i].query # NoQuery \/ c.parts[i].refused}
<1>1. read \subseteq PartsIn(c, "$query")
  BY DEF PartsIn
<1>2. CASE read = {}
  BY <1>2 DEF PartsIn
<1>3. CASE read # {}
  <2>1. PartsIn(c, "$query") \subseteq 1 .. Len(c.parts) /\ Len(c.parts) \in Nat
    BY PartsAre, CommandsAssumption, InSeq
  <2>2. Max(read) \in read
    <3> HIDE DEF read
    <3> QED
      BY <1>1, <1>3, <2>1, MaxIs
  <2>3. c.parts[Max(read)].query = NoQuery
    BY <1>3 DEF QueryOf
  <2> QED
    BY <1>1, <2>2, <2>3
<1> QED
  BY <1>2, <1>3

\* A query that is NULL stops the program.
LEMMA MatchNullKeeps == ProjectionInv /\ MatchNull => ProjectionInv'
<1> SUFFICES ASSUME ProjectionInv, MatchNull PROVE ProjectionInv'
  OBVIOUS
<1>1. at = "match" /\ query = NoQuery /\ at' = "assert" /\ doc' = doc /\ command' = command
  BY DEF MatchNull, parsed
<1>2. command.name = "$unwind" /\ command \in Commands /\ Accepted(command) /\ query = QueryOf(command)
  BY <1>1, Matching
<1>3. \E i \in PartsIn(command, "$query") : command.parts[i].query = NoQuery
  BY <1>1, <1>2, NoQueryIs DEF Accepted
<1>4. \A name : PartsNamed(name)' = PartsIn(command, name)
  BY <1>1 DEF PartsNamed, PartsIn
<1>5. CrashExplained'
  BY <1>1, <1>2, <1>3, <1>4 DEF CrashExplained
<1> QED
  BY <1>1, <1>5, Halted

\* The ops are destroyed as they were parsed.
LEMMA DestroyKeeps == ProjectionInv /\ Destroy => ProjectionInv'
<1> SUFFICES ASSUME ProjectionInv, Destroy PROVE ProjectionInv'
  OBVIOUS
<1>1. /\ at = "done" /\ at' = "destroyed" /\ UNCHANGED parsed
      /\ freed' = FlattenSeq([i \in DOMAIN ops |-> FreeOf(ops[i])])
      /\ ops' = ops /\ projected' = projected /\ result' = result
  BY DEF Destroy
<1>2. /\ doc' \in Docs /\ command' \in Commands /\ ParseInv' /\ CrashExplained'
      /\ doc' = doc /\ command' = command /\ Chain' = Chain
  BY <1>1, Carried DEF Runs, Done
<1>3. Done /\ Elements' = Elements /\ query' = query
  BY <1>1 DEF Done, Elements, parsed
<1>4. DoneInv'
  BY <1>1, <1>2, <1>3 DEF ProjectionInv, DoneInv
<1>5. ExecuteInv' /\ RedactInv' /\ MatchInv'
  BY <1>1 DEF ExecuteInv, Executes, RedactInv, MatchInv
<1> QED
  BY <1>2, <1>4, <1>5 DEF ProjectionInv
-----------------------------------------------------------------------------
(***************************************************************************)
(* The invariant is inductive, and the properties follow from it.          *)
(***************************************************************************)
\* It holds before a command is parsed.
LEMMA ProjectionBegins == Init => ProjectionInv
<1> SUFFICES ASSUME Init PROVE ProjectionInv
  OBVIOUS
<1>1. at = "parse" /\ cur = 1 /\ projected = << >> /\ result = FALSE
  BY DEF Init
<1>2. ~Runs /\ ~Executes /\ ~Done
  BY <1>1 DEF Runs, Executes, Done
<1>3. ParseInv /\ ExecuteInv /\ RedactInv /\ MatchInv /\ DoneInv /\ CrashExplained
  BY <1>1, <1>2 DEF ParseInv, ExecuteInv, RedactInv, MatchInv, DoneInv, CrashExplained
<1> QED
  BY <1>3 DEF Init, ProjectionInv

\* It says nothing of what no variable tells.
LEMMA NothingMoves == ProjectionInv /\ UNCHANGED vars => ProjectionInv'
<1> SUFFICES ASSUME ProjectionInv, UNCHANGED vars PROVE ProjectionInv'
  OBVIOUS
<1>1. /\ doc' = doc /\ command' = command /\ query' = query /\ strings' = strings
      /\ ops' = ops /\ cur' = cur /\ todo' = todo /\ checked' = checked /\ skip' = skip
      /\ packed' = packed /\ arrlist' = arrlist /\ projected' = projected /\ result' = result
      /\ freed' = freed /\ at' = at
  BY DEF vars, parsed, counters
<1>2. /\ Chain' = Chain /\ OpPaths' = OpPaths /\ Elements' = Elements
      /\ Executes' = Executes /\ Runs' = Runs /\ Done' = Done
  BY <1>1 DEF Chain, OpPaths, Elements, Executes, Runs, Done
<1>3. \A name : PartsNamed(name)' = PartsNamed(name)
  BY <1>1 DEF PartsNamed
<1>4. ParseInv' /\ RedactInv' /\ MatchInv' /\ DoneInv'
  BY <1>1, <1>2 DEF ProjectionInv, ParseInv, RedactInv, MatchInv, DoneInv
<1>5. ExecuteInv'
  <2>1. OpsInv' <=> OpsInv
    BY <1>1, <1>2 DEF OpsInv
  <2>2. \A n : (ListInv(n)' <=> ListInv(n)) /\ (FindInv(n)' <=> FindInv(n))
    BY <1>1, <1>2 DEF ListInv, FindInv
  <2> QED
    BY <1>1, <1>2, <2>1, <2>2 DEF ProjectionInv, ExecuteInv
<1>6. CrashExplained'
  BY <1>1, <1>3 DEF ProjectionInv, CrashExplained
<1> QED
  BY <1>1, <1>4, <1>5, <1>6 DEF ProjectionInv

\* Every step keeps it.
LEMMA ProjectionKept == ProjectionInv /\ [Next]_vars => ProjectionInv'
<1> SUFFICES ASSUME ProjectionInv, [Next]_vars PROVE ProjectionInv'
  OBVIOUS
<1>1. CASE ParseProject
  BY <1>1, ParseProjectKeeps
<1>2. CASE ParseRedact
  BY <1>2, ParseRedactKeeps
<1>3. CASE ParseUnwind
  BY <1>3, ParseUnwindKeeps
<1>4. CASE StartOp
  BY <1>4, StartOpKeeps
<1>5. CASE TakePath
  BY <1>5, TakePathKeeps
<1>6. CASE EndList
  BY <1>6, EndListKeeps
<1>7. CASE EndArray
  BY <1>7, EndArrayKeeps
<1>8. CASE FindPlain
  BY <1>8, FindPlainKeeps
<1>9. CASE FindAsItStands
  BY <1>9, FindAsItStandsKeeps
<1>10. CASE FindNext
  BY <1>10, FindNextKeeps
<1>11. CASE FindNoMore
  BY <1>11, FindNoMoreKeeps
<1>12. CASE RedactField
  BY <1>12, RedactFieldKeeps
<1>13. CASE RedactEnd
  BY <1>13, RedactEndKeeps
<1>14. CASE MatchElement
  BY <1>14, MatchElementKeeps
<1>15. CASE MatchNull
  BY <1>15, MatchNullKeeps
<1>16. CASE MatchEnd
  BY <1>16, MatchEndKeeps
<1>17. CASE Destroy
  BY <1>17, DestroyKeeps
<1>18. CASE Stopped \/ UNCHANGED vars
  BY <1>18, NothingMoves DEF Stopped
<1> QED
  BY <1>1, <1>2, <1>3, <1>4, <1>5, <1>6, <1>7, <1>8, <1>9, <1>10, <1>11, <1>12, <1>13, <1>14,
     <1>15, <1>16, <1>17, <1>18 DEF Next

\* It holds of every behaviour.
LEMMA ProjectionAlways == Spec => []ProjectionInv
  BY ProjectionBegins, ProjectionKept, PTL DEF Spec

\* What the invariant says at the end of a projection.
LEMMA AtTheEnd ==
  ASSUME ProjectionInv, Done, command.name # "$redact"
  PROVE  /\ ops = Chain /\ Len(Chain) \in Nat \ {0}
         /\ DOMAIN projected = 1 .. Len(Chain)
         /\ \A i \in 1 .. Len(Chain) :
              /\ FilledRight(doc, PathsOf(ops[i]), projected[i].items)
              /\ PathsOf(ops[i]) \in Seq(DottedPath) /\ Len(PathsOf(ops[i])) \in Nat
              /\ DOMAIN PathsOf(ops[i]) = 1 .. Len(PathsOf(ops[i]))
<1>1. command \in Commands /\ Accepted(command)
  BY DEF ProjectionInv, ParseInv, Runs
<1>2. ops = Chain /\ OutputRight(doc, Chain, projected, Len(Chain))
  BY DEF ProjectionInv, DoneInv
<1>3. Len(Chain) \in Nat \ {0}
  BY <1>1, ChainIs DEF Chain
<1>4. DOMAIN projected = 1 .. Len(Chain)
  <2> DEFINE E == [name : Text, items : Filled]
  <2>1. projected \in Seq(E) /\ Len(projected) = Len(Chain)
    BY <1>2 DEF OutputRight, Outputs
  <2> HIDE DEF E
  <2> QED
    BY <2>1, InSeq
<1>5. \A i \in 1 .. Len(Chain) : FilledRight(doc, PathsOf(ops[i]), projected[i].items)
  BY <1>2 DEF OutputRight
<1>6. \A i \in 1 .. Len(Chain) : PathsOf(ops[i]) \in Seq(DottedPath) /\ Len(PathsOf(ops[i])) \in Nat
  BY <1>1, <1>2, PathsAre DEF Chain
<1>7. \A i \in 1 .. Len(Chain) : DOMAIN PathsOf(ops[i]) = 1 .. Len(PathsOf(ops[i]))
  BY <1>6, InSeq
<1> QED
  BY <1>2, <1>3, <1>4, <1>5, <1>6, <1>7

\* What an entry with one path has.
LEMMA OnePath ==
  ASSUME ProjectionInv, Done, command.name # "$redact",
         NEW i \in 1 .. Len(Chain), Len(PathsOf(ops[i])) = 1
  PROVE  LET only  == PathsOf(ops[i])[1]
             items == projected[i].items
         IN  /\ Values(items) = LeavesOf(only)
             /\ items \in Filled /\ DOMAIN items = 1 .. Len(items) /\ Len(items) \in Nat
             /\ AllPlain(doc, only) => KeysFrom(items, 0)
<1> DEFINE paths == PathsOf(ops[i])
           items == projected[i].items
           leaves == LeavesIn(doc, paths[1])
<1>1. /\ FilledRight(doc, paths, items) /\ paths \in Seq(DottedPath) /\ DOMAIN paths = 1 .. Len(paths)
      /\ Len(paths) = 1
  BY AtTheEnd
<1> HIDE DEF paths, items
<1>2. Fine(doc, paths)
  <2>1. \A k \in DOMAIN paths : 1 .. k - 1 = {}
    BY <1>1
  <2> QED
    BY <2>1 DEF Fine
<1>3. /\ Whole(doc, paths, 1) /\ Values(items) = Gather(doc, paths, 1) /\ items \in Filled
      /\ AllPlain(doc, paths[1]) => KeysFrom(items, 0)
  BY <1>1, <1>2 DEF FilledRight
<1>4. leaves \in Seq(Value)
  <2>1. 1 \in 1 .. 1
    OBVIOUS
  <2> QED
    BY <1>3, <2>1 DEF Whole
<1>5. Gather(doc, paths, 1) = FlattenSeq(<<leaves>>)
  <2>1. [k \in 1 .. 1 |-> LeavesIn(doc, paths[k])] = [k \in 1 .. 1 |-> leaves]
    OBVIOUS
  <2> HIDE DEF leaves
  <2>2. [k \in 1 .. 1 |-> leaves] = <<leaves>>
    OBVIOUS
  <2> QED
    BY <2>1, <2>2 DEF Gather
<1>6. leaves = LeavesOf(paths[1])
  BY DEF LeavesOf, LeavesIn
<1> HIDE DEF leaves
<1>7. Values(items) = LeavesOf(paths[1])
  BY <1>3, <1>4, <1>5, <1>6, FlattenOne
<1>8. DOMAIN items = 1 .. Len(items) /\ Len(items) \in Nat
  <2> DEFINE E == [key : Nat, val : Value]
  <2>1. items \in Seq(E)
    BY <1>3 DEF Filled
  <2> HIDE DEF E
  <2> QED
    BY <2>1, InSeq
<1> QED
  BY <1>3, <1>7, <1>8 DEF paths, items

\* An entry with one path is complete.
LEMMA OnePathHolds == ProjectionInv => OnePathComplete
<1> SUFFICES ASSUME ProjectionInv, Done, command.name # "$redact",
                    NEW i \in DOMAIN projected, Len(PathsOf(ops[i])) = 1
             PROVE  LET only  == PathsOf(ops[i])[1]
                        items == projected[i].items
                    IN  /\ Values(items) = LeavesOf(only)
                        /\ (\A v \in Range(Shown(doc, only)) : Plain(v)) =>
                             \A k \in DOMAIN items : items[k].key = k - 1
  BY DEF OnePathComplete
<1>1. i \in 1 .. Len(Chain)
  BY AtTheEnd
<1> DEFINE only == PathsOf(ops[i])[1]
           items == projected[i].items
<1>2. /\ Values(items) = LeavesOf(only)
      /\ DOMAIN items = 1 .. Len(items) /\ Len(items) \in Nat
      /\ AllPlain(doc, only) => KeysFrom(items, 0)
  BY <1>1, OnePath
<1> HIDE DEF only, items
<1>3. KeysFrom(items, 0) => \A k \in DOMAIN items : items[k].key = k - 1
  BY <1>2 DEF KeysFrom
<1>4. (\A v \in Range(Shown(doc, only)) : Plain(v)) <=> AllPlain(doc, only)
  BY DEF AllPlain
<1> QED
  BY <1>2, <1>3, <1>4 DEF only, items

\* A $foundin has the values of all its paths, a repeated one's as often.
LEMMA FoundinHolds == ProjectionInv => FoundinUnion
<1> SUFFICES ASSUME ProjectionInv, Done, command.name # "$redact", NEW i \in DOMAIN projected,
                    InStep(PathsOf(ops[i]))
             PROVE  FoundinIs(projected[i].items, PathsOf(ops[i]))
  BY DEF FoundinUnion
<1> DEFINE paths == PathsOf(ops[i])
<1>1. FilledRight(doc, paths, projected[i].items) /\ DOMAIN paths = 1 .. Len(paths)
  BY AtTheEnd
<1>2. \A p : Loops(p) <=> LoopsIn(doc, p)
  BY DEF Loops, LoopsIn
<1>3. \A p : Counts(p) <=> CountsIn(doc, p)
  BY <1>2 DEF Counts, CountsIn
<1>4. Fine(doc, paths)
  <2> HIDE DEF paths
  <2> QED
    BY <1>2, <1>3 DEF Fine, InStep, paths
<1>5. Values(projected[i].items) = Gather(doc, paths, Len(paths))
  BY <1>1, <1>4 DEF FilledRight
<1>6. \A p : LeavesOf(p) = LeavesIn(doc, p)
  BY DEF LeavesOf, LeavesIn
<1> HIDE DEF paths
<1>7. [k \in DOMAIN paths |-> LeavesOf(paths[k])] = [k \in 1 .. Len(paths) |-> LeavesIn(doc, paths[k])]
  BY <1>1, <1>6
<1>8. Gather(doc, paths, Len(paths)) = FlattenSeq([k \in DOMAIN paths |-> LeavesOf(paths[k])])
  BY <1>7 DEF Gather
<1> QED
  BY <1>5, <1>8 DEF FoundinIs, paths

\* An unwind is about some value.
LEMMA UnwindHolds == ProjectionInv => UnwindIsSome
<1> SUFFICES ASSUME ProjectionInv, Done, command.name = "$unwind", Len(PathsOf(ops[1])) = 1,
                    query # NoQuery
             PROVE  result <=> \E v \in Range(LeavesOf(PathsOf(ops[1])[1])) : Matches(NameOf(ops[1]), v)
  BY DEF UnwindIsSome
<1>1. 1 \in 1 .. Len(Chain) /\ ops = Chain
  BY AtTheEnd
<1>2. result <=> \E k \in 1 .. Len(Elements) : MatchesIn(query, NameOf(Chain[1]), Elements[k].val)
  BY DEF ProjectionInv, DoneInv
<1> DEFINE leaves == LeavesOf(PathsOf(ops[1])[1])
<1>3. Values(Elements) = leaves /\ DOMAIN Elements = 1 .. Len(Elements)
  BY <1>1, OnePath DEF Elements
<1> HIDE DEF leaves
<1>4. Range(leaves) = {Elements[k].val : k \in 1 .. Len(Elements)}
  BY <1>3 DEF Values, Range
<1>5. \A v : Matches(NameOf(ops[1]), v) <=> MatchesIn(query, NameOf(Chain[1]), v)
  BY <1>1 DEF Matches, MatchesIn
<1>6. result <=> \E v \in Range(leaves) : Matches(NameOf(ops[1]), v)
  BY <1>2, <1>4, <1>5
<1> QED
  BY <1>6 DEF leaves

\* A redaction keeps what it does not name.
LEMMA RedactionHolds == ProjectionInv => RedactionKeeps
<1> SUFFICES ASSUME ProjectionInv, Done, command.name = "$redact" PROVE RedactionKeeps
  BY DEF RedactionKeeps
<1>1. RedactedRight(command, doc, projected, Len(doc))
  BY DEF ProjectionInv, DoneInv
<1>2. doc \in Items
  BY DocsAssumption DEF ProjectionInv
<1> DEFINE kept == KeptFields(command, doc)
<1>3. \A j \in kept : j <= Len(doc)
  <2>1. \A j \in DOMAIN doc : j <= Len(doc)
    BY <1>2, ItemsParts
  <2> QED
    BY <2>1 DEF KeptFields
<1>4. {j \in kept : j <= Len(doc)} = kept
  <2> HIDE DEF kept
  <2> QED
    BY <1>3
<1>5. Len(projected) = Cardinality(kept)
  BY <1>1, <1>4 DEF RedactedRight
<1>6. \A i \in kept : /\ projected[Cardinality({j \in kept : j <= i})].name = <<doc[i].key>>
                      /\ Values(projected[Cardinality({j \in kept : j <= i})].items) = Leaves[doc[i].val]
  BY <1>1, <1>3 DEF RedactedRight, Nth
<1>7. kept = {i \in DOMAIN doc : \A j \in DOMAIN Kept(command.parts[1].entries) :
                                   Kept(command.parts[1].entries)[j].key # <<doc[i].key>>}
  BY DEF KeptFields
<1> HIDE DEF kept
<1> QED
  BY <1>5, <1>6, <1>7 DEF RedactionKeeps

\* A $project alone is the one whose ops are used.
LEMMA OneProject ==
  ASSUME NEW c \in Commands, Accepted(c), Cardinality(PartsIn(c, "$project")) <= 1
  PROVE  StringsIn(c) = StringsOf(ChainOf(c))
<1> DEFINE S == PartsIn(c, "$project")
           p == ProjectIn(c)
           f(i) == StringsOf(ParseProjection(i, c.parts[i].entries))
<1>1. CASE c.name = "$unwind"
  <2>1. p \in S
    BY ProjectIs
  <2>2. IsFiniteSet(S)
    <3>1. Len(c.parts) \in Nat
      BY CommandsAssumption, InSeq
    <3>2. IsFiniteSet(1 .. Len(c.parts)) /\ S \subseteq 1 .. Len(c.parts)
      BY <3>1, FS_Interval, PartsAre
    <3> QED
      BY <3>2, FS_Subset
  <2> HIDE DEF S, p
  <2>3. S = {p}
    <3>1. IsFiniteSet(S \ {p}) /\ Cardinality(S \ {p}) = Cardinality(S) - 1 /\ Cardinality(S) \in Nat
      BY <2>1, <2>2, FS_RemoveElement, FS_CardinalityType
    <3>2. Cardinality(S) <= 1
      BY DEF S
    <3>3. Cardinality(S \ {p}) = 0
      <4>1. Cardinality(S \ {p}) \in Nat
        BY <3>1, FS_CardinalityType
      <4> QED
        BY <3>1, <3>2, <4>1
    <3>4. S \ {p} = {}
      BY <3>1, <3>3, FS_EmptySet
    <3> QED
      BY <2>1, <3>4
  <2>4. StringsIn(c) = UNION {f(i) : i \in S}
    BY <1>1 DEF StringsIn, S
  <2>5. StringsOf(ChainOf(c)) = f(p)
    BY <1>1 DEF ChainOf, EntriesIn, p
  <2> HIDE DEF f
  <2> QED
    BY <2>3, <2>4, <2>5
<1>2. CASE c.name # "$unwind"
  BY <1>2 DEF StringsIn
<1> QED
  BY <1>1, <1>2

\* No string is freed twice.
LEMMA FreedHolds == ProjectionInv => FreedOnce
<1> SUFFICES ASSUME ProjectionInv, at = "destroyed" PROVE FreedOnce
  BY DEF FreedOnce
<1>1. Done /\ Runs
  BY DEF Done, Runs
<1>2. /\ command \in Commands /\ Accepted(command) /\ strings = StringsIn(command)
      /\ freed = FlattenSeq([i \in DOMAIN Chain |-> FreeOf(Chain[i])])
  BY <1>1 DEF ProjectionInv, ParseInv, DoneInv
<1>3. IsInjective(freed) /\ Range(freed) = StringsOf(Chain)
  BY <1>2, ChainFreed DEF Chain
<1>4. Cardinality(PartsNamed("$project")) <= 1 => strings = StringsOf(Chain)
  <2>1. PartsNamed("$project") = PartsIn(command, "$project")
    BY DEF PartsNamed, PartsIn
  <2> QED
    BY <1>2, <2>1, OneProject DEF Chain
<1> QED
  BY <1>3, <1>4 DEF FreedOnce
-----------------------------------------------------------------------------
(***************************************************************************)
(* The properties, for every document and every command.                   *)
(***************************************************************************)
\* mongoc_matcher_projection_execute gives an entry with one path every value
\* that its path is shown, in order, under the keys 0, 1, ...
THEOREM OnePathIsComplete == Spec => []OnePathComplete
  BY ProjectionAlways, OnePathHolds, PTL

\* mongoc_matcher_projection_execute gives a $foundin of different paths the values
\* of all of them, as long as no loop starts from the counters of an earlier one.
THEOREM FoundinIsUnion == Spec => []FoundinUnion
  BY ProjectionAlways, FoundinHolds, PTL

\* _mongoc_matcher_op_unwind answers whether one of the values of its first
\* entry matches by itself.
THEOREM UnwindIsSomeElement == Spec => []UnwindIsSome
  BY ProjectionAlways, UnwindHolds, PTL

\* mongoc_matcher_redaction_execute keeps the fields that it does not name, as
\* they are, and no other.
THEOREM RedactionIsKept == Spec => []RedactionKeeps
  BY ProjectionAlways, RedactionHolds, PTL

\* _mongoc_matcher_op_destroy frees no string of a projection twice and leaves
\* none, unless the command has two $project parts.
THEOREM StringsFreedOnce == Spec => []FreedOnce
  BY ProjectionAlways, FreedHolds, PTL

\* A null pointer is followed, or an assertion fails, only for the commands that
\* CrashExplained names.
THEOREM CrashIsExplained == Spec => []CrashExplained
<1>1. ProjectionInv => CrashExplained
  BY DEF ProjectionInv
<1> QED
  BY <1>1, ProjectionAlways, PTL
=============================================================================
