------------------------------ MODULE Recursion ------------------------------
(***************************************************************************)
(* Induction and recursion without operators as parameters: a nonempty set *)
(* of numbers has a least one, and a function may be defined by recursion  *)
(* over data that nests finitely deep.  The proofs about clauses, values   *)
(* and paths rest on these two facts.  With them, what FlattenSeq of the    *)
(* community modules makes of a list of lists.                             *)
(***************************************************************************)
EXTENDS NaturalsInduction, WellFoundedInduction, SequenceTheorems, SequencesExt, TLAPS

Less == {p \in Nat \X Nat : p[1] < p[2]}

\* The order of the numbers is well founded.
LEMMA LessWellFounded == IsWellFoundedOn(Less, Nat)
  BY NatLessThanWellFounded DEF OpToRel, Less

\* A set of numbers that is not empty has a least one.
LEMMA Least ==
  ASSUME NEW T, T \subseteq Nat, T # {}
  PROVE  \E x \in T : \A y \in T : x <= y
<1>1. PICK x \in T : \A y \in T : ~ (<<y, x>> \in Less)
  BY LessWellFounded, WFMin
<1>2. \A y \in T : ~(y < x)
  BY <1>1 DEF Less
<1> QED
  BY <1>2

\* What a set of data has, if no datum is the first to lack it, all have.
LEMMA Shallowest ==
  ASSUME NEW C, NEW depth \in [C -> Nat], NEW P, P \subseteq C,
         \A c \in C : (\A k \in C : depth[k] < depth[c] => k \in P) => c \in P
  PROVE  P = C
<1> SUFFICES ASSUME P # C PROVE FALSE
  OBVIOUS
<1> DEFINE T == {depth[c] : c \in C \ P}
<1>1. T \subseteq Nat /\ T # {}
  OBVIOUS
<1>2. PICK x \in T : \A y \in T : x <= y
  BY <1>1, Least
<1>3. PICK c \in C \ P : x = depth[c]
  BY <1>2
<1>4. \A k \in C \ P : depth[c] <= depth[k] /\ depth[c] \in Nat /\ depth[k] \in Nat
  BY <1>2, <1>3
<1>5. \A k \in C : depth[k] < depth[c] => k \in P
  BY <1>4
<1> QED
  BY <1>3, <1>5

-----------------------------------------------------------------------------
(***************************************************************************)
(* C is the data, K[c] the parts of c that the value at c depends on, B[c] *)
(* the value at c, given the values at these parts.                        *)
(***************************************************************************)
Shallow(C, depth, n) == {c \in C : depth[c] < n}

\* f has the values of the recursion down to depth n.
Approx(C, T, depth, K, B, n, f) ==
  /\ f \in [Shallow(C, depth, n) -> T]
  /\ \A c \in Shallow(C, depth, n) : f[c] = B[c][[k \in K[c] |-> f[k]]]

\* What a recursion needs to be well founded.
Recursive(C, T, depth, K, B) ==
  /\ depth \in [C -> Nat]
  /\ K \in [C -> SUBSET C]
  /\ \A c \in C : \A k \in K[c] : depth[k] < depth[c]
  /\ \A c \in C : \A g \in [K[c] -> T] : B[c][g] \in T

\* Two approximations agree as far as both go.
LEMMA ApproxUnique ==
  ASSUME NEW C, NEW T, NEW depth, NEW K, NEW B, Recursive(C, T, depth, K, B),
         NEW m \in Nat, NEW n \in Nat, NEW f, NEW g,
         Approx(C, T, depth, K, B, m, f), Approx(C, T, depth, K, B, n, g)
  PROVE  \A c \in C : depth[c] < m /\ depth[c] < n => f[c] = g[c]
<1> DEFINE P == {c \in C : depth[c] < m /\ depth[c] < n => f[c] = g[c]}
<1>1. depth \in [C -> Nat] /\ P \subseteq C
  BY DEF Recursive
<1>2. ASSUME NEW c \in C, \A k \in C : depth[k] < depth[c] => k \in P
      PROVE  c \in P
  <2> SUFFICES ASSUME depth[c] < m, depth[c] < n PROVE f[c] = g[c]
    OBVIOUS
  <2>1. \A k \in K[c] : k \in C /\ depth[k] < depth[c] /\ depth[k] \in Nat /\ depth[c] \in Nat
    BY DEF Recursive
  <2>2. \A k \in K[c] : f[k] = g[k]
    BY <1>2, <2>1
  <2>3. [k \in K[c] |-> f[k]] = [k \in K[c] |-> g[k]]
    BY <2>2
  <2>4. c \in Shallow(C, depth, m) /\ c \in Shallow(C, depth, n)
    BY DEF Shallow
  <2>5. f[c] = B[c][[k \in K[c] |-> f[k]]] /\ g[c] = B[c][[k \in K[c] |-> g[k]]]
    BY <2>4 DEF Approx
  <2> QED
    BY <2>3, <2>5
<1> HIDE DEF P
<1>3. P = C
  BY <1>1, <1>2, Shallowest
<1> QED
  BY <1>3 DEF P

\* There is one down to any depth.
LEMMA ApproxExists ==
  ASSUME NEW C, NEW T, NEW depth, NEW K, NEW B, Recursive(C, T, depth, K, B)
  PROVE  \A n \in Nat : \E f : Approx(C, T, depth, K, B, n, f)
<1> DEFINE A(n, f) == Approx(C, T, depth, K, B, n, f)
           N == {n \in Nat : ~ \E f : A(n, f)}
<1> SUFFICES ASSUME N # {} PROVE FALSE
  OBVIOUS
<1>1. PICK n \in N : \A m \in N : n <= m
  <2>1. N \subseteq Nat
    OBVIOUS
  <2> HIDE DEF N
  <2> QED
    BY <2>1, Least
<1>2. n # 0
  <2> SUFFICES ASSUME n = 0 PROVE FALSE
    OBVIOUS
  <2>1. Shallow(C, depth, 0) = {}
    BY DEF Shallow, Recursive
  <2>2. A(0, [c \in {} |-> c])
    BY <2>1 DEF Approx
  <2> QED
    BY <1>1, <2>2
<1>3. n \in Nat /\ n - 1 \in Nat /\ n - 1 \notin N
  BY <1>1, <1>2
<1>4. PICK f : A(n - 1, f)
  BY <1>3
<1> DEFINE S == Shallow(C, depth, n)
           g == [c \in S |-> B[c][[k \in K[c] |-> f[k]]]]
<1>5. \A c \in S : K[c] \subseteq Shallow(C, depth, n - 1) /\ c \in C
  <2> SUFFICES ASSUME NEW c \in S, NEW k \in K[c] PROVE k \in Shallow(C, depth, n - 1)
    BY DEF Shallow
  <2>1. c \in C /\ k \in C /\ depth[c] \in Nat /\ depth[k] \in Nat /\ depth[k] < depth[c]
    BY DEF Shallow, Recursive
  <2>2. depth[c] < n
    BY DEF Shallow
  <2> QED
    BY <1>3, <2>1, <2>2 DEF Shallow
<1>6. \A c \in Shallow(C, depth, n - 1) : c \in S /\ f[c] = g[c]
  <2> SUFFICES ASSUME NEW c \in Shallow(C, depth, n - 1) PROVE c \in S /\ f[c] = g[c]
    OBVIOUS
  <2>1. c \in S
    BY <1>3 DEF Shallow, Recursive
  <2> QED
    BY <1>4, <2>1 DEF Approx
<1>7. ASSUME NEW c \in S PROVE g[c] = B[c][[k \in K[c] |-> g[k]]] /\ g[c] \in T
  <2>1. [k \in K[c] |-> f[k]] = [k \in K[c] |-> g[k]]
    BY <1>5, <1>6, <1>7
  <2>2. [k \in K[c] |-> f[k]] \in [K[c] -> T]
    BY <1>4, <1>5, <1>7 DEF Approx
  <2> QED
    BY <1>5, <2>1, <2>2 DEF Recursive
<1>8. A(n, g)
  BY <1>7 DEF Approx
<1> QED
  BY <1>1, <1>8

\* The function of a recursion exists.
LEMMA RecursionExists ==
  ASSUME NEW C, NEW T, NEW depth, NEW K, NEW B, Recursive(C, T, depth, K, B)
  PROVE  \E f \in [C -> T] : \A c \in C : f[c] = B[c][[k \in K[c] |-> f[k]]]
<1> DEFINE A(n, f) == Approx(C, T, depth, K, B, n, f)
           at(c) == CHOOSE f : A(depth[c] + 1, f)
           F == [c \in C |-> at(c)[c]]
<1>1. \A c \in C : depth[c] \in Nat /\ depth[c] + 1 \in Nat
  BY DEF Recursive
<1>2. \A c \in C : A(depth[c] + 1, at(c))
  <2>1. \A c \in C : \E f : A(depth[c] + 1, f)
    BY <1>1, ApproxExists
  <2> HIDE DEF A
  <2> QED
    BY <2>1
<1>3. ASSUME NEW c \in C PROVE F[c] \in T /\ F[c] = B[c][[k \in K[c] |-> F[k]]]
  <2>1. c \in Shallow(C, depth, depth[c] + 1)
    BY <1>1 DEF Shallow
  <2>2. at(c)[c] \in T /\ at(c)[c] = B[c][[k \in K[c] |-> at(c)[k]]]
    BY <1>2, <2>1 DEF Approx
  <2>3. ASSUME NEW k \in K[c] PROVE k \in C /\ at(c)[k] = at(k)[k]
    <3>1. k \in C /\ depth[k] < depth[c]
      BY <2>3 DEF Recursive
    <3>2. A(depth[c] + 1, at(c)) /\ A(depth[k] + 1, at(k))
      BY <1>2, <3>1
    <3>3. depth[k] < depth[c] + 1 /\ depth[k] < depth[k] + 1
      BY <1>1, <3>1
    <3> HIDE DEF at
    <3> QED
      BY <1>1, <3>1, <3>2, <3>3, ApproxUnique
  <2> HIDE DEF at
  <2>4. [k \in K[c] |-> at(c)[k]] = [k \in K[c] |-> F[k]]
    BY <2>3
  <2> QED
    BY <2>2, <2>4
<1>4. F \in [C -> T]
  BY <1>3
<1> QED
  BY <1>3, <1>4

\* B[c][f] says yes or no of c, and depends on what f says of the less deep data.
Deciding(C, depth, B) ==
  /\ depth \in [C -> Nat]
  /\ B \in [C -> [[C -> BOOLEAN] -> BOOLEAN]]
  /\ \A c \in C : \A f, g \in [C -> BOOLEAN] :
       (\A k \in C : depth[k] < depth[c] => f[k] = g[k]) => B[c][f] = B[c][g]

\* The predicate of such a recursion exists.
LEMMA PredicateExists ==
  ASSUME NEW C, NEW depth, NEW B, Deciding(C, depth, B)
  PROVE  \E f \in [C -> BOOLEAN] : \A c \in C : f[c] = B[c][f]
<1> DEFINE K == [c \in C |-> {k \in C : depth[k] < depth[c]}]
           All(c, g) == [k \in C |-> IF k \in K[c] THEN g[k] ELSE FALSE]
           A == [c \in C |-> [g \in [K[c] -> BOOLEAN] |-> B[c][All(c, g)]]]
<1> USE DEF Deciding
<1>1. \A c \in C : \A g \in [K[c] -> BOOLEAN] : All(c, g) \in [C -> BOOLEAN]
  OBVIOUS
<1>2. Recursive(C, BOOLEAN, depth, K, A)
  <2>1. \A c \in C : \A g \in [K[c] -> BOOLEAN] : A[c][g] \in BOOLEAN
    <3> SUFFICES ASSUME NEW c \in C, NEW g \in [K[c] -> BOOLEAN] PROVE A[c][g] \in BOOLEAN
      OBVIOUS
    <3>1. A[c][g] = B[c][All(c, g)]
      OBVIOUS
    <3>2. All(c, g) \in [C -> BOOLEAN]
      BY <1>1
    <3> HIDE DEF A, All
    <3> QED
      BY <3>1, <3>2
  <2> HIDE DEF A
  <2> QED
    BY <2>1 DEF Recursive
<1>3. PICK f \in [C -> BOOLEAN] : \A c \in C : f[c] = A[c][[k \in K[c] |-> f[k]]]
  <2> HIDE DEF K, A
  <2> QED
    BY <1>2, RecursionExists
<1>4. ASSUME NEW c \in C PROVE f[c] = B[c][f]
  <2> DEFINE g == [k \in K[c] |-> f[k]]
  <2>1. g \in [K[c] -> BOOLEAN]
    OBVIOUS
  <2>2. f[c] = A[c][g]
    BY <1>3
  <2>3. \A k \in C : depth[k] < depth[c] => All(c, g)[k] = f[k]
    OBVIOUS
  <2> HIDE DEF g
  <2>4. A[c][g] = B[c][All(c, g)] /\ All(c, g) \in [C -> BOOLEAN]
    BY <1>1, <2>1
  <2> HIDE DEF A, All
  <2> QED
    BY <2>2, <2>3, <2>4
<1> QED
  BY <1>4
-----------------------------------------------------------------------------
(***************************************************************************)
(* Lists.                                                                  *)
(***************************************************************************)
\* What is in a sequence.
LEMMA InSeq ==
  ASSUME NEW T, NEW s \in Seq(T)
  PROVE  Len(s) \in Nat /\ DOMAIN s = 1 .. Len(s) /\ \A i \in DOMAIN s : s[i] \in T
  OBVIOUS

\* Places of a list, from the first on.
LEMMA FromTheFirst ==
  ASSUME NEW n \in Nat, NEW P, P \subseteq 1 .. n,
         \A i \in 1 .. n : (i # 1 => i - 1 \in P) => i \in P
  PROVE  P = 1 .. n
<1> DEFINE C == 1 .. n
           depth == [i \in C |-> i]
<1>1. \A i \in C : (\A k \in C : depth[k] < depth[i] => k \in P) => i \in P
  <2> SUFFICES ASSUME NEW i \in C, \A k \in C : depth[k] < depth[i] => k \in P
               PROVE  i # 1 => i - 1 \in P
    OBVIOUS
  <2>1. i # 1 => i - 1 \in C /\ depth[i - 1] < depth[i]
    OBVIOUS
  <2> QED
    BY <2>1
<1>2. depth \in [C -> Nat] /\ P \subseteq C
  OBVIOUS
<1> HIDE DEF C, depth
<1>3. P = C
  BY <1>1, <1>2, Shallowest
<1> QED
  BY <1>3 DEF C

\* The recursion of FlattenSeq.
Flat(T, s, f) ==
  /\ f \in [1 .. Len(s) -> Seq(T)]
  /\ \A i \in 1 .. Len(s) : f[i] = IF i = 1 THEN s[i] ELSE f[i - 1] \o s[i]

\* FlattenSeq puts the sequences of a list one after the other.
LEMMA FlattenIs ==
  ASSUME NEW T, NEW s \in Seq(Seq(T)), s # << >>
  PROVE  \E f : Flat(T, s, f) /\ FlattenSeq(s) = f[Len(s)]
<1>0. Len(s) \in Nat \ {0} /\ \A i \in 1 .. Len(s) : s[i] \in Seq(T)
  BY InSeq
<1> DEFINE C == 1 .. Len(s)
           depth == [i \in C |-> i]
           K == [i \in C |-> IF i = 1 THEN {} ELSE {i - 1}]
           B == [i \in C |-> [g \in [K[i] -> Seq(T)] |->
                                IF i = 1 THEN s[i] ELSE g[i - 1] \o s[i]]]
<1>1. Recursive(C, Seq(T), depth, K, B)
  <2>1. depth \in [C -> Nat] /\ K \in [C -> SUBSET C]
    BY <1>0
  <2>2. \A i \in C : \A k \in K[i] : depth[k] < depth[i]
    BY <1>0
  <2>3. \A i \in C : \A g \in [K[i] -> Seq(T)] : B[i][g] \in Seq(T)
    <3> SUFFICES ASSUME NEW i \in C, NEW g \in [K[i] -> Seq(T)]
                 PROVE  (IF i = 1 THEN s[i] ELSE g[i - 1] \o s[i]) \in Seq(T)
      OBVIOUS
    <3>1. CASE i = 1
      BY <1>0, <3>1
    <3>2. CASE i # 1
      <4>1. g[i - 1] \in Seq(T)
        BY <3>2
      <4>2. s[i] \in Seq(T)
        BY <1>0
      <4> QED
        BY <3>2, <4>1, <4>2, ConcatProperties
    <3> QED
      BY <3>1, <3>2
  <2> HIDE DEF B, K, depth
  <2> QED
    BY <2>1, <2>2, <2>3 DEF Recursive
<1>2. PICK f \in [C -> Seq(T)] : \A i \in C : f[i] = B[i][[k \in K[i] |-> f[k]]]
  <2> HIDE DEF C, K, B, depth
  <2> QED
    BY <1>1, RecursionExists
<1>3. \A i \in C : f[i] = IF i = 1 THEN s[i] ELSE f[i - 1] \o s[i]
  <2> SUFFICES ASSUME NEW i \in C PROVE f[i] = IF i = 1 THEN s[i] ELSE f[i - 1] \o s[i]
    OBVIOUS
  <2> DEFINE g == [k \in K[i] |-> f[k]]
  <2>1. K[i] \subseteq C
    BY <1>0
  <2>2. g \in [K[i] -> Seq(T)]
    BY <2>1
  <2>3. i # 1 => g[i - 1] = f[i - 1]
    OBVIOUS
  <2>4. f[i] = B[i][g]
    BY <1>2
  <2> HIDE DEF g
  <2>5. B[i][g] = IF i = 1 THEN s[i] ELSE g[i - 1] \o s[i]
    BY <2>2
  <2> QED
    BY <2>3, <2>4, <2>5
<1>4. f = [i \in 1 .. Len(s) |-> IF i = 1 THEN s[i] ELSE f[i - 1] \o s[i]]
  BY <1>3
<1> DEFINE F == CHOOSE h : h = [i \in 1 .. Len(s) |-> IF i = 1 THEN s[i] ELSE h[i - 1] \o s[i]]
<1>5. F = [i \in 1 .. Len(s) |-> IF i = 1 THEN s[i] ELSE F[i - 1] \o s[i]]
  BY <1>4
<1>6. FlattenSeq(s) = F[Len(s)]
  BY <1>0 DEF FlattenSeq
<1> HIDE DEF F
<1>7. \A i \in 1 .. Len(s) : F[i] \in Seq(T)
  <2> DEFINE P == {i \in C : F[i] \in Seq(T)}
  <2>1. ASSUME NEW i \in C, i # 1 => i - 1 \in P PROVE i \in P
    <3>1. CASE i = 1
      BY <1>0, <1>5, <3>1
    <3>2. CASE i # 1
      <4>1. F[i - 1] \in Seq(T) /\ s[i] \in Seq(T)
        BY <1>0, <2>1, <3>2
      <4>2. F[i] = F[i - 1] \o s[i]
        BY <1>5, <3>2
      <4>3. F[i - 1] \o s[i] \in Seq(T)
        BY <4>1, ConcatProperties
      <4> QED
        BY <4>2, <4>3
    <3> QED
      BY <3>1, <3>2
  <2>2. \A i \in 1 .. Len(s) : (i # 1 => i - 1 \in P) => i \in P
    BY <2>1
  <2>3. P \subseteq 1 .. Len(s) /\ Len(s) \in Nat
    BY <1>0
  <2> HIDE DEF P, C, K, B, depth
  <2>4. P = 1 .. Len(s)
    BY <2>2, <2>3, FromTheFirst
  <2> QED
    BY <2>4 DEF P
<1>8. Flat(T, s, F)
  BY <1>5, <1>7 DEF Flat
<1> QED
  BY <1>6, <1>8

\* Concatenation is associative.  As a definition of its own it is kept from
\* being tried on every pair of sequences in sight.
Assoc(Q) == \A u, v, w \in Q : (u \o v) \o w = u \o (v \o w)

\* It is, over any set.
LEMMA SeqAssoc ==
  ASSUME NEW T
  PROVE  Assoc(Seq(T))
  BY ConcatAssociative DEF Assoc

\* Concatenation of sequences of one kind.
LEMMA Joined ==
  ASSUME NEW T, NEW x \in Seq(T), NEW y \in Seq(T), NEW z \in Seq(T)
  PROVE  /\ x \o y \in Seq(T)
         /\ (x \o y) \o z = x \o (y \o z)
         /\ x \o << >> = x /\ << >> \o x = x
<1>1. x \o y \in Seq(T) /\ x \o << >> = x /\ << >> \o x = x
  BY ConcatProperties, ConcatEmptySeq
<1>2. (x \o y) \o z = x \o (y \o z)
  BY SeqAssoc DEF Assoc
<1> QED
  BY <1>1, <1>2

\* A sequence put before the others comes first.
LEMMA FlattenCons ==
  ASSUME NEW T, NEW x \in Seq(T), NEW s \in Seq(Seq(T))
  PROVE  /\ FlattenSeq(<<x>> \o s) = x \o FlattenSeq(s)
         /\ FlattenSeq(s) \in Seq(T)
         /\ FlattenSeq(<< >>) = << >>
<1>e. FlattenSeq(<< >>) = << >>
  BY DEF FlattenSeq
<1> DEFINE t == <<x>> \o s
<1>1. /\ t \in Seq(Seq(T)) /\ t # << >> /\ Len(t) = Len(s) + 1 /\ Len(s) \in Nat
      /\ t[1] = x /\ \A i \in 1 .. Len(s) : t[i + 1] = s[i]
  <2>1. <<x>> \in Seq(Seq(T)) /\ Len(<<x>>) = 1
    OBVIOUS
  <2>2. /\ t \in Seq(Seq(T)) /\ Len(t) = 1 + Len(s)
        /\ \A i \in 1 .. 1 + Len(s) : t[i] = IF i <= 1 THEN <<x>>[i] ELSE s[i - 1]
    BY <2>1, ConcatProperties
  <2>3. Len(s) \in Nat
    OBVIOUS
  <2> HIDE DEF t
  <2>4. t # << >> /\ t[1] = x
    BY <2>2, <2>3
  <2>5. ASSUME NEW i \in 1 .. Len(s) PROVE t[i + 1] = s[i]
    <3>1. i + 1 \in 1 .. 1 + Len(s) /\ ~(i + 1 <= 1) /\ (i + 1) - 1 = i
      BY <2>3
    <3> QED
      BY <2>2, <3>1
  <2> QED
    BY <2>2, <2>3, <2>4, <2>5
<1> HIDE DEF t
<1>2. PICK g : Flat(T, t, g) /\ FlattenSeq(t) = g[Len(t)]
  BY <1>1, FlattenIs
<1>3. CASE s = << >>
  <2>1. Len(t) = 1 /\ g[1] = x
    BY <1>1, <1>2, <1>3 DEF Flat
  <2>2. FlattenSeq(t) = x /\ FlattenSeq(s) = << >> /\ << >> \in Seq(T)
    BY <1>2, <1>3, <1>e, <2>1
  <2> QED
    BY <1>e, <1>3, <2>2, Joined DEF t
<1>4. CASE s # << >>
  <2>1. PICK f : Flat(T, s, f) /\ FlattenSeq(s) = f[Len(s)]
    BY <1>4, FlattenIs
  <2> DEFINE P == {i \in 1 .. Len(s) : g[i + 1] = x \o f[i]}
  <2>2. ASSUME NEW i \in 1 .. Len(s), i # 1 => i - 1 \in P PROVE i \in P
    <3>1. i + 1 \in 1 .. Len(t) /\ i + 1 # 1 /\ (i + 1) - 1 = i
      BY <1>1
    <3>2. g[i + 1] = g[i] \o s[i]
      BY <1>1, <1>2, <3>1 DEF Flat
    <3>3. s[i] \in Seq(T)
      BY InSeq
    <3>4. CASE i = 1
      <4>1. g[1] = x
        BY <1>1, <1>2 DEF Flat
      <4>2. f[1] = s[1]
        BY <2>1, <3>4 DEF Flat
      <4>3. g[i + 1] = x \o f[i]
        BY <3>2, <3>4, <4>1, <4>2
      <4> QED
        BY <4>3
    <3>5. CASE i # 1
      <4>1. i - 1 \in 1 .. Len(s) /\ (i - 1) + 1 = i
        BY <1>1, <3>5
      <4>2. g[(i - 1) + 1] = x \o f[i - 1]
        BY <2>2, <3>5
      <4>3. f[i] = f[i - 1] \o s[i] /\ f[i - 1] \in Seq(T)
        BY <2>1, <3>5, <4>1 DEF Flat
      <4>4. (x \o f[i - 1]) \o s[i] = x \o (f[i - 1] \o s[i])
        <5>1. Assoc(Seq(T))
          BY SeqAssoc
        <5> QED
          BY <3>3, <4>3, <5>1 DEF Assoc
      <4>5. g[i] = x \o f[i - 1]
        BY <4>1, <4>2
      <4>6. g[i + 1] = x \o f[i]
        BY <3>2, <4>3, <4>4, <4>5
      <4> QED
        BY <4>6
    <3> QED
      BY <3>4, <3>5
  <2>3. /\ \A i \in 1 .. Len(s) : (i # 1 => i - 1 \in P) => i \in P
        /\ P \subseteq 1 .. Len(s) /\ Len(s) \in Nat /\ Len(s) \in 1 .. Len(s)
    <3>1. Len(s) \in Nat \ {0} /\ P \subseteq 1 .. Len(s)
      BY <1>1, <1>4
    <3>2. \A i \in 1 .. Len(s) : (i # 1 => i - 1 \in P) => i \in P
      BY <2>2
    <3> HIDE DEF P
    <3> QED
      BY <3>1, <3>2
  <2>4. P = 1 .. Len(s)
    <3> HIDE DEF P
    <3> QED
      BY <2>3, FromTheFirst
  <2>5. g[Len(s) + 1] = x \o f[Len(s)] /\ f[Len(s)] \in Seq(T)
    BY <2>1, <2>3, <2>4 DEF Flat
  <2> QED
    BY <1>1, <1>2, <1>e, <2>1, <2>5 DEF t
<1> QED
  BY <1>3, <1>4
=============================================================================
