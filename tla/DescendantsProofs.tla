--------------------------- MODULE DescendantsProofs ---------------------------
(***************************************************************************)
(* Proofs about the search of PathSearch and the loop of Descendants, for  *)
(* every set of values, every document and every path.                     *)
(***************************************************************************)
EXTENDS Descendants, Recursion, SequenceTheorems

\* A path of more than one key goes on.
LEMMA PathParts ==
  ASSUME NEW keys \in DottedPath
  PROVE  /\ Len(keys) \in Nat \ {0}
         /\ \A i \in 1 .. Len(keys) : keys[i] \in Keys \cup {"$any"}
         /\ keys[1] \in Keys \cup {"$any"}
         /\ Len(keys) # 1 => /\ Tail(keys) \in DottedPath
                             /\ Len(Tail(keys)) = Len(keys) - 1
                             /\ \A i \in 1 .. Len(keys) - 1 : Tail(keys)[i] = keys[i + 1]
<1>1. keys \in Seq(Keys \cup {"$any"}) /\ keys # << >>
  BY DEF DottedPath
<1>2. Len(keys) \in Nat \ {0}
  BY <1>1
<1>3. \A i \in 1 .. Len(keys) : keys[i] \in Keys \cup {"$any"}
  BY <1>1
<1>4. ASSUME Len(keys) # 1
      PROVE  /\ Tail(keys) \in DottedPath
             /\ Len(Tail(keys)) = Len(keys) - 1
             /\ \A i \in 1 .. Len(keys) - 1 : Tail(keys)[i] = keys[i + 1]
  <2>1. /\ Tail(keys) \in Seq(Keys \cup {"$any"}) /\ Len(Tail(keys)) = Len(keys) - 1
        /\ \A i \in 1 .. Len(keys) - 1 : Tail(keys)[i] = keys[i + 1]
    BY <1>1, <1>2
  <2>2. Tail(keys) # << >>
    <3> DEFINE t == Tail(keys)
    <3>1. Len(t) # 0
      BY <1>2, <1>4, <2>1
    <3>2. Len(<< >>) = 0
      OBVIOUS
    <3> HIDE DEF t
    <3>3. t # << >>
      BY <3>1, <3>2
    <3> QED
      BY <3>3 DEF t
  <2> QED
    BY <2>1, <2>2 DEF DottedPath
<1> QED
  BY <1>2, <1>3, <1>4

\* The items of a list and the values in them.
LEMMA ItemsParts ==
  ASSUME NEW items \in Items
  PROVE  /\ Len(items) \in Nat /\ DOMAIN items = 1 .. Len(items)
         /\ \A i \in DOMAIN items : /\ items[i].key \in Keys
                                    /\ items[i].val \in Value
                                    /\ Container(items[i].val) => items[i].val.items \in Items
<1>1. /\ Len(items) \in Nat /\ DOMAIN items = 1 .. Len(items)
      /\ \A i \in DOMAIN items : items[i] \in [key : Keys, val : Value]
  <2> DEFINE T == [key : Keys, val : Value]
  <2>1. items \in Seq(T)
    BY DEF Items
  <2> HIDE DEF T
  <2>2. Len(items) \in Nat /\ DOMAIN items = 1 .. Len(items) /\ \A i \in DOMAIN items : items[i] \in T
    BY <2>1, InSeq
  <2> QED
    BY <2>2 DEF T
<1> QED
  BY <1>1, ValueAssumption

-----------------------------------------------------------------------------
(***************************************************************************)
(* The recursions, unfolded once.                                          *)
(***************************************************************************)
\* A recursion over the places of a list, from its end, exists.
CountStep(T, n, base, step) ==
  n \in Nat /\ base \in T /\ step \in [1 .. n -> [T -> T]]

CountsDown(T, n, base, step, f) ==
  /\ f \in [1 .. n + 1 -> T]
  /\ f[n + 1] = base
  /\ \A k \in 1 .. n : f[k] = step[k][f[k + 1]]

\* A definition by counting down defines a function.
LEMMA Countdown ==
  ASSUME NEW T, NEW n, NEW base, NEW step, CountStep(T, n, base, step)
  PROVE  \E f : CountsDown(T, n, base, step, f)
<1> USE DEF CountStep
<1> DEFINE C == 1 .. n + 1
           depth == [k \in C |-> n + 1 - k]
           K == [k \in C |-> IF k = n + 1 THEN {} ELSE {k + 1}]
           B == [k \in C |-> [g \in [K[k] -> T] |-> IF k = n + 1 THEN base ELSE step[k][g[k + 1]]]]
<1>1. Recursive(C, T, depth, K, B)
  <2>1. depth \in [C -> Nat] /\ K \in [C -> SUBSET C]
    OBVIOUS
  <2>2. \A k \in C : \A j \in K[k] : depth[j] < depth[k]
    OBVIOUS
  <2>3. ASSUME NEW k \in C, NEW g \in [K[k] -> T] PROVE B[k][g] \in T
    <3>1. CASE k = n + 1
      BY <2>3, <3>1
    <3>2. CASE k # n + 1
      <4>1. k \in 1 .. n /\ g[k + 1] \in T
        BY <2>3, <3>2
      <4> QED
        BY <2>3, <3>2, <4>1
    <3> QED
      BY <3>1, <3>2
  <2> HIDE DEF B, K, depth, C
  <2> QED
    BY <2>1, <2>2, <2>3 DEF Recursive
<1>2. PICK f \in [C -> T] : \A k \in C : f[k] = B[k][[j \in K[k] |-> f[j]]]
  <2> HIDE DEF C, K, B, depth
  <2> QED
    BY <1>1, RecursionExists
<1>3. ASSUME NEW k \in C PROVE f[k] = IF k = n + 1 THEN base ELSE step[k][f[k + 1]]
  <2> DEFINE g == [j \in K[k] |-> f[j]]
  <2>1. K[k] \subseteq C
    BY <1>3
  <2>5. f[k] = B[k][g]
    BY <1>2, <1>3
  <2>4. g \in [K[k] -> T]
    BY <2>1
  <2>2. k # n + 1 => g[k + 1] = f[k + 1]
    OBVIOUS
  <2> HIDE DEF g
  <2>3. B[k][g] = IF k = n + 1 THEN base ELSE step[k][g[k + 1]]
    BY <1>3, <2>4
  <2> QED
    BY <2>5, <2>2, <2>3
<1>4. f[n + 1] = base
  BY <1>3
<1>5. \A k \in 1 .. n : f[k] = step[k][f[k + 1]]
  BY <1>3
<1> QED
  BY <1>4, <1>5 DEF CountsDown

\* A recursion over the keys of a path exists.
PathStep(T, base, step) ==
  base \in [DottedPath -> T] /\ step \in [DottedPath -> [T -> T]]

OverPaths(T, base, step, f) ==
  /\ f \in [DottedPath -> T]
  /\ \A keys \in DottedPath :
       f[keys] = IF Len(keys) = 1 THEN base[keys] ELSE step[keys][f[Tail(keys)]]

\* A definition over the length of a path defines a function.
LEMMA PathRecursion ==
  ASSUME NEW T, NEW base, NEW step, PathStep(T, base, step)
  PROVE  \E f : OverPaths(T, base, step, f)
<1> USE DEF PathStep
<1> DEFINE C == DottedPath
           depth == [keys \in C |-> Len(keys)]
           K == [keys \in C |-> IF Len(keys) = 1 THEN {} ELSE {Tail(keys)}]
           B == [keys \in C |-> [g \in [K[keys] -> T] |->
                   IF Len(keys) = 1 THEN base[keys] ELSE step[keys][g[Tail(keys)]]]]
<1>1. Recursive(C, T, depth, K, B)
  <2>1. depth \in [C -> Nat] /\ K \in [C -> SUBSET C]
    BY PathParts
  <2>2. ASSUME NEW keys \in C, NEW j \in K[keys] PROVE depth[j] < depth[keys]
    <3>1. Len(keys) # 1 /\ j = Tail(keys)
      BY <2>2
    <3>2. j \in C /\ Len(j) = Len(keys) - 1 /\ Len(keys) \in Nat
      BY <3>1, PathParts
    <3> QED
      BY <3>2
  <2>3. ASSUME NEW keys \in C, NEW g \in [K[keys] -> T] PROVE B[keys][g] \in T
    <3>1. CASE Len(keys) = 1
      BY <2>3, <3>1
    <3>2. CASE Len(keys) # 1
      <4>1. g[Tail(keys)] \in T
        BY <2>3, <3>2
      <4> QED
        BY <2>3, <3>2, <4>1
    <3> QED
      BY <3>1, <3>2
  <2> HIDE DEF B, K, depth, C
  <2> QED
    BY <2>1, <2>2, <2>3 DEF Recursive
<1>2. PICK f \in [C -> T] : \A c \in C : f[c] = B[c][[j \in K[c] |-> f[j]]]
  <2> HIDE DEF C, K, B, depth
  <2> QED
    BY <1>1, RecursionExists
<1>3. ASSUME NEW keys \in C
      PROVE  f[keys] = IF Len(keys) = 1 THEN base[keys] ELSE step[keys][f[Tail(keys)]]
  <2> DEFINE g == [j \in K[keys] |-> f[j]]
  <2>1. K[keys] \subseteq C /\ f[keys] = B[keys][g]
    BY <1>2, <1>3, PathParts
  <2>4. g \in [K[keys] -> T]
    BY <2>1
  <2>2. Len(keys) # 1 => g[Tail(keys)] = f[Tail(keys)]
    BY <1>3
  <2> HIDE DEF g
  <2>3. B[keys][g] = IF Len(keys) = 1 THEN base[keys] ELSE step[keys][g[Tail(keys)]]
    BY <1>3, <2>4
  <2> QED
    BY <2>1, <2>2, <2>3
<1> QED
  BY <1>3 DEF OverPaths

\* What holds of a path if it holds of the path after its first key holds of all.
LEMMA PathInduction ==
  ASSUME NEW P, P \subseteq DottedPath,
         \A keys \in DottedPath : (Len(keys) # 1 => Tail(keys) \in P) => keys \in P
  PROVE  P = DottedPath
<1> DEFINE C == DottedPath
           depth == [keys \in C |-> Len(keys)]
<1>1. depth \in [C -> Nat]
  BY PathParts
<1>2. ASSUME NEW keys \in C, \A k \in C : depth[k] < depth[keys] => k \in P PROVE keys \in P
  <2>1. Len(keys) # 1 => Tail(keys) \in C /\ depth[Tail(keys)] < depth[keys]
    BY PathParts
  <2> QED
    BY <1>2, <2>1
<1> HIDE DEF depth
<1> QED
  BY <1>1, <1>2, Shallowest

\* What holds at a place of a list if it holds at the next holds from the first.
LEMMA FromTheEnd ==
  ASSUME NEW n \in Nat, NEW P, P \subseteq 1 .. n + 1,
         \A k \in 1 .. n + 1 : (k # n + 1 => k + 1 \in P) => k \in P
  PROVE  P = 1 .. n + 1
<1> DEFINE C == 1 .. n + 1
           depth == [k \in C |-> n + 1 - k]
<1>1. depth \in [C -> Nat]
  OBVIOUS
<1>2. \A k \in C : (\A j \in C : depth[j] < depth[k] => j \in P) => k \in P
  <2> SUFFICES ASSUME NEW k \in C, \A j \in C : depth[j] < depth[k] => j \in P PROVE k \in P
    OBVIOUS
  <2>1. k # n + 1 => k \in 1 .. n /\ k + 1 \in C /\ depth[k + 1] < depth[k]
    OBVIOUS
  <2> QED
    BY <2>1
<1>3. depth \in [C -> Nat] /\ P \subseteq C
  BY <1>1
<1> HIDE DEF depth, C
<1>4. P = C
  BY <1>2, <1>3, Shallowest
<1> QED
  BY <1>4 DEF C

Searches == [Items -> [Nat -> Results]]

\* The results of the search are results.
LEMMA ResultsParts ==
  /\ \A r \in Results : r.found \in BOOLEAN /\ r.skip \in Nat /\ r.place \in Seq(Nat)
  /\ \A s \in Nat : /\ NotFound(s) \in Results
                    /\ ~NotFound(s).found /\ NotFound(s).skip = s
  /\ \A r \in Results, i \in Nat : /\ Under(i, r) \in Results
                                   /\ Under(i, r).found = r.found
                                   /\ Under(i, r).skip = r.skip
                                   /\ Under(i, r).place = <<i>> \o r.place
  /\ \A s \in Nat, p \in Seq(Nat) : /\ Result(TRUE, s, p) \in Results
                                    /\ Result(TRUE, s, p).found
                                    /\ Result(TRUE, s, p).skip = s
                                    /\ Result(TRUE, s, p).place = p
<1>1. << >> \in Seq(Nat) /\ \A i \in Nat, p \in Seq(Nat) : <<i>> \o p \in Seq(Nat)
  OBVIOUS
<1>2. \A r \in Results : r.found \in BOOLEAN /\ r.skip \in Nat /\ r.place \in Seq(Nat)
  BY DEF Results
<1> QED
  BY <1>1, <1>2 DEF Results, NotFound, Under, Result

\* What one more element of an array makes of the last result.
ElementStep(search, items, k, next, last) ==
  LET sub == search[items[k].val.items][last.skip]
  IN  IF ~Container(items[k].val) THEN next[last]
      ELSE IF sub.found /\ sub.skip = 0 THEN Under(k, sub)
      ELSE next[NotFound(IF sub.found THEN sub.skip - 1 ELSE sub.skip)]

ElementsFrom(search, items, from) ==
  /\ from \in [1 .. Len(items) + 1 -> [Results -> Results]]
  /\ InSubDocuments(search, items) = from[1]
  /\ \A last \in Results : from[Len(items) + 1][last] = last
  /\ \A k \in 1 .. Len(items) : \A last \in Results :
       from[k][last] = ElementStep(search, items, k, from[k + 1], last)

\* One element gives a result.
LEMMA ElementStepType ==
  ASSUME NEW search \in Searches, NEW items \in Items, NEW k \in 1 .. Len(items),
         NEW next \in [Results -> Results], NEW last \in Results
  PROVE  /\ ElementStep(search, items, k, next, last) \in Results
         /\ Container(items[k].val) => search[items[k].val.items][last.skip] \in Results
<1> DEFINE sub == search[items[k].val.items][last.skip]
<1>1. CASE ~Container(items[k].val)
  BY <1>1 DEF ElementStep
<1>2. CASE Container(items[k].val)
  <2>1. items[k].val.items \in Items
    BY <1>2, ItemsParts
  <2>2. last.skip \in Nat
    BY ResultsParts
  <2>3. sub \in Results
    BY <2>1, <2>2 DEF Searches
  <2> HIDE DEF sub
  <2>4. sub.found \in BOOLEAN /\ sub.skip \in Nat /\ Under(k, sub) \in Results
    <3>1. k \in Nat
      BY ItemsParts
    <3> QED
      BY <2>3, <3>1, ResultsParts
  <2>5. ASSUME ~(sub.found /\ sub.skip = 0)
        PROVE  NotFound(IF sub.found THEN sub.skip - 1 ELSE sub.skip) \in Results
    <3>1. (IF sub.found THEN sub.skip - 1 ELSE sub.skip) \in Nat
      BY <2>4, <2>5
    <3> QED
      BY <3>1, ResultsParts
  <2>6. ElementStep(search, items, k, next, last)
          = IF sub.found /\ sub.skip = 0 THEN Under(k, sub)
            ELSE next[NotFound(IF sub.found THEN sub.skip - 1 ELSE sub.skip)]
    BY <1>2 DEF ElementStep, sub
  <2>7. CASE sub.found /\ sub.skip = 0
    BY <2>3, <2>4, <2>6, <2>7 DEF sub
  <2>8. CASE ~(sub.found /\ sub.skip = 0)
    BY <2>3, <2>5, <2>6, <2>8 DEF sub
  <2> QED
    BY <2>7, <2>8
<1> QED
  BY <1>1, <1>2

\* The loop over the elements, from each of them on, is a function.
LEMMA ElementsUnfold ==
  ASSUME NEW search \in Searches, NEW items \in Items
  PROVE  \E from : ElementsFrom(search, items, from)
<1> DEFINE n == Len(items)
           T == [Results -> Results]
           base == [last \in Results |-> last]
           step == [k \in 1 .. n |-> [g \in T |->
                      [last \in Results |-> ElementStep(search, items, k, g, last)]]]
<1>1. n \in Nat
  BY ItemsParts
<1>2. base \in T
  OBVIOUS
<1>3. step \in [1 .. n -> [T -> T]]
  BY ElementStepType
<1>a. PICK f : CountsDown(T, n, base, step, f)
  <2> HIDE DEF n, T, base, step
  <2>1. CountStep(T, n, base, step)
    BY <1>1, <1>2, <1>3 DEF CountStep
  <2> QED
    BY <2>1, Countdown
<1>4. /\ f \in [1 .. n + 1 -> T]
      /\ f[n + 1] = base
      /\ \A k \in 1 .. n : f[k] = step[k][f[k + 1]]
  BY <1>a DEF CountsDown
<1> DEFINE Body(h, k, last) ==
             LET sub == search[items[k].val.items][last.skip]
             IN  IF k = Len(items) + 1 THEN last
                 ELSE IF ~Container(items[k].val) THEN h[k + 1][last]
                 ELSE IF sub.found /\ sub.skip = 0 THEN Under(k, sub)
                 ELSE h[k + 1][NotFound(IF sub.found THEN sub.skip - 1 ELSE sub.skip)]
           Eqn(h) == h = [k \in 1 .. Len(items) + 1 |-> [last \in Results |-> Body(h, k, last)]]
           F == CHOOSE h : Eqn(h)
<1>5. InSubDocuments(search, items) = F[1]
  BY DEF InSubDocuments
<1>6. \A h : \A k \in 1 .. n : \A last \in Results :
         Body(h, k, last) = ElementStep(search, items, k, h[k + 1], last)
  <2> TAKE h
  <2> TAKE k \in 1 .. n
  <2> TAKE last \in Results
  <2>1. k # Len(items) + 1
    BY <1>1
  <2> QED
    BY <2>1 DEF ElementStep
<1>7. \A h : \A last \in Results : Body(h, n + 1, last) = last
  OBVIOUS
<1> HIDE DEF Body
<1>8. Eqn(f)
  <2> DEFINE e == [k \in 1 .. Len(items) + 1 |-> [last \in Results |-> Body(f, k, last)]]
  <2>1. ASSUME NEW k \in 1 .. n + 1 PROVE f[k] = e[k]
    <3>1. CASE k = n + 1
      <4>1. e[k] = [last \in Results |-> Body(f, n + 1, last)]
        BY <2>1, <3>1
      <4>2. e[k] = base
        BY <1>7, <4>1
      <4> QED
        BY <1>4, <3>1, <4>2
    <3>2. CASE k # n + 1
      <4>1. k \in 1 .. n /\ k + 1 \in 1 .. n + 1
        BY <1>1, <2>1, <3>2
      <4>2. f[k] = [last \in Results |-> ElementStep(search, items, k, f[k + 1], last)]
        BY <1>4, <4>1
      <4>3. e[k] = [last \in Results |-> Body(f, k, last)]
        BY <2>1
      <4> QED
        BY <1>6, <4>1, <4>2, <4>3
    <3> QED
      BY <3>1, <3>2
  <2>2. e = [k \in 1 .. n + 1 |-> e[k]]
    OBVIOUS
  <2> HIDE DEF e
  <2>3. f = e
    BY <1>4, <2>1, <2>2
  <2> QED
    BY <2>3 DEF e
<1>9. Eqn(F)
  <2> HIDE DEF Eqn
  <2> QED
    BY <1>8
<1> HIDE DEF F
<1>10. F = [k \in 1 .. Len(items) + 1 |-> [last \in Results |-> Body(F, k, last)]]
  BY <1>9
<1>11. F[n + 1] = base
  <2>1. n + 1 \in 1 .. Len(items) + 1
    BY <1>1
  <2>2. F[n + 1] = [last \in Results |-> Body(F, n + 1, last)]
    BY <1>10, <2>1
  <2> QED
    BY <1>7, <2>2
<1>12. ASSUME NEW k \in 1 .. n
       PROVE  F[k] = [last \in Results |-> ElementStep(search, items, k, F[k + 1], last)]
  <2>1. k \in 1 .. Len(items) + 1
    BY <1>1
  <2>2. F[k] = [last \in Results |-> Body(F, k, last)]
    BY <1>10, <2>1
  <2> QED
    BY <1>6, <2>2
<1>13. ASSUME NEW k \in 1 .. n
       PROVE  f[k] = [last \in Results |-> ElementStep(search, items, k, f[k + 1], last)]
  <2>3. k + 1 \in 1 .. n + 1
    BY <1>1
  <2>1. f[k] = step[k][f[k + 1]] /\ f[k + 1] \in T
    <3> HIDE DEF T, step, base, n
    <3> QED
      BY <1>4, <2>3
  <2>2. \A g \in T : step[k][g] = [last \in Results |-> ElementStep(search, items, k, g, last)]
    OBVIOUS
  <2> HIDE DEF step
  <2> QED
    BY <2>1, <2>2
<1> DEFINE P == {k \in 1 .. n + 1 : F[k] = f[k]}
<1>14. \A k \in 1 .. n + 1 : (k # n + 1 => k + 1 \in P) => k \in P
  <2> SUFFICES ASSUME NEW k \in 1 .. n + 1, k # n + 1 => k + 1 \in P
               PROVE  F[k] = f[k]
    OBVIOUS
  <2>1. CASE k = n + 1
    BY <1>4, <1>11, <2>1
  <2>2. CASE k # n + 1
    <3>1. k \in 1 .. n /\ F[k + 1] = f[k + 1]
      BY <1>1, <2>2
    <3> QED
      BY <1>12, <1>13, <3>1
  <2> QED
    BY <2>1, <2>2
<1>15. P = 1 .. n + 1
  <2>1. P \subseteq 1 .. n + 1
    OBVIOUS
  <2> HIDE DEF P, n
  <2> QED
    BY <1>1, <1>14, <2>1, FromTheEnd
<1>16. \A k \in 1 .. n + 1 : F[k] = f[k]
  BY <1>15
<1>17. F = f
  <2>1. F = [k \in 1 .. n + 1 |-> F[k]]
    BY <1>10
  <2> QED
    BY <1>4, <1>16, <2>1
<1>18. \A last \in Results : f[n + 1][last] = last
  BY <1>4
<1>19. \A k \in 1 .. n : \A last \in Results :
          f[k][last] = ElementStep(search, items, k, f[k + 1], last)
  BY <1>13
<1>20. f \in [1 .. n + 1 -> T] /\ InSubDocuments(search, items) = f[1]
  BY <1>4, <1>5, <1>17
<1> HIDE DEF step, base, Eqn
<1> QED
  BY <1>18, <1>19, <1>20 DEF ElementsFrom
\* What one more item makes of the skip, when there are keys after the one that
\* may name it.
ItemStep(search, key, items, k, next, s) ==
  LET val == items[k].val
      sub == search[val.items][s]
  IN  IF k \notin Named(key, items) THEN next[s]
      ELSE IF ~Container(val) THEN NotFound(s)
      ELSE IF sub.found /\ sub.skip > 0
           THEN IF val.type = "doc" /\ \A j \in Named(key, items) : j <= k
                THEN NotFound(sub.skip)
                ELSE next[sub.skip - 1]
      ELSE IF val.type = "doc" THEN Under(k, sub)
      ELSE Under(k, InSubDocuments(search, val.items)[sub])

ItemsFrom(search, key, items, from) ==
  /\ from \in [1 .. Len(items) + 1 -> [Nat -> Results]]
  /\ InItems(search, key, items) = from[1]
  /\ \A s \in Nat : from[Len(items) + 1][s] = NotFound(s)
  /\ \A k \in 1 .. Len(items) : \A s \in Nat :
       from[k][s] = ItemStep(search, key, items, k, from[k + 1], s)

\* The loop over the elements of an array returns a result.
LEMMA ElementsType ==
  ASSUME NEW search \in Searches, NEW items \in Items
  PROVE  InSubDocuments(search, items) \in [Results -> Results]
<1>1. PICK from : ElementsFrom(search, items, from)
  BY ElementsUnfold
<1>2. 1 \in 1 .. Len(items) + 1
  BY ItemsParts
<1> QED
  BY <1>1, <1>2 DEF ElementsFrom

\* One item gives a result.
LEMMA ItemStepType ==
  ASSUME NEW search \in Searches, NEW items \in Items, NEW key, NEW k \in 1 .. Len(items),
         NEW next \in [Nat -> Results], NEW s \in Nat
  PROVE  /\ ItemStep(search, key, items, k, next, s) \in Results
         /\ Container(items[k].val) => search[items[k].val.items][s] \in Results
<1> DEFINE val == items[k].val
           sub == search[val.items][s]
<1>1. CASE ~Container(val)
  BY <1>1, ResultsParts DEF ItemStep
<1>2. CASE Container(val)
  <2>1. val.items \in Items /\ k \in Nat
    BY <1>2, ItemsParts
  <2>2. sub \in Results
    BY <2>1 DEF Searches
  <2>3. InSubDocuments(search, val.items)[sub] \in Results
    BY <2>1, <2>2, ElementsType
  <2> DEFINE arr == InSubDocuments(search, val.items)[sub]
             v == val
  <2>4. ItemStep(search, key, items, k, next, s)
          = IF k \notin Named(key, items) THEN next[s]
            ELSE IF sub.found /\ sub.skip > 0
                 THEN IF v.type = "doc" /\ \A j \in Named(key, items) : j <= k
                      THEN NotFound(sub.skip)
                      ELSE next[sub.skip - 1]
            ELSE IF v.type = "doc" THEN Under(k, sub)
            ELSE Under(k, arr)
    BY <1>2 DEF ItemStep
  <2> HIDE DEF sub, arr, v
  <2>5. sub.skip \in Nat /\ Under(k, sub) \in Results /\ Under(k, arr) \in Results
    BY <2>1, <2>2, <2>3, ResultsParts DEF arr
  <2>6. NotFound(sub.skip) \in Results /\ next[s] \in Results
    BY <2>5, ResultsParts
  <2>7. sub.skip > 0 => next[sub.skip - 1] \in Results
    BY <2>5
  <2>8. ItemStep(search, key, items, k, next, s) \in Results
    BY <2>4, <2>5, <2>6, <2>7
  <2> QED
    BY <2>2, <2>8 DEF sub, v
<1> QED
  BY <1>1, <1>2

\* The loop over the items, from each of them on, is a function.
LEMMA ItemsUnfold ==
  ASSUME NEW search \in Searches, NEW items \in Items, NEW key
  PROVE  \E from : ItemsFrom(search, key, items, from)
<1> DEFINE n == Len(items)
           T == [Nat -> Results]
           base == [s \in Nat |-> NotFound(s)]
           step == [k \in 1 .. n |-> [g \in T |->
                      [s \in Nat |-> ItemStep(search, key, items, k, g, s)]]]
<1>1. n \in Nat
  BY ItemsParts
<1>2. base \in T
  BY ResultsParts
<1>3. step \in [1 .. n -> [T -> T]]
  BY ItemStepType
<1>a. PICK f : CountsDown(T, n, base, step, f)
  <2> HIDE DEF n, T, base, step
  <2>1. CountStep(T, n, base, step)
    BY <1>1, <1>2, <1>3 DEF CountStep
  <2> QED
    BY <2>1, Countdown
<1>4. /\ f \in [1 .. n + 1 -> T]
      /\ f[n + 1] = base
      /\ \A k \in 1 .. n : f[k] = step[k][f[k + 1]]
  BY <1>a DEF CountsDown
<1> DEFINE Body(h, k, s) ==
             LET val == items[k].val
                 sub == search[val.items][s]
             IN  IF k = Len(items) + 1 THEN NotFound(s)
                 ELSE IF k \notin Named(key, items) THEN h[k + 1][s]
                 ELSE IF ~Container(val) THEN NotFound(s)
                 ELSE IF sub.found /\ sub.skip > 0
                      THEN IF val.type = "doc" /\ \A j \in Named(key, items) : j <= k
                           THEN NotFound(sub.skip)
                           ELSE h[k + 1][sub.skip - 1]
                 ELSE IF val.type = "doc" THEN Under(k, sub)
                 ELSE Under(k, InSubDocuments(search, val.items)[sub])
           Eqn(h) == h = [k \in 1 .. Len(items) + 1 |-> [s \in Nat |-> Body(h, k, s)]]
           F == CHOOSE h : Eqn(h)
<1>5. InItems(search, key, items) = F[1]
  BY DEF InItems
<1>6. \A h : \A k \in 1 .. n : \A s \in Nat :
         Body(h, k, s) = ItemStep(search, key, items, k, h[k + 1], s)
  <2> TAKE h
  <2> TAKE k \in 1 .. n
  <2> TAKE s \in Nat
  <2>1. k # Len(items) + 1
    BY <1>1
  <2> QED
    BY <2>1 DEF ItemStep
<1>7. \A h : \A s \in Nat : Body(h, n + 1, s) = NotFound(s)
  OBVIOUS
<1> HIDE DEF Body
<1>13. ASSUME NEW k \in 1 .. n
       PROVE  f[k] = [s \in Nat |-> ItemStep(search, key, items, k, f[k + 1], s)]
  <2>3. k + 1 \in 1 .. n + 1
    BY <1>1
  <2>1. f[k] = step[k][f[k + 1]] /\ f[k + 1] \in T
    <3> HIDE DEF T, step, base, n
    <3> QED
      BY <1>4, <2>3
  <2>2. \A g \in T : step[k][g] = [s \in Nat |-> ItemStep(search, key, items, k, g, s)]
    OBVIOUS
  <2> HIDE DEF step
  <2> QED
    BY <2>1, <2>2
<1>8. Eqn(f)
  <2> DEFINE e == [k \in 1 .. Len(items) + 1 |-> [s \in Nat |-> Body(f, k, s)]]
  <2>1. ASSUME NEW k \in 1 .. n + 1 PROVE f[k] = e[k]
    <3>3. e[k] = [s \in Nat |-> Body(f, k, s)]
      BY <2>1
    <3> HIDE DEF e, step
    <3>1. CASE k = n + 1
      <4>1. e[k] = [s \in Nat |-> Body(f, n + 1, s)]
        BY <3>1, <3>3
      <4>2. e[k] = base
        BY <1>7, <4>1
      <4> QED
        BY <1>4, <3>1, <4>2
    <3>2. CASE k # n + 1
      <4>1. k \in 1 .. n /\ k + 1 \in 1 .. n + 1
        BY <1>1, <2>1, <3>2
      <4> QED
        BY <1>6, <1>13, <4>1, <3>3
    <3> QED
      BY <3>1, <3>2
  <2>2. e = [k \in 1 .. n + 1 |-> e[k]]
    OBVIOUS
  <2> HIDE DEF e, step, base, T
  <2>3. f = e
    BY <1>4, <2>1, <2>2
  <2> QED
    BY <2>3 DEF e
<1>9. Eqn(F)
  <2> HIDE DEF Eqn
  <2> QED
    BY <1>8
<1> HIDE DEF F
<1>10. F = [k \in 1 .. Len(items) + 1 |-> [s \in Nat |-> Body(F, k, s)]]
  BY <1>9
<1>11. F[n + 1] = base
  <2>1. n + 1 \in 1 .. Len(items) + 1
    BY <1>1
  <2>2. F[n + 1] = [s \in Nat |-> Body(F, n + 1, s)]
    BY <1>10, <2>1
  <2> QED
    BY <1>7, <2>2
<1>12. ASSUME NEW k \in 1 .. n
       PROVE  F[k] = [s \in Nat |-> ItemStep(search, key, items, k, F[k + 1], s)]
  <2>1. k \in 1 .. Len(items) + 1
    BY <1>1
  <2>2. F[k] = [s \in Nat |-> Body(F, k, s)]
    BY <1>10, <2>1
  <2> QED
    BY <1>6, <2>2
<1> DEFINE P == {k \in 1 .. n + 1 : F[k] = f[k]}
<1>14. \A k \in 1 .. n + 1 : (k # n + 1 => k + 1 \in P) => k \in P
  <2> SUFFICES ASSUME NEW k \in 1 .. n + 1, k # n + 1 => k + 1 \in P
               PROVE  F[k] = f[k]
    OBVIOUS
  <2>1. CASE k = n + 1
    BY <1>4, <1>11, <2>1
  <2>2. CASE k # n + 1
    <3>1. k \in 1 .. n /\ F[k + 1] = f[k + 1]
      BY <1>1, <2>2
    <3> QED
      BY <1>12, <1>13, <3>1
  <2> QED
    BY <2>1, <2>2
<1>15. P = 1 .. n + 1
  <2>1. P \subseteq 1 .. n + 1
    OBVIOUS
  <2> HIDE DEF P, n
  <2> QED
    BY <1>1, <1>14, <2>1, FromTheEnd
<1>16. \A k \in 1 .. n + 1 : F[k] = f[k]
  BY <1>15
<1>17. F = f
  <2>1. F = [k \in 1 .. n + 1 |-> F[k]]
    BY <1>10
  <2> HIDE DEF step, base, T
  <2> QED
    BY <1>4, <1>16, <2>1
<1>18. \A s \in Nat : f[n + 1][s] = NotFound(s)
  BY <1>4
<1>19. \A k \in 1 .. n : \A s \in Nat :
          f[k][s] = ItemStep(search, key, items, k, f[k + 1], s)
  BY <1>13
<1>20. f \in [1 .. n + 1 -> T] /\ InItems(search, key, items) = f[1]
  BY <1>4, <1>5, <1>17
<1> HIDE DEF step, base, Eqn
<1> QED
  BY <1>18, <1>19, <1>20 DEF ItemsFrom

\* The loop over the items that a key names returns a result.
LEMMA InItemsType ==
  ASSUME NEW search \in Searches, NEW items \in Items, NEW key
  PROVE  InItems(search, key, items) \in [Nat -> Results]
<1>1. PICK from : ItemsFrom(search, key, items, from)
  BY ItemsUnfold
<1>2. 1 \in 1 .. Len(items) + 1
  BY ItemsParts
<1> QED
  BY <1>1, <1>2 DEF ItemsFrom

\* The first of some numbers is one of them.
LEMMA FirstOfIs ==
  ASSUME NEW S, S \subseteq Nat, S # {}
  PROVE  FirstOf(S) \in S /\ \A j \in S : FirstOf(S) <= j
<1>1. \E i \in S : \A j \in S : i <= j
  BY Least
<1> QED
  BY <1>1 DEF FirstOf

\* The items of a name are items.
LEMMA NamedPlaces ==
  ASSUME NEW items \in Items, NEW key
  PROVE  Named(key, items) \subseteq 1 .. Len(items) /\ Named(key, items) \subseteq Nat
  BY ItemsParts DEF Named

\* The last key of a path gives a result.
LEMMA LastKeyType ==
  ASSUME NEW items \in Items, NEW key, NEW s \in Nat
  PROVE  LastKey(items, key, s) \in Results
<1> DEFINE S == Named(key, items)
           i == FirstOf(S)
           left == Len(items) - i
<1>1. CASE S = {}
  BY <1>1, ResultsParts DEF LastKey
<1>2. CASE S # {}
  <2>1. i \in 1 .. Len(items) /\ Len(items) \in Nat
    BY <1>2, NamedPlaces, FirstOfIs, ItemsParts
  <2>2. LastKey(items, key, s) = IF key # "$any"  THEN Result(TRUE, s, <<i>>)
                                 ELSE IF s <= left THEN Result(TRUE, 0, <<i + s>>)
                                 ELSE NotFound(s - left)
    BY <1>2 DEF LastKey
  <2> HIDE DEF i
  <2>3. ~(s <= left) => s - left \in Nat
    BY <2>1
  <2>4. Result(TRUE, s, <<i>>) \in Results /\ Result(TRUE, 0, <<i + s>>) \in Results
    <3>1. i \in Nat /\ i + s \in Nat
      BY <2>1
    <3>2. <<i>> \in Seq(Nat) /\ <<i + s>> \in Seq(Nat)
      BY <3>1
    <3> QED
      BY <3>2, ResultsParts
  <2>5. ~(s <= left) => NotFound(s - left) \in Results
    BY <2>3, ResultsParts
  <2> QED
    BY <2>2, <2>4, <2>5
<1> QED
  BY <1>1, <1>2

\* The whole search, one key at a time.
LEMMA SearchUnfold ==
  /\ FindDescendants \in [DottedPath -> Searches]
  /\ \A keys \in DottedPath : \A items \in Items :
       FindDescendants[keys][items]
         = IF Len(keys) = 1 THEN [s \in Nat |-> LastKey(items, keys[1], s)]
           ELSE InItems(FindDescendants[Tail(keys)], keys[1], items)
<1> DEFINE base == [keys \in DottedPath |->
                      [items \in Items |-> [s \in Nat |-> LastKey(items, keys[1], s)]]]
           step == [keys \in DottedPath |-> [g \in Searches |->
                      [items \in Items |-> InItems(g, keys[1], items)]]]
<1>1. base \in [DottedPath -> Searches]
  BY LastKeyType DEF Searches
<1>2. step \in [DottedPath -> [Searches -> Searches]]
  <2>1. \A g \in Searches, keys \in DottedPath :
           [items \in Items |-> InItems(g, keys[1], items)] \in Searches
    BY InItemsType DEF Searches
  <2> QED
    BY <2>1
<1>3. PICK f : OverPaths(Searches, base, step, f)
  <2> HIDE DEF base, step
  <2>1. PathStep(Searches, base, step)
    BY <1>1, <1>2 DEF PathStep
  <2> QED
    BY <2>1, PathRecursion
<1> DEFINE Body(h, keys) == [items \in Items |->
                               IF Len(keys) = 1 THEN [s \in Nat |-> LastKey(items, keys[1], s)]
                               ELSE InItems(h[Tail(keys)], keys[1], items)]
           Eqn(h) == h = [keys \in DottedPath |-> Body(h, keys)]
           F == CHOOSE h : Eqn(h)
<1>4. \A keys \in DottedPath : f[keys] = Body(f, keys)
  <2> TAKE keys \in DottedPath
  <2>1. CASE Len(keys) = 1
    BY <1>3, <2>1 DEF OverPaths
  <2>2. CASE Len(keys) # 1
    <3>1. f[Tail(keys)] \in Searches
      BY <1>3, <2>2, PathParts DEF OverPaths
    <3>2. f[keys] = step[keys][f[Tail(keys)]]
      BY <1>3, <2>2 DEF OverPaths
    <3> QED
      BY <2>2, <3>1, <3>2
  <2> QED
    BY <2>1, <2>2
<1>5. f \in [DottedPath -> Searches]
  BY <1>3 DEF OverPaths
<1> HIDE DEF Body
<1>6. Eqn(f)
  BY <1>4, <1>5
<1>7. Eqn(F)
  <2> HIDE DEF Eqn
  <2> QED
    BY <1>6
<1>8. FindDescendants = F
  BY DEF FindDescendants, Body
<1> HIDE DEF F
<1>9. \A keys \in DottedPath : F[keys] = Body(F, keys)
  BY <1>7
<1> DEFINE P == {keys \in DottedPath : F[keys] = f[keys]}
<1>10. P = DottedPath
  <2>1. \A keys \in DottedPath : (Len(keys) # 1 => Tail(keys) \in P) => keys \in P
    <3> SUFFICES ASSUME NEW keys \in DottedPath, Len(keys) # 1 => Tail(keys) \in P
                 PROVE  F[keys] = f[keys]
      OBVIOUS
    <3>1. Body(F, keys) = Body(f, keys)
      BY DEF Body
    <3> QED
      BY <1>4, <1>9, <3>1
  <2>2. P \subseteq DottedPath
    OBVIOUS
  <2> HIDE DEF P
  <2> QED
    BY <2>1, <2>2, PathInduction
<1>11. F = f
  <2>1. \A keys \in DottedPath : F[keys] = f[keys]
    BY <1>10
  <2> QED
    BY <1>5, <1>7, <2>1
<1>12. \A keys \in DottedPath : \A items \in Items :
         f[keys][items] = IF Len(keys) = 1 THEN [s \in Nat |-> LastKey(items, keys[1], s)]
                          ELSE InItems(f[Tail(keys)], keys[1], items)
  BY <1>4 DEF Body
<1> QED
  BY <1>5, <1>8, <1>11, <1>12
-----------------------------------------------------------------------------
(***************************************************************************)
(* What a path means, unfolded once.                                       *)
(***************************************************************************)
\* A function that follows the recursion is its function.
Follows(T, base, step, F) ==
  /\ F = [keys \in DottedPath |-> F[keys]]
  /\ \A keys \in DottedPath :
       F[keys] = IF Len(keys) = 1 THEN base[keys]
                 ELSE IF F[Tail(keys)] \in T THEN step[keys][F[Tail(keys)]]
                 ELSE F[keys]

\* A function that follows the steps is the one defined.
LEMMA FollowsIs ==
  ASSUME NEW T, NEW base, NEW step, PathStep(T, base, step), NEW F, Follows(T, base, step, F)
  PROVE  OverPaths(T, base, step, F)
<1> DEFINE P == {keys \in DottedPath : F[keys] \in T}
<1>1. \A keys \in DottedPath : (Len(keys) # 1 => Tail(keys) \in P) => keys \in P
  <2> SUFFICES ASSUME NEW keys \in DottedPath, Len(keys) # 1 => Tail(keys) \in P
               PROVE  F[keys] \in T
    OBVIOUS
  <2>1. CASE Len(keys) = 1
    <3>1. F[keys] = base[keys] /\ base[keys] \in T
      BY <2>1 DEF Follows, PathStep
    <3> QED
      BY <3>1
  <2>2. CASE Len(keys) # 1
    <3>1. Tail(keys) \in DottedPath /\ F[Tail(keys)] \in T
      BY <2>2
    <3>2. F[keys] = step[keys][F[Tail(keys)]] /\ step[keys] \in [T -> T]
      BY <2>2, <3>1 DEF Follows, PathStep
    <3> QED
      BY <3>1, <3>2
  <2> QED
    BY <2>1, <2>2
<1>2. P \subseteq DottedPath
  OBVIOUS
<1>3. P = DottedPath
  <2> HIDE DEF P
  <2> QED
    BY <1>1, <1>2, PathInduction
<1>4. \A keys \in DottedPath : F[keys] \in T
  BY <1>3
<1>5. \A keys \in DottedPath : Len(keys) # 1 => Tail(keys) \in DottedPath
  BY PathParts
<1>6. F \in [DottedPath -> T]
  BY <1>4 DEF Follows
<1> QED
  BY <1>4, <1>5, <1>6 DEF Follows, OverPaths

Places == Seq(Nat)

\* What is found at a value, and at the values below an item.
AtValue(rest, v) ==
  IF ~Container(v) THEN {}
  ELSE rest[v.items] \cup UNION {Below(k, rest[v.items[k].val.items]) : k \in Entered(v)}

BelowItems(rest, key, items) ==
  UNION {Below(i, AtValue(rest, items[i].val)) : i \in Named(key, items)}

\* The elements that are entered are documents and arrays.
LEMMA EnteredParts ==
  ASSUME NEW v \in Value, Container(v)
  PROVE  /\ v.items \in Items /\ Entered(v) \subseteq 1 .. Len(v.items) /\ Entered(v) \subseteq Nat
         /\ \A k \in Entered(v) : /\ v.type = "array" /\ Container(v.items[k].val)
                                  /\ v.items[k].val \in Value
                                  /\ v.items[k].val.items \in Items
<1>1. v.items \in Items
  BY ValueAssumption
<1>2. DOMAIN v.items = 1 .. Len(v.items) /\ Len(v.items) \in Nat
  BY <1>1, ItemsParts
<1>3. \A k \in Entered(v) : k \in DOMAIN v.items /\ v.type = "array" /\ Container(v.items[k].val)
  BY DEF Entered
<1>4. \A k \in Entered(v) : v.items[k].val \in Value /\ v.items[k].val.items \in Items
  BY <1>1, <1>3, ItemsParts
<1> QED
  BY <1>1, <1>2, <1>3, <1>4

\* The places below an item are places.
LEMMA BelowType ==
  ASSUME NEW i \in Nat, NEW ps, ps \subseteq Places
  PROVE  Below(i, ps) \subseteq Places
<1>1. \A p \in Places : <<i>> \o p \in Places
  BY DEF Places
<1> QED
  BY <1>1 DEF Below

\* The places below all items of a name are places.
LEMMA BelowItemsType ==
  ASSUME NEW rest \in [Items -> SUBSET Places], NEW key, NEW items \in Items
  PROVE  /\ BelowItems(rest, key, items) \subseteq Places
         /\ \A i \in Named(key, items) : AtValue(rest, items[i].val) \subseteq Places
<1>1. ASSUME NEW v \in Value PROVE AtValue(rest, v) \subseteq Places
  <2>1. CASE ~Container(v)
    BY <2>1 DEF AtValue
  <2>2. CASE Container(v)
    <3>1. rest[v.items] \subseteq Places
      BY <2>2, EnteredParts
    <3>2. ASSUME NEW k \in Entered(v) PROVE Below(k, rest[v.items[k].val.items]) \subseteq Places
      <4>1. k \in Nat /\ rest[v.items[k].val.items] \subseteq Places
        BY <2>2, EnteredParts
      <4> QED
        BY <4>1, BelowType
    <3> QED
      BY <2>2, <3>1, <3>2 DEF AtValue
  <2> QED
    BY <2>1, <2>2
<1>2. ASSUME NEW i \in Named(key, items)
      PROVE  /\ AtValue(rest, items[i].val) \subseteq Places
             /\ Below(i, AtValue(rest, items[i].val)) \subseteq Places
  <2>1. i \in Nat /\ items[i].val \in Value
    <3>1. i \in DOMAIN items /\ i \in Nat
      BY NamedPlaces DEF Named
    <3> QED
      BY <3>1, ItemsParts
  <2>2. AtValue(rest, items[i].val) \subseteq Places
    BY <1>1, <2>1
  <2> QED
    BY <2>1, <2>2, BelowType
<1> QED
  BY <1>2 DEF BelowItems

\* Descends, a key at a time.
LEMMA DescendsUnfold ==
  /\ Descends \in [DottedPath -> [Items -> SUBSET Places]]
  /\ \A keys \in DottedPath : \A items \in Items :
       Descends[keys][items]
         = IF Len(keys) = 1 THEN {<<i>> : i \in Named(keys[1], items)}
           ELSE BelowItems(Descends[Tail(keys)], keys[1], items)
<1> DEFINE T == [Items -> SUBSET Places]
           base == [keys \in DottedPath |->
                      [items \in Items |-> {<<i>> : i \in Named(keys[1], items)}]]
           step == [keys \in DottedPath |-> [g \in T |->
                      [items \in Items |-> BelowItems(g, keys[1], items)]]]
<1>1. PathStep(T, base, step)
  <2>1. \A items \in Items : \A key : {<<i>> : i \in Named(key, items)} \subseteq Places
    <3>1. \A i \in Nat : <<i>> \in Places
      BY DEF Places
    <3> QED
      BY <3>1, NamedPlaces
  <2>2. base \in [DottedPath -> T]
    BY <2>1
  <2>3. \A g \in T, keys \in DottedPath : [items \in Items |-> BelowItems(g, keys[1], items)] \in T
    BY BelowItemsType
  <2>4. step \in [DottedPath -> [T -> T]]
    BY <2>3
  <2> QED
    BY <2>2, <2>4 DEF PathStep
<1> DEFINE Body(h, keys) ==
             [items \in Items |->
                LET rest   == h[Tail(keys)]
                    At(v)  == IF ~Container(v) THEN {}
                              ELSE rest[v.items]
                                     \cup UNION {Below(k, rest[v.items[k].val.items]) : k \in Entered(v)}
                IN  IF Len(keys) = 1 THEN {<<i>> : i \in Named(keys[1], items)}
                    ELSE UNION {Below(i, At(items[i].val)) : i \in Named(keys[1], items)}]
           Eqn(h) == h = [keys \in DottedPath |-> Body(h, keys)]
           F == CHOOSE h : Eqn(h)
<1>2. Descends = F
  BY DEF Descends
<1>3. \A h : \A keys \in DottedPath : Len(keys) = 1 => Body(h, keys) = base[keys]
  OBVIOUS
<1>4. \A h : \A keys \in DottedPath :
         Len(keys) # 1 /\ h[Tail(keys)] \in T => Body(h, keys) = step[keys][h[Tail(keys)]]
  <2> TAKE h
  <2> TAKE keys \in DottedPath
  <2> HAVE Len(keys) # 1 /\ h[Tail(keys)] \in T
  <2>1. step[keys][h[Tail(keys)]] = [items \in Items |-> BelowItems(h[Tail(keys)], keys[1], items)]
    OBVIOUS
  <2> HIDE DEF step
  <2>2. \A items \in Items : Body(h, keys)[items] = BelowItems(h[Tail(keys)], keys[1], items)
    BY DEF BelowItems, AtValue
  <2>3. Body(h, keys) = [items \in Items |-> Body(h, keys)[items]]
    OBVIOUS
  <2> HIDE DEF Body
  <2> QED
    BY <2>1, <2>2, <2>3
<1> HIDE DEF Body, base, step, T
<1>5. PICK f : OverPaths(T, base, step, f)
  BY <1>1, PathRecursion
<1>6. Eqn(f)
  <2>1. f \in [DottedPath -> T]
    BY <1>5 DEF OverPaths
  <2>2. \A keys \in DottedPath : f[keys] = Body(f, keys)
    BY <1>3, <1>4, <1>5, PathParts DEF OverPaths
  <2> QED
    BY <2>1, <2>2
<1>7. Eqn(F)
  <2> HIDE DEF Eqn
  <2> QED
    BY <1>6
<1> HIDE DEF F
<1>8. Follows(T, base, step, F)
  <2>1. F = [keys \in DottedPath |-> F[keys]] /\ \A keys \in DottedPath : F[keys] = Body(F, keys)
    BY <1>7
  <2> QED
    BY <1>3, <1>4, <2>1 DEF Follows
<1>9. OverPaths(T, base, step, F)
  BY <1>1, <1>8, FollowsIs
<1>10. ASSUME NEW keys \in DottedPath, NEW items \in Items
       PROVE  F[keys][items] = IF Len(keys) = 1 THEN {<<i>> : i \in Named(keys[1], items)}
                               ELSE BelowItems(F[Tail(keys)], keys[1], items)
  <2>1. CASE Len(keys) = 1
    BY <1>9, <2>1 DEF OverPaths, base
  <2>2. CASE Len(keys) # 1
    <3>1. F[Tail(keys)] \in T /\ F[keys] = step[keys][F[Tail(keys)]]
      BY <1>9, <2>2, PathParts DEF OverPaths
    <3> QED
      BY <2>2, <3>1 DEF step
  <2> QED
    BY <2>1, <2>2
<1> QED
  BY <1>2, <1>9, <1>10 DEF OverPaths, T
-----------------------------------------------------------------------------
(***************************************************************************)
(* What is found is at the path.                                           *)
(***************************************************************************)
Sound(search, rest) ==
  \A items \in Items : \A s \in Nat :
    search[items][s].found => search[items][s].place \in rest[items]

\* What the last key finds is an item of its name.
LEMMA LastKeySound ==
  ASSUME NEW items \in Items, NEW key, NEW s \in Nat, LastKey(items, key, s).found
  PROVE  LastKey(items, key, s).place \in {<<i>> : i \in Named(key, items)}
<1> DEFINE S == Named(key, items)
           i == FirstOf(S)
           left == Len(items) - i
<1>1. S # {}
  BY ResultsParts DEF LastKey
<1>2. i \in S /\ S \subseteq 1 .. Len(items) /\ Len(items) \in Nat
  BY <1>1, NamedPlaces, FirstOfIs, ItemsParts
<1>3. LastKey(items, key, s) = IF key # "$any"  THEN Result(TRUE, s, <<i>>)
                               ELSE IF s <= left THEN Result(TRUE, 0, <<i + s>>)
                               ELSE NotFound(s - left)
  BY <1>1 DEF LastKey
<1>4. key = "$any" => S = 1 .. Len(items)
  BY ItemsParts DEF Named
<1> HIDE DEF i, S
<1>5. CASE key # "$any"
  <2>1. LastKey(items, key, s).place = <<i>>
    BY <1>3, <1>5 DEF Result
  <2> QED
    BY <1>2, <2>1 DEF S
<1>6. CASE key = "$any" /\ s <= left
  <2>1. LastKey(items, key, s).place = <<i + s>>
    BY <1>3, <1>6 DEF Result
  <2>2. i + s \in S
    BY <1>2, <1>4, <1>6
  <2> QED
    BY <2>1, <2>2 DEF S
<1>7. CASE key = "$any" /\ ~(s <= left)
  BY <1>3, <1>7 DEF Result, NotFound
<1> QED
  BY <1>5, <1>6, <1>7

\* What is found in the elements is a place that the rest leads to.
LEMMA ElementsSound ==
  ASSUME NEW search \in Searches, NEW rest \in [Items -> SUBSET Places], Sound(search, rest),
         NEW v \in Value, Container(v), v.type = "array",
         NEW last \in Results, last.found => last.place \in AtValue(rest, v),
         InSubDocuments(search, v.items)[last].found
  PROVE  InSubDocuments(search, v.items)[last].place \in AtValue(rest, v)
<1> DEFINE items == v.items
           n == Len(items)
           X == AtValue(rest, v)
<1>1. items \in Items /\ n \in Nat /\ DOMAIN items = 1 .. n
  BY EnteredParts, ItemsParts
<1>2. PICK from : ElementsFrom(search, items, from)
  BY <1>1, ElementsUnfold
<1> DEFINE P == {k \in 1 .. n + 1 : \A r \in Results :
                   (r.found => r.place \in X) => (from[k][r].found => from[k][r].place \in X)}
<1>3. \A k \in 1 .. n + 1 : (k # n + 1 => k + 1 \in P) => k \in P
  <2> SUFFICES ASSUME NEW k \in 1 .. n + 1, k # n + 1 => k + 1 \in P,
                      NEW r \in Results, r.found => r.place \in X, from[k][r].found
               PROVE  from[k][r].place \in X
    OBVIOUS
  <2>1. CASE k = n + 1
    BY <1>2, <2>1 DEF ElementsFrom
  <2>2. CASE k # n + 1
    <3>1. k \in 1 .. n /\ k \in Nat
      BY <1>1, <2>2
    <3>2. \A q \in Results : (q.found => q.place \in X) =>
                               (from[k + 1][q].found => from[k + 1][q].place \in X)
      BY <2>2
    <3> DEFINE w == items[k].val
               sub == search[w.items][r.skip]
    <3>3. from[k][r] = IF ~Container(w) THEN from[k + 1][r]
                       ELSE IF sub.found /\ sub.skip = 0 THEN Under(k, sub)
                       ELSE from[k + 1][NotFound(IF sub.found THEN sub.skip - 1 ELSE sub.skip)]
      BY <1>2, <3>1 DEF ElementsFrom, ElementStep
    <3>4. from[k + 1] \in [Results -> Results]
      BY <1>2, <3>1 DEF ElementsFrom
    <3>5. CASE ~Container(w)
      BY <3>2, <3>3, <3>5
    <3>6. CASE Container(w)
      <4>1. w.items \in Items /\ k \in Entered(v) /\ r.skip \in Nat
        BY <1>1, <3>1, <3>6, ItemsParts, ResultsParts DEF Entered
      <4>2. sub \in Results /\ (sub.found => sub.place \in rest[w.items])
        BY <4>1 DEF Searches, Sound
      <4> HIDE DEF sub
      <4>3. CASE sub.found /\ sub.skip = 0
        <5>1. from[k][r].place = <<k>> \o sub.place
          BY <3>1, <3>3, <3>6, <4>2, <4>3, ResultsParts
        <5>2. <<k>> \o sub.place \in Below(k, rest[w.items])
          BY <4>2, <4>3 DEF Below
        <5> QED
          BY <4>1, <5>1, <5>2 DEF AtValue
      <4>4. CASE ~(sub.found /\ sub.skip = 0)
        <5> DEFINE z == IF sub.found THEN sub.skip - 1 ELSE sub.skip
        <5>1. z \in Nat
          BY <4>2, <4>4, ResultsParts
        <5>2. from[k][r] = from[k + 1][NotFound(z)]
          BY <3>3, <3>6, <4>4
        <5> HIDE DEF z
        <5>3. NotFound(z) \in Results /\ ~NotFound(z).found
          BY <5>1, ResultsParts
        <5> QED
          BY <3>2, <5>2, <5>3
      <4> QED
        BY <4>3, <4>4
    <3> QED
      BY <3>5, <3>6
  <2> QED
    BY <2>1, <2>2
<1>4. P = 1 .. n + 1
  <2>1. P \subseteq 1 .. n + 1
    OBVIOUS
  <2> HIDE DEF P, n
  <2> QED
    BY <1>1, <1>3, <2>1, FromTheEnd
<1>5. 1 \in P /\ InSubDocuments(search, v.items) = from[1]
  BY <1>1, <1>2, <1>4 DEF ElementsFrom
<1> QED
  BY <1>5

\* What is found in the items is a place that the path leads to.
LEMMA ItemsSound ==
  ASSUME NEW search \in Searches, NEW rest \in [Items -> SUBSET Places], Sound(search, rest),
         NEW key, NEW items \in Items, NEW s \in Nat, InItems(search, key, items)[s].found
  PROVE  InItems(search, key, items)[s].place \in BelowItems(rest, key, items)
<1> DEFINE n == Len(items)
           X == BelowItems(rest, key, items)
<1>1. n \in Nat /\ DOMAIN items = 1 .. n
  BY ItemsParts
<1>2. PICK from : ItemsFrom(search, key, items, from)
  BY ItemsUnfold
<1> DEFINE P == {k \in 1 .. n + 1 : \A t \in Nat : from[k][t].found => from[k][t].place \in X}
<1>3. \A k \in 1 .. n + 1 : (k # n + 1 => k + 1 \in P) => k \in P
  <2> SUFFICES ASSUME NEW k \in 1 .. n + 1, k # n + 1 => k + 1 \in P,
                      NEW t \in Nat, from[k][t].found
               PROVE  from[k][t].place \in X
    OBVIOUS
  <2>1. CASE k = n + 1
    BY <1>2, <2>1, ResultsParts DEF ItemsFrom
  <2>2. CASE k # n + 1
    <3>1. k \in 1 .. n /\ k \in Nat
      BY <1>1, <2>2
    <3>2. \A q \in Nat : from[k + 1][q].found => from[k + 1][q].place \in X
      BY <2>2
    <3> DEFINE v == items[k].val
               sub == search[v.items][t]
               arr == InSubDocuments(search, v.items)[sub]
    <3>3. from[k][t] = IF k \notin Named(key, items) THEN from[k + 1][t]
                       ELSE IF ~Container(v) THEN NotFound(t)
                       ELSE IF sub.found /\ sub.skip > 0
                            THEN IF v.type = "doc" /\ \A j \in Named(key, items) : j <= k
                                 THEN NotFound(sub.skip)
                                 ELSE from[k + 1][sub.skip - 1]
                       ELSE IF v.type = "doc" THEN Under(k, sub)
                       ELSE Under(k, arr)
      BY <1>2, <3>1 DEF ItemsFrom, ItemStep
    <3>4. CASE k \notin Named(key, items)
      BY <3>2, <3>3, <3>4
    <3>5. CASE k \in Named(key, items) /\ ~Container(v)
      BY <3>3, <3>5, ResultsParts
    <3>6. CASE k \in Named(key, items) /\ Container(v)
      <4>1. v \in Value /\ v.items \in Items
        BY <1>1, <3>1, <3>6, ItemsParts
      <4>2. sub \in Results /\ (sub.found => sub.place \in rest[v.items])
        BY <3>6, <4>1, ItemsParts DEF Searches, Sound
      <4>3. sub.found => sub.place \in AtValue(rest, v)
        BY <3>6, <4>2 DEF AtValue
      <4>4. v.type # "doc" => arr \in Results /\ (arr.found => arr.place \in AtValue(rest, v))
        <5>1. v.type # "doc" => v.type = "array"
          BY <3>6 DEF Container
        <5>2. v.items \in Items
          BY <3>6, <4>1, EnteredParts
        <5> HIDE DEF sub
        <5> QED
          BY <3>6, <4>1, <4>2, <4>3, <5>1, <5>2, ElementsSound, ElementsType
      <4> HIDE DEF sub, arr
      <4>5. \A r \in Results : r.place \in AtValue(rest, v) => Under(k, r).place \in X
        <5> TAKE r \in Results
        <5> HAVE r.place \in AtValue(rest, v)
        <5>1. Under(k, r).place = <<k>> \o r.place
          BY <3>1, ResultsParts
        <5>2. <<k>> \o r.place \in Below(k, AtValue(rest, v))
          BY DEF Below
        <5> QED
          BY <3>6, <5>1, <5>2 DEF BelowItems
      <4>6. \A r \in Results : Under(k, r).found = r.found
        BY <3>1, ResultsParts
      <4>7. CASE sub.found /\ sub.skip > 0
        <5>1. sub.skip \in Nat /\ sub.skip - 1 \in Nat /\ ~NotFound(sub.skip).found
          BY <4>2, <4>7, ResultsParts
        <5>2. from[k][t] = IF v.type = "doc" /\ \A j \in Named(key, items) : j <= k
                           THEN NotFound(sub.skip)
                           ELSE from[k + 1][sub.skip - 1]
          BY <3>3, <3>6, <4>7
        <5>3. from[k][t] = from[k + 1][sub.skip - 1]
          BY <5>1, <5>2
        <5> QED
          BY <3>2, <5>1, <5>3
      <4>8. CASE ~(sub.found /\ sub.skip > 0)
        <5>1. from[k][t] = IF v.type = "doc" THEN Under(k, sub) ELSE Under(k, arr)
          BY <3>3, <3>6, <4>8
        <5> QED
          BY <4>2, <4>3, <4>4, <4>5, <4>6, <5>1
      <4> QED
        BY <4>7, <4>8
    <3> QED
      BY <3>4, <3>5, <3>6
  <2> QED
    BY <2>1, <2>2
<1>4. P = 1 .. n + 1
  <2>1. P \subseteq 1 .. n + 1
    OBVIOUS
  <2> HIDE DEF P, n
  <2> QED
    BY <1>1, <1>3, <2>1, FromTheEnd
<1>5. 1 \in P /\ InItems(search, key, items) = from[1]
  BY <1>1, <1>2, <1>4 DEF ItemsFrom
<1> QED
  BY <1>5

\* What a call finds is a place that the path leads to.
LEMMA SearchSound ==
  \A keys \in DottedPath : Sound(FindDescendants[keys], Descends[keys])
<1> DEFINE P == {keys \in DottedPath : Sound(FindDescendants[keys], Descends[keys])}
<1>1. \A keys \in DottedPath : (Len(keys) # 1 => Tail(keys) \in P) => keys \in P
  <2> SUFFICES ASSUME NEW keys \in DottedPath, Len(keys) # 1 => Tail(keys) \in P,
                      NEW items \in Items, NEW s \in Nat,
                      FindDescendants[keys][items][s].found
               PROVE  FindDescendants[keys][items][s].place \in Descends[keys][items]
    BY DEF Sound
  <2>1. CASE Len(keys) = 1
    <3>1. /\ FindDescendants[keys][items][s] = LastKey(items, keys[1], s)
          /\ Descends[keys][items] = {<<i>> : i \in Named(keys[1], items)}
      BY <2>1, SearchUnfold, DescendsUnfold
    <3> QED
      BY <3>1, LastKeySound
  <2>2. CASE Len(keys) # 1
    <3> DEFINE search == FindDescendants[Tail(keys)]
               rest == Descends[Tail(keys)]
    <3>1. /\ FindDescendants[keys][items] = InItems(search, keys[1], items)
          /\ Descends[keys][items] = BelowItems(rest, keys[1], items)
      BY <2>2, SearchUnfold, DescendsUnfold
    <3>2. search \in Searches /\ rest \in [Items -> SUBSET Places] /\ Sound(search, rest)
      BY <2>2, PathParts, SearchUnfold, DescendsUnfold
    <3> HIDE DEF search, rest
    <3> QED
      BY <3>1, <3>2, ItemsSound
  <2> QED
    BY <2>1, <2>2
<1>2. P \subseteq DottedPath
  OBVIOUS
<1>3. P = DottedPath
  <2> HIDE DEF P
  <2> QED
    BY <1>1, <1>2, PathInduction
<1> QED
  BY <1>3
\* The items of exactly this key, and what libbson finds below the first.
Exactly(key, items) == {j \in DOMAIN items : items[j].key = key}

DirectBelow(direct, key, items) ==
  LET i     == FirstOf(Exactly(key, items))
      below == direct[items[i].val.items]
  IN  IF Exactly(key, items) = {} THEN << >>
      ELSE IF ~Container(items[i].val) \/ below = << >> THEN << >>
      ELSE <<i>> \o below

DirectLast(key, items) ==
  IF Exactly(key, items) = {} THEN << >> ELSE <<FirstOf(Exactly(key, items))>>

\* The first item with exactly this key.
LEMMA ExactlyParts ==
  ASSUME NEW key, NEW items \in Items
  PROVE  /\ Exactly(key, items) \subseteq Named(key, items)
         /\ Exactly(key, items) # {} =>
              LET i == FirstOf(Exactly(key, items))
              IN  /\ i \in Exactly(key, items) /\ i \in Nat /\ i \in DOMAIN items
                  /\ items[i].val \in Value
                  /\ Container(items[i].val) => items[i].val.items \in Items
<1>1. Exactly(key, items) \subseteq Named(key, items)
  BY DEF Exactly, Named
<1>2. ASSUME Exactly(key, items) # {}
      PROVE  LET i == FirstOf(Exactly(key, items))
             IN  /\ i \in Exactly(key, items) /\ i \in Nat /\ i \in DOMAIN items
                 /\ items[i].val \in Value
                 /\ Container(items[i].val) => items[i].val.items \in Items
  <2> DEFINE i == FirstOf(Exactly(key, items))
  <2>1. Exactly(key, items) \subseteq Nat /\ Exactly(key, items) \subseteq DOMAIN items
    BY <1>1, NamedPlaces DEF Exactly
  <2>2. i \in Exactly(key, items)
    BY <1>2, <2>1, FirstOfIs
  <2> HIDE DEF i
  <2>3. i \in Nat /\ i \in DOMAIN items
    BY <2>1, <2>2
  <2>4. items[i].val \in Value /\ (Container(items[i].val) => items[i].val.items \in Items)
    BY <2>3, ItemsParts
  <2> QED
    BY <2>2, <2>3, <2>4 DEF i
<1> QED
  BY <1>1, <1>2

\* FindDirect, a key at a time.
LEMMA DirectUnfold ==
  /\ FindDirect \in [DottedPath -> [Items -> Places]]
  /\ \A keys \in DottedPath : \A items \in Items :
       FindDirect[keys][items]
         = IF Len(keys) = 1 THEN DirectLast(keys[1], items)
           ELSE DirectBelow(FindDirect[Tail(keys)], keys[1], items)
<1> DEFINE T == [Items -> Places]
           base == [keys \in DottedPath |-> [items \in Items |-> DirectLast(keys[1], items)]]
           step == [keys \in DottedPath |-> [g \in T |->
                      [items \in Items |-> DirectBelow(g, keys[1], items)]]]
<1>1. PathStep(T, base, step)
  <2>0. << >> \in Places /\ \A i \in Nat, p \in Places : <<i>> \in Places /\ <<i>> \o p \in Places
    BY DEF Places
  <2>1. \A items \in Items : \A key : DirectLast(key, items) \in Places
    BY <2>0, ExactlyParts DEF DirectLast
  <2>2. base \in [DottedPath -> T]
    BY <2>1
  <2>3. ASSUME NEW g \in T, NEW key, NEW items \in Items PROVE DirectBelow(g, key, items) \in Places
    <3> DEFINE i == FirstOf(Exactly(key, items))
    <3>1. CASE Exactly(key, items) = {} \/ ~Container(items[i].val)
      BY <2>0, <3>1 DEF DirectBelow
    <3>2. CASE Exactly(key, items) # {} /\ Container(items[i].val)
      <4>1. i \in Nat /\ g[items[i].val.items] \in Places
        BY <2>3, <3>2, ExactlyParts
      <4> QED
        BY <2>0, <3>2, <4>1 DEF DirectBelow
    <3> QED
      BY <3>1, <3>2
  <2>4. step \in [DottedPath -> [T -> T]]
    BY <2>3
  <2> QED
    BY <2>2, <2>4 DEF PathStep
<1> DEFINE Body(h, keys) ==
             [items \in Items |->
                LET named == {j \in DOMAIN items : items[j].key = keys[1]}
                    i     == FirstOf(named)
                    below == h[Tail(keys)][items[i].val.items]
                IN  IF named = {} THEN << >>
                    ELSE IF Len(keys) = 1 THEN <<i>>
                    ELSE IF ~Container(items[i].val) \/ below = << >> THEN << >>
                    ELSE <<i>> \o below]
           Eqn(h) == h = [keys \in DottedPath |-> Body(h, keys)]
           F == CHOOSE h : Eqn(h)
<1>2. FindDirect = F
  BY DEF FindDirect
<1>3. \A h : \A keys \in DottedPath : Len(keys) = 1 => Body(h, keys) = base[keys]
  <2> TAKE h
  <2> TAKE keys \in DottedPath
  <2> HAVE Len(keys) = 1
  <2>1. base[keys] = [items \in Items |-> DirectLast(keys[1], items)]
    OBVIOUS
  <2> HIDE DEF base
  <2>2. \A items \in Items : Body(h, keys)[items] = DirectLast(keys[1], items)
    BY DEF DirectLast, Exactly
  <2>3. Body(h, keys) = [items \in Items |-> Body(h, keys)[items]]
    OBVIOUS
  <2> HIDE DEF Body
  <2> QED
    BY <2>1, <2>2, <2>3
<1>4. \A h : \A keys \in DottedPath :
         Len(keys) # 1 /\ h[Tail(keys)] \in T => Body(h, keys) = step[keys][h[Tail(keys)]]
  <2> TAKE h
  <2> TAKE keys \in DottedPath
  <2> HAVE Len(keys) # 1 /\ h[Tail(keys)] \in T
  <2>1. step[keys][h[Tail(keys)]] = [items \in Items |-> DirectBelow(h[Tail(keys)], keys[1], items)]
    OBVIOUS
  <2> HIDE DEF step
  <2>2. \A items \in Items : Body(h, keys)[items] = DirectBelow(h[Tail(keys)], keys[1], items)
    BY DEF DirectBelow, Exactly
  <2>3. Body(h, keys) = [items \in Items |-> Body(h, keys)[items]]
    OBVIOUS
  <2> HIDE DEF Body
  <2> QED
    BY <2>1, <2>2, <2>3
<1> HIDE DEF Body, base, step, T
<1>5. PICK f : OverPaths(T, base, step, f)
  BY <1>1, PathRecursion
<1>6. Eqn(f)
  <2>1. f \in [DottedPath -> T]
    BY <1>5 DEF OverPaths
  <2>2. \A keys \in DottedPath : f[keys] = Body(f, keys)
    BY <1>3, <1>4, <1>5, PathParts DEF OverPaths
  <2> QED
    BY <2>1, <2>2
<1>7. Eqn(F)
  <2> HIDE DEF Eqn
  <2> QED
    BY <1>6
<1> HIDE DEF F
<1>8. Follows(T, base, step, F)
  <2>1. F = [keys \in DottedPath |-> F[keys]] /\ \A keys \in DottedPath : F[keys] = Body(F, keys)
    BY <1>7
  <2> QED
    BY <1>3, <1>4, <2>1 DEF Follows
<1>9. OverPaths(T, base, step, F)
  BY <1>1, <1>8, FollowsIs
<1>10. ASSUME NEW keys \in DottedPath, NEW items \in Items
       PROVE  F[keys][items] = IF Len(keys) = 1 THEN DirectLast(keys[1], items)
                               ELSE DirectBelow(F[Tail(keys)], keys[1], items)
  <2>1. CASE Len(keys) = 1
    BY <1>9, <2>1 DEF OverPaths, base
  <2>2. CASE Len(keys) # 1
    <3>1. F[Tail(keys)] \in T /\ F[keys] = step[keys][F[Tail(keys)]]
      BY <1>9, <2>2, PathParts DEF OverPaths
    <3> QED
      BY <2>2, <3>1 DEF step
  <2> QED
    BY <2>1, <2>2
<1> QED
  BY <1>2, <1>9, <1>10 DEF OverPaths, T

\* What libbson finds is at the path too.
LEMMA DirectSound ==
  \A keys \in DottedPath : \A items \in Items :
    FindDirect[keys][items] # << >> => FindDirect[keys][items] \in Descends[keys][items]
<1> DEFINE P == {keys \in DottedPath : \A items \in Items :
                   FindDirect[keys][items] # << >> =>
                     FindDirect[keys][items] \in Descends[keys][items]}
<1>1. \A keys \in DottedPath : (Len(keys) # 1 => Tail(keys) \in P) => keys \in P
  <2> SUFFICES ASSUME NEW keys \in DottedPath, Len(keys) # 1 => Tail(keys) \in P,
                      NEW items \in Items, FindDirect[keys][items] # << >>
               PROVE  FindDirect[keys][items] \in Descends[keys][items]
    OBVIOUS
  <2> DEFINE key == keys[1]
             i == FirstOf(Exactly(key, items))
             v == items[i].val
  <2>1. CASE Len(keys) = 1
    <3>1. /\ FindDirect[keys][items] = DirectLast(key, items)
          /\ Descends[keys][items] = {<<j>> : j \in Named(key, items)}
      BY <2>1, DirectUnfold, DescendsUnfold
    <3>2. Exactly(key, items) # {} /\ FindDirect[keys][items] = <<i>>
      BY <3>1 DEF DirectLast
    <3>3. i \in Named(key, items)
      BY <3>2, ExactlyParts
    <3> QED
      BY <3>1, <3>2, <3>3
  <2>2. CASE Len(keys) # 1
    <3> DEFINE direct == FindDirect[Tail(keys)]
               rest == Descends[Tail(keys)]
    <3>1. /\ FindDirect[keys][items] = DirectBelow(direct, key, items)
          /\ Descends[keys][items] = BelowItems(rest, key, items)
      BY <2>2, DirectUnfold, DescendsUnfold
    <3>2. \A its \in Items : direct[its] # << >> => direct[its] \in rest[its]
      BY <2>2
    <3> HIDE DEF direct, rest
    <3>3. /\ Exactly(key, items) # {} /\ Container(v) /\ direct[v.items] # << >>
          /\ FindDirect[keys][items] = <<i>> \o direct[v.items]
      BY <3>1 DEF DirectBelow
    <3>4. i \in Named(key, items) /\ v.items \in Items
      BY <3>3, ExactlyParts
    <3>5. direct[v.items] \in AtValue(rest, v)
      BY <3>2, <3>3, <3>4 DEF AtValue
    <3>6. <<i>> \o direct[v.items] \in Below(i, AtValue(rest, v))
      BY <3>5 DEF Below
    <3> HIDE DEF i
    <3> QED
      BY <3>1, <3>3, <3>4, <3>6 DEF BelowItems
  <2> QED
    BY <2>1, <2>2
<1>2. P \subseteq DottedPath
  OBVIOUS
<1>3. P = DottedPath
  <2> HIDE DEF P
  <2> QED
    BY <1>1, <1>2, PathInduction
<1> QED
  BY <1>3
-----------------------------------------------------------------------------
(***************************************************************************)
(* Along a path of names the search gives the values one skip each: it     *)
(* gives none for two skips, and what it leaves of two skips is different. *)
(***************************************************************************)
NamesOnly(keys) == \A k \in DOMAIN keys : keys[k] \notin Positions \cup {"$any"}

Hit(r) == r.found /\ r.skip = 0

ApartAt(r, q) ==
  IF Hit(r) /\ Hit(q) THEN r.place # q.place
  ELSE ~Hit(r) /\ ~Hit(q) => r.found = q.found /\ r.skip # q.skip

Apart(search) ==
  \A items \in Items : \A s, t \in Nat : s # t => ApartAt(search[items][s], search[items][t])

\* A name finds nothing among the items of an array.
Blind(search) ==
  \A v \in Value : v.type = "array" => \A s \in Nat : search[v.items][s] = NotFound(s)

\* A place with something before it.
LEMMA UnderPlace ==
  ASSUME NEW i \in Nat, NEW p \in Seq(Nat)
  PROVE  /\ <<i>> \o p # << >>
         /\ (<<i>> \o p)[1] = i
         /\ \A q \in Seq(Nat) : <<i>> \o q = <<i>> \o p => q = p
<1>1. /\ Len(<<i>> \o p) = 1 + Len(p) /\ (<<i>> \o p)[1] = i /\ Len(p) \in Nat
      /\ Len(<< >>) = 0
  OBVIOUS
<1>2. <<i>> \o p # << >>
  <2> DEFINE u == <<i>> \o p
  <2>1. Len(u) # 0
    BY <1>1
  <2> HIDE DEF u
  <2>2. u # << >>
    BY <1>1, <2>1
  <2> QED
    BY <2>2 DEF u
<1>3. ASSUME NEW q \in Seq(Nat), <<i>> \o q = <<i>> \o p PROVE q = p
  <2>1. Len(<<i>> \o q) = 1 + Len(q) /\ Len(q) \in Nat
    OBVIOUS
  <2>2. Len(q) = Len(p)
    BY <1>1, <1>3, <2>1
  <2>3. ASSUME NEW k \in 1 .. Len(p) PROVE q[k] = p[k]
    <3>1. (<<i>> \o q)[k + 1] = q[k]
      BY <2>2, <2>3
    <3>2. (<<i>> \o p)[k + 1] = p[k]
      BY <2>3
    <3> QED
      BY <1>3, <3>1, <3>2
  <2> QED
    BY <2>2, <2>3, SeqEqual
<1> QED
  BY <1>1, <1>2, <1>3

\* What is found below an item at place k or later is there, at skip 0.
FromPlace(k, r) == r.found => r.skip = 0 /\ r.place # << >> /\ r.place[1] >= k

\* Two results below one item are apart as they are in it.
LEMMA UnderApart ==
  ASSUME NEW k \in Nat, NEW r \in Results, NEW q \in Results, ApartAt(r, q)
  PROVE  /\ ApartAt(Under(k, r), Under(k, q))
         /\ (r.found => r.skip = 0) => FromPlace(k, Under(k, r))
<1>1. /\ Under(k, r).place = <<k>> \o r.place /\ Under(k, q).place = <<k>> \o q.place
      /\ Under(k, r).found = r.found /\ Under(k, r).skip = r.skip
      /\ Under(k, q).found = q.found /\ Under(k, q).skip = q.skip
      /\ r.place \in Seq(Nat) /\ q.place \in Seq(Nat)
  BY ResultsParts
<1>2. /\ r.place # q.place => <<k>> \o r.place # <<k>> \o q.place
      /\ <<k>> \o r.place # << >> /\ (<<k>> \o r.place)[1] = k
  BY <1>1, UnderPlace
<1>3. ApartAt(Under(k, r), Under(k, q))
  <2>1. (Hit(Under(k, r)) <=> Hit(r)) /\ (Hit(Under(k, q)) <=> Hit(q))
    BY <1>1 DEF Hit
  <2>2. CASE Hit(r) /\ Hit(q)
    <3>1. r.place # q.place
      BY <2>2 DEF ApartAt
    <3>2. Under(k, r).place # Under(k, q).place
      BY <1>1, <1>2, <3>1
    <3> QED
      BY <2>1, <2>2, <3>2 DEF ApartAt
  <2>3. CASE ~(Hit(r) /\ Hit(q))
    <3>1. ~Hit(r) /\ ~Hit(q) => r.found = q.found /\ r.skip # q.skip
      BY <2>3 DEF ApartAt
    <3>2. ~Hit(r) /\ ~Hit(q) => Under(k, r).found = Under(k, q).found /\ Under(k, r).skip # Under(k, q).skip
      BY <1>1, <3>1
    <3> QED
      BY <2>1, <2>3, <3>2 DEF ApartAt
  <2> QED
    BY <2>2, <2>3
<1>4. (r.found => r.skip = 0) => FromPlace(k, Under(k, r))
  <2> SUFFICES ASSUME r.found => r.skip = 0, Under(k, r).found
               PROVE  Under(k, r).skip = 0 /\ Under(k, r).place # << >> /\ Under(k, r).place[1] >= k
    BY DEF FromPlace
  <2>1. Under(k, r).skip = 0
    BY <1>1
  <2>2. Under(k, r).place # << >> /\ Under(k, r).place[1] = k
    BY <1>1, <1>2
  <2> QED
    BY <2>1, <2>2
<1> QED
  BY <1>3, <1>4

\* A hit at one item and a result from a later one are apart.
LEMMA LaterApart ==
  ASSUME NEW k \in Nat, NEW r \in Results, Hit(r), NEW q \in Results, FromPlace(k + 1, q)
  PROVE  ApartAt(Under(k, r), q) /\ ApartAt(q, Under(k, r))
<1>1. /\ Under(k, r).place = <<k>> \o r.place /\ Hit(Under(k, r))
      /\ (<<k>> \o r.place)[1] = k
  BY ResultsParts, UnderPlace DEF Hit
<1>2. ASSUME Hit(q) PROVE q.place # Under(k, r).place
  <2>1. q.place[1] >= k + 1
    BY <1>2 DEF FromPlace, Hit
  <2> QED
    BY <1>1, <2>1
<1> QED
  BY <1>1, <1>2 DEF ApartAt
\* What is found from a later place on is found from an earlier one.
LEMMA FromEarlier ==
  ASSUME NEW k \in Nat, NEW r \in Results, FromPlace(k + 1, r)
  PROVE  FromPlace(k, r)
<1>1. ASSUME r.found PROVE r.skip = 0 /\ r.place # << >> /\ r.place[1] >= k
  <2>1. r.skip = 0 /\ r.place # << >> /\ r.place[1] >= k + 1
    BY <1>1 DEF FromPlace
  <2>2. r.place \in Seq(Nat)
    BY ResultsParts
  <2>3. r.place[1] \in Nat
    BY <2>1, <2>2
  <2> QED
    BY <2>1, <2>3
<1> QED
  BY <1>1 DEF FromPlace

\* Two that find nothing are apart if they leave different skips.
LEMMA NotFoundApart ==
  ASSUME NEW s \in Nat, NEW t \in Nat
  PROVE  /\ s # t => ApartAt(NotFound(s), NotFound(t))
         /\ \A k : FromPlace(k, NotFound(s))
BY ResultsParts DEF ApartAt, Hit, FromPlace

\* The elements of an array, one skip each, if each is searched that way.
LEMMA ElementsApart ==
  ASSUME NEW search \in Searches, Apart(search), NEW items \in Items,
         NEW s \in Nat
  PROVE  LET found == InSubDocuments(search, items)
         IN  /\ found[NotFound(s)] \in Results
             /\ found[NotFound(s)].found => found[NotFound(s)].skip = 0
             /\ \A t \in Nat : s # t => ApartAt(found[NotFound(s)], found[NotFound(t)])
<1> DEFINE n == Len(items)
<1>1. n \in Nat /\ DOMAIN items = 1 .. n
  BY ItemsParts
<1>2. PICK from : ElementsFrom(search, items, from)
  BY ElementsUnfold
<1> DEFINE Good(k) == \A a \in Nat : /\ FromPlace(k, from[k][NotFound(a)])
                                     /\ \A b \in Nat : a # b =>
                                          ApartAt(from[k][NotFound(a)], from[k][NotFound(b)])
           P == {k \in 1 .. n + 1 : Good(k)}
<1>3. \A k \in 1 .. n + 1 : (k # n + 1 => k + 1 \in P) => k \in P
  <2> SUFFICES ASSUME NEW k \in 1 .. n + 1, k # n + 1 => k + 1 \in P
               PROVE  Good(k)
    OBVIOUS
  <2>1. CASE k = n + 1
    <3>1. \A a \in Nat : from[k][NotFound(a)] = NotFound(a)
      BY <1>2, <2>1, ResultsParts DEF ElementsFrom
    <3> QED
      BY <3>1, NotFoundApart
  <2>2. CASE k # n + 1
    <3>1. k \in 1 .. n /\ k \in Nat /\ k + 1 \in 1 .. n + 1
      BY <1>1, <2>2
    <3>2. Good(k + 1)
      BY <2>2
    <3>3. from[k + 1] \in [Results -> Results]
      BY <1>2, <3>1 DEF ElementsFrom
    <3> DEFINE w == items[k].val
               at(a) == from[k][NotFound(a)]
               next(a) == from[k + 1][NotFound(a)]
               sub(a) == search[w.items][a]
               left(a) == IF sub(a).found THEN sub(a).skip - 1 ELSE sub(a).skip
    <3>4. ASSUME NEW a \in Nat
          PROVE  at(a) = IF ~Container(w) THEN next(a)
                         ELSE IF sub(a).found /\ sub(a).skip = 0 THEN Under(k, sub(a))
                         ELSE next(left(a))
      <4>1. NotFound(a) \in Results /\ NotFound(a).skip = a
        BY ResultsParts
      <4>2. at(a) = ElementStep(search, items, k, from[k + 1], NotFound(a))
        BY <1>2, <3>1, <4>1 DEF ElementsFrom
      <4> QED
        BY <4>1, <4>2 DEF ElementStep
    <3>5. ASSUME NEW a \in Nat
          PROVE  next(a) \in Results /\ FromPlace(k + 1, next(a)) /\ FromPlace(k, next(a))
      <4>1. next(a) \in Results
        BY <3>3, ResultsParts
      <4>2. FromPlace(k + 1, next(a))
        BY <3>2
      <4> HIDE DEF next
      <4> QED
        BY <3>1, <4>1, <4>2, FromEarlier
    <3>6. \A a, b \in Nat : a # b => ApartAt(next(a), next(b))
      BY <3>2
    <3> HIDE DEF at, next, Good
    <3>7. CASE ~Container(w)
      <4>1. \A a \in Nat : at(a) = next(a)
        BY <3>4, <3>7
      <4> QED
        BY <3>5, <3>6, <4>1 DEF Good, at
    <3>8. CASE Container(w)
      <4>1. w.items \in Items
        BY <1>1, <3>1, <3>8, ItemsParts
      <4>2. \A a \in Nat : sub(a) \in Results
        BY <4>1 DEF Searches
      <4>3. \A a, b \in Nat : a # b => ApartAt(sub(a), sub(b))
        BY <4>1 DEF Apart
      <4>4. \A a \in Nat : /\ sub(a).found \in BOOLEAN /\ sub(a).skip \in Nat
        BY <4>2, ResultsParts
      <4> HIDE DEF sub
      <4>5. ASSUME NEW a \in Nat, Hit(sub(a))
            PROVE  at(a) = Under(k, sub(a)) /\ FromPlace(k, Under(k, sub(a)))
        <5>1. at(a) = Under(k, sub(a))
          BY <3>4, <3>8, <4>5 DEF Hit
        <5>2. Under(k, sub(a)).place = <<k>> \o sub(a).place /\ Under(k, sub(a)).skip = sub(a).skip
              /\ sub(a).place \in Seq(Nat)
          BY <3>1, <4>2, ResultsParts
        <5>3. <<k>> \o sub(a).place # << >> /\ (<<k>> \o sub(a).place)[1] = k
          BY <3>1, <5>2, UnderPlace
        <5> QED
          BY <3>1, <4>5, <5>1, <5>2, <5>3 DEF FromPlace, Hit
      <4>6. ASSUME NEW a \in Nat, ~Hit(sub(a))
            PROVE  left(a) \in Nat /\ at(a) = next(left(a))
        <5>1. ~(sub(a).found /\ sub(a).skip = 0)
          BY <4>6 DEF Hit
        <5> QED
          BY <3>4, <3>8, <4>4, <5>1
      <4>7. ASSUME NEW a \in Nat PROVE FromPlace(k, at(a))
        <5>1. CASE Hit(sub(a))
          BY <4>5, <5>1
        <5>2. CASE ~Hit(sub(a))
          BY <3>5, <4>6, <5>2
        <5> QED
          BY <5>1, <5>2
      <4>8. ASSUME NEW a \in Nat, NEW b \in Nat, a # b PROVE ApartAt(at(a), at(b))
        <5>1. CASE Hit(sub(a)) /\ Hit(sub(b))
          <6>1. ApartAt(sub(a), sub(b))
            BY <4>3, <4>8
          <6>2. ApartAt(Under(k, sub(a)), Under(k, sub(b)))
            BY <3>1, <4>2, <6>1, UnderApart
          <6> QED
            BY <4>5, <5>1, <6>2
        <5>2. CASE Hit(sub(a)) /\ ~Hit(sub(b))
          <6>1. left(b) \in Nat /\ at(b) = next(left(b))
            BY <4>6, <5>2
          <6> HIDE DEF left
          <6>2. next(left(b)) \in Results /\ FromPlace(k + 1, next(left(b)))
            BY <3>5, <6>1
          <6>3. ApartAt(Under(k, sub(a)), next(left(b)))
            BY <3>1, <4>2, <5>2, <6>2, LaterApart
          <6> QED
            BY <4>5, <5>2, <6>1, <6>3
        <5>3. CASE ~Hit(sub(a)) /\ Hit(sub(b))
          <6>1. left(a) \in Nat /\ at(a) = next(left(a))
            BY <4>6, <5>3
          <6> HIDE DEF left
          <6>2. next(left(a)) \in Results /\ FromPlace(k + 1, next(left(a)))
            BY <3>5, <6>1
          <6>3. ApartAt(next(left(a)), Under(k, sub(b)))
            BY <3>1, <4>2, <5>3, <6>2, LaterApart
          <6> QED
            BY <4>5, <5>3, <6>1, <6>3
        <5>4. CASE ~Hit(sub(a)) /\ ~Hit(sub(b))
          <6>1. sub(a).found = sub(b).found /\ sub(a).skip # sub(b).skip
            BY <4>3, <4>8, <5>4 DEF ApartAt
          <6>2. left(a) # left(b)
            BY <4>4, <6>1
          <6>3. left(a) \in Nat /\ left(b) \in Nat /\ at(a) = next(left(a)) /\ at(b) = next(left(b))
            BY <4>6, <5>4
          <6> HIDE DEF left
          <6> QED
            BY <3>6, <6>2, <6>3
        <5> QED
          BY <5>1, <5>2, <5>3, <5>4
      <4> QED
        BY <4>7, <4>8 DEF Good, at
    <3> QED
      BY <3>7, <3>8
  <2> QED
    BY <2>1, <2>2
<1>4. P = 1 .. n + 1
  <2>1. P \subseteq 1 .. n + 1
    OBVIOUS
  <2> HIDE DEF P, n
  <2> QED
    BY <1>1, <1>3, <2>1, FromTheEnd
<1>5. Good(1) /\ InSubDocuments(search, items) = from[1] /\ from[1] \in [Results -> Results]
  <2>1. 1 \in P
    BY <1>1, <1>4
  <2>2. 1 \in 1 .. n + 1
    BY <1>1
  <2> QED
    BY <1>2, <2>1, <2>2 DEF ElementsFrom
<1>6. NotFound(s) \in Results
  BY ResultsParts
<1>7. FromPlace(1, from[1][NotFound(s)])
  BY <1>5
<1>8. \A t \in Nat : s # t => ApartAt(from[1][NotFound(s)], from[1][NotFound(t)])
  BY <1>5
<1> HIDE DEF Good
<1> QED
  BY <1>5, <1>6, <1>7, <1>8 DEF FromPlace
\* The items that a name names, one skip each, if each value is searched that way.
LEMMA ItemsApart ==
  ASSUME NEW search \in Searches, Apart(search), Blind(search), NEW key, NEW items \in Items,
         NEW s \in Nat
  PROVE  LET found == InItems(search, key, items)
         IN  /\ found[s].found => found[s].skip = 0
             /\ \A t \in Nat : s # t => ApartAt(found[s], found[t])
<1> DEFINE n == Len(items)
<1>1. n \in Nat /\ DOMAIN items = 1 .. n
  BY ItemsParts
<1>2. PICK from : ItemsFrom(search, key, items, from)
  BY ItemsUnfold
<1> DEFINE Good(k) == \A a \in Nat : /\ FromPlace(k, from[k][a])
                                     /\ \A b \in Nat : a # b => ApartAt(from[k][a], from[k][b])
           P == {k \in 1 .. n + 1 : Good(k)}
<1>3. \A k \in 1 .. n + 1 : (k # n + 1 => k + 1 \in P) => k \in P
  <2> SUFFICES ASSUME NEW k \in 1 .. n + 1, k # n + 1 => k + 1 \in P
               PROVE  Good(k)
    OBVIOUS
  <2>1. CASE k = n + 1
    <3>1. \A a \in Nat : from[k][a] = NotFound(a)
      BY <1>2, <2>1 DEF ItemsFrom
    <3> QED
      BY <3>1, NotFoundApart
  <2>2. CASE k # n + 1
    <3>1. k \in 1 .. n /\ k \in Nat /\ k + 1 \in 1 .. n + 1
      BY <1>1, <2>2
    <3>2. Good(k + 1)
      BY <2>2
    <3>3. from[k + 1] \in [Nat -> Results]
      BY <1>2, <3>1 DEF ItemsFrom
    <3> DEFINE v == items[k].val
               at(a) == from[k][a]
               next(a) == from[k + 1][a]
               sub(a) == search[v.items][a]
               arr(a) == InSubDocuments(search, v.items)[sub(a)]
               last == v.type = "doc" /\ \A j \in Named(key, items) : j <= k
    <3>4. ASSUME NEW a \in Nat
          PROVE  at(a) = IF k \notin Named(key, items) THEN next(a)
                         ELSE IF ~Container(v) THEN NotFound(a)
                         ELSE IF sub(a).found /\ sub(a).skip > 0
                              THEN IF last THEN NotFound(sub(a).skip) ELSE next(sub(a).skip - 1)
                         ELSE IF v.type = "doc" THEN Under(k, sub(a))
                         ELSE Under(k, arr(a))
      BY <1>2, <3>1 DEF ItemsFrom, ItemStep
    <3>5. ASSUME NEW a \in Nat
          PROVE  next(a) \in Results /\ FromPlace(k + 1, next(a)) /\ FromPlace(k, next(a))
      <4>1. next(a) \in Results
        BY <3>3
      <4>2. FromPlace(k + 1, next(a))
        BY <3>2
      <4> HIDE DEF next
      <4> QED
        BY <3>1, <4>1, <4>2, FromEarlier
    <3>6. \A a, b \in Nat : a # b => ApartAt(next(a), next(b))
      BY <3>2
    <3> HIDE DEF at, next, Good, last
    <3>7. CASE k \notin Named(key, items)
      <4>1. \A a \in Nat : at(a) = next(a)
        BY <3>4, <3>7
      <4> QED
        BY <3>5, <3>6, <4>1 DEF Good, at
    <3>8. CASE k \in Named(key, items) /\ ~Container(v)
      <4>1. \A a \in Nat : at(a) = NotFound(a)
        BY <3>4, <3>8
      <4> QED
        BY <4>1, NotFoundApart DEF Good, at
    <3>9. CASE k \in Named(key, items) /\ Container(v) /\ v.type = "array"
      <4>1. v \in Value /\ v.items \in Items
        BY <1>1, <3>1, <3>9, ItemsParts
      <4>2. \A a \in Nat : sub(a) = NotFound(a)
        BY <3>9, <4>1 DEF Blind
      <4> DEFINE el(a) == InSubDocuments(search, v.items)[NotFound(a)]
      <4>3. ASSUME NEW a \in Nat PROVE at(a) = Under(k, el(a))
        <5>1. ~sub(a).found /\ v.type # "doc"
          BY <3>9, <4>2, ResultsParts
        <5> QED
          BY <3>4, <3>9, <4>2, <5>1
      <4>4. ASSUME NEW a \in Nat
            PROVE  /\ el(a) \in Results
                   /\ el(a).found => el(a).skip = 0
                   /\ \A b \in Nat : a # b => ApartAt(el(a), el(b))
        BY <4>1, ElementsApart
      <4> HIDE DEF el
      <4>5. ASSUME NEW a \in Nat PROVE FromPlace(k, at(a))
        <5>1. a + 1 \in Nat /\ a # a + 1
          OBVIOUS
        <5>2. ApartAt(el(a), el(a + 1)) /\ el(a) \in Results /\ el(a + 1) \in Results
          BY <4>4, <5>1
        <5> QED
          BY <3>1, <4>3, <4>4, <5>2, UnderApart
      <4>6. ASSUME NEW a \in Nat, NEW b \in Nat, a # b PROVE ApartAt(at(a), at(b))
        <5>1. ApartAt(el(a), el(b)) /\ el(a) \in Results /\ el(b) \in Results
          BY <4>4, <4>6
        <5> QED
          BY <3>1, <4>3, <5>1, UnderApart
      <4> QED
        BY <4>5, <4>6 DEF Good, at
    <3>10. CASE k \in Named(key, items) /\ Container(v) /\ v.type # "array"
      <4>0. v.type = "doc"
        BY <3>10 DEF Container
      <4>1. v \in Value /\ v.items \in Items
        BY <1>1, <3>1, <3>10, ItemsParts
      <4>2. \A a \in Nat : sub(a) \in Results
        BY <4>1 DEF Searches
      <4>3. \A a, b \in Nat : a # b => ApartAt(sub(a), sub(b))
        BY <4>1 DEF Apart
      <4>4. \A a \in Nat : /\ sub(a).found \in BOOLEAN /\ sub(a).skip \in Nat
        BY <4>2, ResultsParts
      <4> HIDE DEF sub
      <4> DEFINE over(a) == IF last THEN NotFound(sub(a).skip) ELSE next(sub(a).skip - 1)
                 passed(a) == sub(a).found /\ sub(a).skip > 0
      <4>5. ASSUME NEW a \in Nat, ~passed(a)
            PROVE  at(a) = Under(k, sub(a)) /\ (sub(a).found => Hit(sub(a)))
        BY <3>4, <3>10, <4>0, <4>4, <4>5 DEF Hit
      <4>6. ASSUME NEW a \in Nat, passed(a)
            PROVE  /\ at(a) = over(a) /\ ~Hit(sub(a))
                   /\ over(a) \in Results /\ FromPlace(k + 1, over(a)) /\ FromPlace(k, over(a))
        <5>1. at(a) = over(a)
          BY <3>4, <3>10, <4>6
        <5>2. ~Hit(sub(a))
          BY <4>4, <4>6 DEF Hit
        <5>3. NotFound(sub(a).skip) \in Results
              /\ FromPlace(k + 1, NotFound(sub(a).skip)) /\ FromPlace(k, NotFound(sub(a).skip))
          BY <4>4, ResultsParts, NotFoundApart
        <5>4. sub(a).skip - 1 \in Nat
          BY <4>4, <4>6
        <5>5. /\ next(sub(a).skip - 1) \in Results
              /\ FromPlace(k + 1, next(sub(a).skip - 1)) /\ FromPlace(k, next(sub(a).skip - 1))
          BY <3>5, <5>4
        <5> QED
          BY <5>1, <5>2, <5>3, <5>5
      <4>7. ASSUME NEW a \in Nat PROVE FromPlace(k, at(a))
        <5>1. CASE passed(a)
          BY <4>6, <5>1
        <5>2. CASE ~passed(a)
          <6>1. sub(a).found => sub(a).skip = 0
            BY <4>5, <5>2 DEF Hit
          <6>2. a + 1 \in Nat /\ a # a + 1
            OBVIOUS
          <6>3. ApartAt(sub(a), sub(a + 1)) /\ sub(a) \in Results /\ sub(a + 1) \in Results
            BY <4>2, <4>3, <6>2
          <6> QED
            BY <3>1, <4>5, <5>2, <6>1, <6>3, UnderApart
        <5> QED
          BY <5>1, <5>2
      <4>8. ASSUME NEW a \in Nat, NEW b \in Nat, a # b PROVE ApartAt(at(a), at(b))
        <5>0. ApartAt(sub(a), sub(b))
          BY <4>3, <4>8
        <5>1. CASE ~passed(a) /\ ~passed(b)
          <6>1. ApartAt(Under(k, sub(a)), Under(k, sub(b)))
            BY <3>1, <4>2, <5>0, UnderApart
          <6> QED
            BY <4>5, <5>1, <6>1
        <5>2. CASE ~passed(a) /\ passed(b)
          <6> HIDE DEF over
          <6>1. CASE Hit(sub(a))
            <7>1. ApartAt(Under(k, sub(a)), over(b))
              BY <3>1, <4>2, <4>6, <5>2, <6>1, LaterApart
            <7> QED
              BY <4>5, <4>6, <5>2, <7>1
          <6>2. CASE ~Hit(sub(a))
            <7>1. ~sub(a).found /\ sub(b).found /\ ~Hit(sub(b))
              BY <4>5, <4>6, <5>2, <6>2
            <7>2. sub(a).found = sub(b).found
              BY <5>0, <6>2, <7>1 DEF ApartAt
            <7> QED
              BY <7>1, <7>2
          <6> QED
            BY <6>1, <6>2
        <5>3. CASE passed(a) /\ ~passed(b)
          <6> HIDE DEF over
          <6>1. CASE Hit(sub(b))
            <7>1. ApartAt(over(a), Under(k, sub(b)))
              BY <3>1, <4>2, <4>6, <5>3, <6>1, LaterApart
            <7> QED
              BY <4>5, <4>6, <5>3, <7>1
          <6>2. CASE ~Hit(sub(b))
            <7>1. ~sub(b).found /\ sub(a).found /\ ~Hit(sub(a))
              BY <4>5, <4>6, <5>3, <6>2
            <7>2. sub(a).found = sub(b).found
              BY <5>0, <6>2, <7>1 DEF ApartAt
            <7> QED
              BY <7>1, <7>2
          <6> QED
            BY <6>1, <6>2
        <5>4. CASE passed(a) /\ passed(b)
          <6>1. at(a) = over(a) /\ at(b) = over(b) /\ ~Hit(sub(a)) /\ ~Hit(sub(b))
            BY <4>6, <5>4
          <6>2. sub(a).skip # sub(b).skip
            BY <5>0, <6>1 DEF ApartAt
          <6>3. ApartAt(NotFound(sub(a).skip), NotFound(sub(b).skip))
            BY <4>4, <6>2, NotFoundApart
          <6>4. ApartAt(next(sub(a).skip - 1), next(sub(b).skip - 1))
            <7>1. /\ sub(a).skip - 1 \in Nat /\ sub(b).skip - 1 \in Nat
                  /\ sub(a).skip - 1 # sub(b).skip - 1
              BY <4>4, <5>4, <6>2
            <7> QED
              BY <3>6, <7>1
          <6> QED
            BY <6>1, <6>3, <6>4
        <5> QED
          BY <5>1, <5>2, <5>3, <5>4
      <4> QED
        BY <4>7, <4>8 DEF Good, at
    <3> QED
      BY <3>7, <3>8, <3>9, <3>10
  <2> QED
    BY <2>1, <2>2
<1>4. P = 1 .. n + 1
  <2>1. P \subseteq 1 .. n + 1
    OBVIOUS
  <2> HIDE DEF P, n
  <2> QED
    BY <1>1, <1>3, <2>1, FromTheEnd
<1>5. Good(1) /\ InItems(search, key, items) = from[1]
  <2>1. 1 \in P
    BY <1>1, <1>4
  <2> QED
    BY <1>2, <2>1 DEF ItemsFrom
<1>7. FromPlace(1, from[1][s])
  BY <1>5
<1>8. \A t \in Nat : s # t => ApartAt(from[1][s], from[1][t])
  BY <1>5
<1> HIDE DEF Good
<1> QED
  BY <1>5, <1>7, <1>8 DEF FromPlace

\* The path after a name is one of names if the whole is.
LEMMA NamesTail ==
  ASSUME NEW keys \in DottedPath, NamesOnly(keys)
  PROVE  /\ keys[1] \notin Positions \cup {"$any"}
         /\ Len(keys) # 1 => NamesOnly(Tail(keys))
<1>1. Len(keys) \in Nat \ {0} /\ DOMAIN keys = 1 .. Len(keys)
  BY PathParts DEF DottedPath
<1>2. keys[1] \notin Positions \cup {"$any"}
  BY <1>1 DEF NamesOnly
<1>3. ASSUME Len(keys) # 1 PROVE NamesOnly(Tail(keys))
  <2>1. /\ Tail(keys) \in DottedPath /\ Len(Tail(keys)) = Len(keys) - 1
        /\ \A i \in 1 .. Len(keys) - 1 : Tail(keys)[i] = keys[i + 1]
    BY <1>3, PathParts
  <2>2. DOMAIN Tail(keys) = 1 .. Len(keys) - 1
    BY <2>1 DEF DottedPath
  <2>3. \A i \in 1 .. Len(keys) - 1 : i + 1 \in DOMAIN keys
    BY <1>1
  <2> QED
    BY <2>1, <2>2, <2>3 DEF NamesOnly
<1> QED
  BY <1>2, <1>3

\* A name names nothing among the items of an array.
LEMMA NamedInArray ==
  ASSUME NEW key, key \notin Positions \cup {"$any"}, NEW v \in Value, v.type = "array"
  PROVE  Named(key, v.items) = {}
BY PositionsAssumption DEF Named

\* Where nothing is named nothing is found, and the skip is left as it is.
LEMMA NoneNamed ==
  ASSUME NEW search \in Searches, NEW key, NEW items \in Items, Named(key, items) = {}, NEW s \in Nat
  PROVE  InItems(search, key, items)[s] = NotFound(s)
<1> DEFINE n == Len(items)
<1>1. n \in Nat
  BY ItemsParts
<1>2. PICK from : ItemsFrom(search, key, items, from)
  BY ItemsUnfold
<1> DEFINE P == {k \in 1 .. n + 1 : from[k][s] = NotFound(s)}
<1>3. \A k \in 1 .. n + 1 : (k # n + 1 => k + 1 \in P) => k \in P
  <2> SUFFICES ASSUME NEW k \in 1 .. n + 1, k # n + 1 => k + 1 \in P
               PROVE  from[k][s] = NotFound(s)
    OBVIOUS
  <2>1. CASE k = n + 1
    BY <1>2, <2>1 DEF ItemsFrom
  <2>2. CASE k # n + 1
    <3>1. k \in 1 .. n
      BY <1>1, <2>2
    <3>2. from[k][s] = from[k + 1][s]
      BY <1>2, <3>1 DEF ItemsFrom, ItemStep
    <3> QED
      BY <2>2, <3>2
  <2> QED
    BY <2>1, <2>2
<1>4. P = 1 .. n + 1
  <2>1. P \subseteq 1 .. n + 1
    OBVIOUS
  <2> HIDE DEF P, n
  <2> QED
    BY <1>1, <1>3, <2>1, FromTheEnd
<1>5. 1 \in P
  BY <1>1, <1>4
<1> QED
  BY <1>2, <1>5 DEF ItemsFrom

\* Along a path of names each skip has its own value; and below the first name
\* what is found is found with no skip left.
LEMMA SearchApart ==
  \A keys \in DottedPath : NamesOnly(keys) =>
    /\ Apart(FindDescendants[keys])
    /\ Blind(FindDescendants[keys])
    /\ Len(keys) # 1 => \A items \in Items : \A s \in Nat :
         FindDescendants[keys][items][s].found => FindDescendants[keys][items][s].skip = 0
<1> DEFINE Good(keys) ==
             /\ Apart(FindDescendants[keys])
             /\ Blind(FindDescendants[keys])
             /\ Len(keys) # 1 => \A items \in Items : \A s \in Nat :
                  FindDescendants[keys][items][s].found => FindDescendants[keys][items][s].skip = 0
           P == {keys \in DottedPath : NamesOnly(keys) => Good(keys)}
<1>1. \A keys \in DottedPath : (Len(keys) # 1 => Tail(keys) \in P) => keys \in P
  <2> SUFFICES ASSUME NEW keys \in DottedPath, Len(keys) # 1 => Tail(keys) \in P, NamesOnly(keys)
               PROVE  Good(keys)
    OBVIOUS
  <2> DEFINE key == keys[1]
  <2>0. key \notin Positions \cup {"$any"}
    BY NamesTail
  <2>a. \A v \in Value : v.type = "array" => Container(v) /\ v.items \in Items /\ Named(key, v.items) = {}
    BY <2>0, NamedInArray, ValueAssumption DEF Container
  <2>1. CASE Len(keys) = 1
    <3>1. \A items \in Items : \A s \in Nat :
            FindDescendants[keys][items][s]
              = IF Named(key, items) = {} THEN NotFound(s)
                ELSE Result(TRUE, s, <<FirstOf(Named(key, items))>>)
      <4>1. \A items \in Items : FindDescendants[keys][items] = [s \in Nat |-> LastKey(items, key, s)]
        BY <2>1, SearchUnfold
      <4>2. key # "$any"
        BY <2>0
      <4> HIDE DEF key
      <4> QED
        BY <4>1, <4>2 DEF LastKey
    <3>2. Blind(FindDescendants[keys])
      BY <2>a, <3>1 DEF Blind
    <3>3. ASSUME NEW items \in Items, NEW s \in Nat, NEW t \in Nat, s # t
          PROVE  ApartAt(FindDescendants[keys][items][s], FindDescendants[keys][items][t])
      <4>1. CASE Named(key, items) = {}
        BY <3>1, <3>3, <4>1, NotFoundApart
      <4>2. CASE Named(key, items) # {}
        <5> DEFINE p == <<FirstOf(Named(key, items))>>
        <5>1. FirstOf(Named(key, items)) \in Nat
          BY <4>2, NamedPlaces, FirstOfIs
        <5>2. p \in Seq(Nat)
          BY <5>1
        <5> HIDE DEF p
        <5>4. /\ Result(TRUE, s, p).found /\ Result(TRUE, s, p).skip = s
              /\ Result(TRUE, t, p).found /\ Result(TRUE, t, p).skip = t
              /\ Result(TRUE, s, p).found = Result(TRUE, t, p).found
          BY <5>2 DEF Result
        <5>3. ApartAt(Result(TRUE, s, p), Result(TRUE, t, p))
          BY <3>3, <5>4 DEF ApartAt, Hit
        <5> QED
          BY <3>1, <4>2, <5>3 DEF p
      <4> QED
        BY <4>1, <4>2
    <3>4. Apart(FindDescendants[keys])
      BY <3>3 DEF Apart
    <3> QED
      BY <2>1, <3>2, <3>4
  <2>2. CASE Len(keys) # 1
    <3> DEFINE search == FindDescendants[Tail(keys)]
    <3>1. /\ search \in Searches
          /\ \A items \in Items : FindDescendants[keys][items] = InItems(search, key, items)
      BY <2>2, PathParts, SearchUnfold
    <3>2. Apart(search) /\ Blind(search)
      BY <2>2, NamesTail
    <3> HIDE DEF search, key
    <3>3. \A items \in Items : \A s \in Nat :
            /\ FindDescendants[keys][items][s].found => FindDescendants[keys][items][s].skip = 0
            /\ \A t \in Nat : s # t =>
                 ApartAt(FindDescendants[keys][items][s], FindDescendants[keys][items][t])
      BY <3>1, <3>2, ItemsApart
    <3>4. Blind(FindDescendants[keys])
      BY <2>a, <3>1, NoneNamed DEF Blind
    <3> QED
      BY <3>3, <3>4 DEF Apart
  <2> QED
    BY <2>1, <2>2
<1>2. P \subseteq DottedPath
  OBVIOUS
<1>3. P = DottedPath
  <2> HIDE DEF P
  <2> QED
    BY <1>1, <1>2, PathInduction
<1> QED
  BY <1>3
-----------------------------------------------------------------------------
(***************************************************************************)
(* Along a path of names that leads to something the first call finds it.  *)
(***************************************************************************)
NamedOnce(key, items) == \A i, j \in Named(key, items) : i = j

OnceAt(rest, v) ==
  Container(v) => rest[v.items] /\ \A k \in Entered(v) : rest[v.items[k].val.items]

OnceItems(rest, key, items) ==
  NamedOnce(key, items) /\ \A i \in Named(key, items) : OnceAt(rest, items[i].val)

\* A path has a key.
LEMMA LongPath ==
  ASSUME NEW keys \in DottedPath, Len(keys) # 1
  PROVE  Len(keys) > 1
<1> DEFINE m == Len(keys)
<1>1. m \in Nat /\ m # 0 /\ m # 1
  BY PathParts
<1> HIDE DEF m
<1>2. m > 1
  BY <1>1
<1> QED
  BY <1>2 DEF m

\* KeysOnce, a key at a time.
LEMMA OnceUnfold ==
  /\ KeysOnce \in [DottedPath -> [Items -> BOOLEAN]]
  /\ \A keys \in DottedPath : \A items \in Items :
       KeysOnce[keys][items]
         = IF Len(keys) = 1 THEN NamedOnce(keys[1], items)
           ELSE OnceItems(KeysOnce[Tail(keys)], keys[1], items)
<1> DEFINE T == [Items -> BOOLEAN]
           base == [keys \in DottedPath |-> [items \in Items |-> NamedOnce(keys[1], items)]]
           step == [keys \in DottedPath |-> [g \in T |->
                      [items \in Items |-> OnceItems(g, keys[1], items)]]]
<1>1. PathStep(T, base, step)
  <2>1. \A key, items : NamedOnce(key, items) \in BOOLEAN
    BY DEF NamedOnce
  <2>2. base \in [DottedPath -> T]
    BY <2>1
  <2>3. \A g, key, items : OnceItems(g, key, items) \in BOOLEAN
    BY DEF OnceItems
  <2>4. step \in [DottedPath -> [T -> T]]
    BY <2>3
  <2> QED
    BY <2>2, <2>4 DEF PathStep
<1> DEFINE Body(h, keys) ==
             [items \in Items |->
                LET rest  == h[Tail(keys)]
                    At(v) == Container(v) =>
                               rest[v.items] /\ \A k \in Entered(v) : rest[v.items[k].val.items]
                IN  /\ \A i, j \in Named(keys[1], items) : i = j
                    /\ Len(keys) > 1 => \A i \in Named(keys[1], items) : At(items[i].val)]
           Eqn(h) == h = [keys \in DottedPath |-> Body(h, keys)]
           F == CHOOSE h : Eqn(h)
<1>2. KeysOnce = F
  BY DEF KeysOnce
<1>3. \A h : \A keys \in DottedPath : Len(keys) = 1 => Body(h, keys) = base[keys]
  <2> TAKE h
  <2> TAKE keys \in DottedPath
  <2> HAVE Len(keys) = 1
  <2>1. base[keys] = [items \in Items |-> NamedOnce(keys[1], items)]
    OBVIOUS
  <2> HIDE DEF base
  <2>0. ~(Len(keys) > 1)
    OBVIOUS
  <2>2. \A items \in Items : Body(h, keys)[items] = NamedOnce(keys[1], items)
    BY <2>0, Zenon DEF NamedOnce
  <2>3. Body(h, keys) = [items \in Items |-> Body(h, keys)[items]]
    OBVIOUS
  <2> HIDE DEF Body
  <2> QED
    BY <2>1, <2>2, <2>3
<1>4. \A h : \A keys \in DottedPath :
         Len(keys) # 1 /\ h[Tail(keys)] \in T => Body(h, keys) = step[keys][h[Tail(keys)]]
  <2> TAKE h
  <2> TAKE keys \in DottedPath
  <2> HAVE Len(keys) # 1 /\ h[Tail(keys)] \in T
  <2>1. step[keys][h[Tail(keys)]] = [items \in Items |-> OnceItems(h[Tail(keys)], keys[1], items)]
    OBVIOUS
  <2> HIDE DEF step
  <2>0. Len(keys) > 1
    BY LongPath
  <2>2. \A items \in Items : Body(h, keys)[items] = OnceItems(h[Tail(keys)], keys[1], items)
    BY <2>0, Zenon DEF OnceItems, OnceAt, NamedOnce
  <2>3. Body(h, keys) = [items \in Items |-> Body(h, keys)[items]]
    OBVIOUS
  <2> HIDE DEF Body
  <2> QED
    BY <2>1, <2>2, <2>3
<1> HIDE DEF Body, base, step, T
<1>5. PICK f : OverPaths(T, base, step, f)
  BY <1>1, PathRecursion
<1>6. Eqn(f)
  <2>1. f \in [DottedPath -> T]
    BY <1>5 DEF OverPaths
  <2>2. \A keys \in DottedPath : f[keys] = Body(f, keys)
    BY <1>3, <1>4, <1>5, PathParts DEF OverPaths
  <2> QED
    BY <2>1, <2>2
<1>7. Eqn(F)
  <2> HIDE DEF Eqn
  <2> QED
    BY <1>6
<1> HIDE DEF F
<1>8. Follows(T, base, step, F)
  <2>1. F = [keys \in DottedPath |-> F[keys]] /\ \A keys \in DottedPath : F[keys] = Body(F, keys)
    BY <1>7
  <2> QED
    BY <1>3, <1>4, <2>1 DEF Follows
<1>9. OverPaths(T, base, step, F)
  BY <1>1, <1>8, FollowsIs
<1>10. ASSUME NEW keys \in DottedPath, NEW items \in Items
       PROVE  F[keys][items] = IF Len(keys) = 1 THEN NamedOnce(keys[1], items)
                               ELSE OnceItems(F[Tail(keys)], keys[1], items)
  <2>1. CASE Len(keys) = 1
    <3>1. F[keys][items] = NamedOnce(keys[1], items)
      BY <1>9, <2>1 DEF OverPaths, base
    <3> QED
      BY <2>1, <3>1
  <2>2. CASE Len(keys) # 1
    <3>1. F[Tail(keys)] \in T /\ F[keys] = step[keys][F[Tail(keys)]]
      BY <1>9, <2>2, PathParts DEF OverPaths
    <3>2. F[keys][items] = OnceItems(F[Tail(keys)], keys[1], items)
      BY <3>1 DEF step
    <3> QED
      BY <2>2, <3>2
  <2> QED
    BY <2>1, <2>2
<1> QED
  BY <1>2, <1>9, <1>10 DEF OverPaths, T

\* A call with nothing to skip leaves nothing.
Zero(search) == \A items \in Items : search[items][0].skip = 0

\* If what once says holds, there is a first value where there is one at all.
First(search, once, rest) ==
  \A items \in Items : once[items] /\ rest[items] # {} => Hit(search[items][0])

\* The elements leave nothing to skip where there was nothing.
LEMMA ElementsZero ==
  ASSUME NEW search \in Searches, Zero(search), NEW items \in Items,
         NEW last \in Results, last.skip = 0
  PROVE  InSubDocuments(search, items)[last].skip = 0
<1> DEFINE n == Len(items)
<1>1. n \in Nat
  BY ItemsParts
<1>2. PICK from : ElementsFrom(search, items, from)
  BY ElementsUnfold
<1> DEFINE P == {k \in 1 .. n + 1 : \A r \in Results : r.skip = 0 => from[k][r].skip = 0}
<1>3. \A k \in 1 .. n + 1 : (k # n + 1 => k + 1 \in P) => k \in P
  <2> SUFFICES ASSUME NEW k \in 1 .. n + 1, k # n + 1 => k + 1 \in P,
                      NEW r \in Results, r.skip = 0
               PROVE  from[k][r].skip = 0
    OBVIOUS
  <2>1. CASE k = n + 1
    BY <1>2, <2>1 DEF ElementsFrom
  <2>2. CASE k # n + 1
    <3>1. k \in 1 .. n /\ k \in Nat
      BY <1>1, <2>2
    <3> DEFINE w == items[k].val
               sub == search[w.items][0]
    <3>2. from[k][r] = IF ~Container(w) THEN from[k + 1][r]
                       ELSE IF sub.found /\ sub.skip = 0 THEN Under(k, sub)
                       ELSE from[k + 1][NotFound(IF sub.found THEN sub.skip - 1 ELSE sub.skip)]
      <4>1. from[k][r] = ElementStep(search, items, k, from[k + 1], r)
        BY <1>2, <3>1 DEF ElementsFrom
      <4> QED
        BY <4>1 DEF ElementStep
    <3>3. \A q \in Results : q.skip = 0 => from[k + 1][q].skip = 0
      BY <2>2
    <3>4. CASE ~Container(w)
      BY <3>2, <3>3, <3>4
    <3>5. CASE Container(w)
      <4>1. w.items \in Items
        BY <3>1, <3>5, ItemsParts
      <4>2. sub \in Results /\ sub.skip = 0
        BY <4>1 DEF Searches, Zero
      <4> HIDE DEF sub, w
      <4>3. from[k][r] = IF sub.found THEN Under(k, sub) ELSE from[k + 1][NotFound(0)]
        BY <3>2, <3>5, <4>2
      <4>4. Under(k, sub).skip = 0 /\ NotFound(0) \in Results /\ NotFound(0).skip = 0
        BY <3>1, <4>2, ResultsParts
      <4> QED
        BY <3>3, <4>3, <4>4
    <3> QED
      BY <3>4, <3>5
  <2> QED
    BY <2>1, <2>2
<1>4. P = 1 .. n + 1
  <2>1. P \subseteq 1 .. n + 1
    OBVIOUS
  <2> HIDE DEF P, n
  <2> QED
    BY <1>1, <1>3, <2>1, FromTheEnd
<1>5. 1 \in P
  BY <1>1, <1>4
<1> QED
  BY <1>2, <1>5 DEF ElementsFrom

\* Nor do the items.
LEMMA ItemsZero ==
  ASSUME NEW search \in Searches, Zero(search), NEW key, NEW items \in Items
  PROVE  InItems(search, key, items)[0].skip = 0
<1> DEFINE n == Len(items)
<1>1. n \in Nat
  BY ItemsParts
<1>2. PICK from : ItemsFrom(search, key, items, from)
  BY ItemsUnfold
<1> DEFINE P == {k \in 1 .. n + 1 : from[k][0].skip = 0}
<1>3. \A k \in 1 .. n + 1 : (k # n + 1 => k + 1 \in P) => k \in P
  <2> SUFFICES ASSUME NEW k \in 1 .. n + 1, k # n + 1 => k + 1 \in P
               PROVE  from[k][0].skip = 0
    OBVIOUS
  <2>1. CASE k = n + 1
    BY <1>2, <2>1, ResultsParts DEF ItemsFrom
  <2>2. CASE k # n + 1
    <3>1. k \in 1 .. n /\ k \in Nat
      BY <1>1, <2>2
    <3> DEFINE v == items[k].val
               sub == search[v.items][0]
               arr == InSubDocuments(search, v.items)[sub]
    <3>2. from[k][0] = IF k \notin Named(key, items) THEN from[k + 1][0]
                       ELSE IF ~Container(v) THEN NotFound(0)
                       ELSE IF sub.found /\ sub.skip > 0
                            THEN IF v.type = "doc" /\ \A j \in Named(key, items) : j <= k
                                 THEN NotFound(sub.skip)
                                 ELSE from[k + 1][sub.skip - 1]
                       ELSE IF v.type = "doc" THEN Under(k, sub)
                       ELSE Under(k, arr)
      BY <1>2, <3>1 DEF ItemsFrom, ItemStep
    <3>3. from[k + 1][0].skip = 0 /\ NotFound(0).skip = 0
      BY <2>2, ResultsParts
    <3>4. CASE k \notin Named(key, items) \/ ~Container(v)
      BY <3>2, <3>3, <3>4
    <3>5. CASE k \in Named(key, items) /\ Container(v)
      <4>1. v.items \in Items
        BY <3>1, <3>5, ItemsParts
      <4>2. sub \in Results /\ sub.skip = 0
        BY <4>1 DEF Searches, Zero
      <4>3. arr \in Results /\ arr.skip = 0
        <5> HIDE DEF sub
        <5> QED
          BY <4>1, <4>2, ElementsZero, ElementsType
      <4> HIDE DEF sub, arr, v
      <4>4. from[k][0] = IF v.type = "doc" THEN Under(k, sub) ELSE Under(k, arr)
        BY <3>2, <3>5, <4>2
      <4>5. \A r \in Results : Under(k, r).skip = r.skip
        BY <3>1, ResultsParts
      <4>6. Under(k, sub).skip = 0 /\ Under(k, arr).skip = 0
        BY <4>2, <4>3, <4>5
      <4> QED
        BY <4>4, <4>6
    <3> QED
      BY <3>4, <3>5
  <2> QED
    BY <2>1, <2>2
<1>4. P = 1 .. n + 1
  <2>1. P \subseteq 1 .. n + 1
    OBVIOUS
  <2> HIDE DEF P, n
  <2> QED
    BY <1>1, <1>3, <2>1, FromTheEnd
<1>5. 1 \in P
  BY <1>1, <1>4
<1> QED
  BY <1>2, <1>5 DEF ItemsFrom
\* A path of names leads nowhere from the items of an array.
NothingIn(rest) == \A v \in Value : v.type = "array" => rest[v.items] = {}

\* What is found below an item is found.
LEMMA UnderHit ==
  ASSUME NEW i \in Nat, NEW r \in Results, Hit(r)
  PROVE  Hit(Under(i, r))
BY ResultsParts DEF Hit

\* The first call finds something, if there is something in an element.
LEMMA ElementsFirst ==
  ASSUME NEW search \in Searches, Zero(search), NEW once, NEW rest, First(search, once, rest),
         NEW v \in Value, Container(v), \A k \in Entered(v) : once[v.items[k].val.items],
         \E k \in Entered(v) : rest[v.items[k].val.items] # {}
  PROVE  Hit(InSubDocuments(search, v.items)[NotFound(0)])
<1> DEFINE items == v.items
           n == Len(items)
           some(k) == \E j \in Entered(v) : j >= k /\ rest[items[j].val.items] # {}
<1>1. items \in Items /\ n \in Nat /\ DOMAIN items = 1 .. n
  BY EnteredParts, ItemsParts
<1>2. PICK from : ElementsFrom(search, items, from)
  BY <1>1, ElementsUnfold
<1>a. NotFound(0) \in Results /\ NotFound(0).skip = 0
  BY ResultsParts
<1>b. Entered(v) \subseteq 1 .. n
  BY EnteredParts
<1> DEFINE P == {k \in 1 .. n + 1 : some(k) => Hit(from[k][NotFound(0)])}
<1>3. \A k \in 1 .. n + 1 : (k # n + 1 => k + 1 \in P) => k \in P
  <2> SUFFICES ASSUME NEW k \in 1 .. n + 1, k # n + 1 => k + 1 \in P, some(k)
               PROVE  Hit(from[k][NotFound(0)])
    OBVIOUS
  <2>1. PICK j \in Entered(v) : j >= k /\ rest[items[j].val.items] # {}
    OBVIOUS
  <2>2. k \in 1 .. n /\ k \in Nat /\ j \in Nat /\ k + 1 \in P
    <3>1. j \in 1 .. n
      BY <1>b, <2>1
    <3>2. k # n + 1
      BY <1>1, <2>1, <3>1
    <3>3. k + 1 \in P
      BY <3>2
    <3> HIDE DEF P
    <3> QED
      BY <1>1, <3>1, <3>2, <3>3
  <2>3. j # k => Hit(from[k + 1][NotFound(0)])
    <3>1. j # k => j >= k + 1
      BY <2>1, <2>2
    <3>2. some(k + 1) => Hit(from[k + 1][NotFound(0)])
      BY <2>2
    <3> QED
      BY <2>1, <3>1, <3>2
  <2> DEFINE w == items[k].val
             sub == search[w.items][0]
  <2>4. from[k][NotFound(0)]
          = IF ~Container(w) THEN from[k + 1][NotFound(0)]
            ELSE IF sub.found /\ sub.skip = 0 THEN Under(k, sub)
            ELSE from[k + 1][NotFound(IF sub.found THEN sub.skip - 1 ELSE sub.skip)]
    <3>1. from[k][NotFound(0)] = ElementStep(search, items, k, from[k + 1], NotFound(0))
      BY <1>2, <1>a, <2>2 DEF ElementsFrom
    <3> QED
      BY <1>a, <3>1 DEF ElementStep
  <2>5. CASE ~Container(w)
    <3>1. j # k
      BY <2>5, EnteredParts
    <3> QED
      BY <2>3, <2>4, <2>5, <3>1
  <2>6. CASE Container(w)
    <3>1. w.items \in Items
      BY <1>1, <2>2, <2>6, ItemsParts
    <3>2. sub \in Results /\ sub.skip = 0
      BY <3>1 DEF Searches, Zero
    <3>3. CASE sub.found
      <4> HIDE DEF sub
      <4>1. from[k][NotFound(0)] = Under(k, sub)
        BY <2>4, <2>6, <3>2, <3>3
      <4> QED
        BY <2>2, <3>2, <3>3, <4>1, UnderHit DEF Hit
    <3>4. CASE ~sub.found
      <4>1. j # k
        <5>1. SUFFICES ASSUME j = k PROVE FALSE
          OBVIOUS
        <5>2. once[w.items] /\ rest[w.items] # {}
          BY <2>1, <5>1
        <5>3. Hit(sub)
          BY <3>1, <5>2 DEF First
        <5> QED
          BY <3>4, <5>3 DEF Hit
      <4> HIDE DEF sub
      <4>2. from[k][NotFound(0)] = from[k + 1][NotFound(0)]
        BY <2>4, <2>6, <3>2, <3>4
      <4> QED
        BY <2>3, <4>1, <4>2
    <3> QED
      BY <3>3, <3>4
  <2> QED
    BY <2>5, <2>6
<1>4. P = 1 .. n + 1
  <2>1. P \subseteq 1 .. n + 1
    OBVIOUS
  <2> HIDE DEF P, n
  <2> QED
    BY <1>1, <1>3, <2>1, FromTheEnd
<1>5. 1 \in P
  BY <1>1, <1>4
<1>6. some(1)
  <2>1. \A j \in Entered(v) : j >= 1
    BY <1>1, <1>b
  <2> QED
    BY <2>1
<1> QED
  BY <1>2, <1>5, <1>6 DEF ElementsFrom

\* And if there is something in an item.
LEMMA ItemsFirst ==
  ASSUME NEW search \in Searches, Zero(search), Blind(search),
         NEW once, NEW rest, First(search, once, rest), NothingIn(rest),
         NEW key, NEW items \in Items, OnceItems(once, key, items), BelowItems(rest, key, items) # {}
  PROVE  Hit(InItems(search, key, items)[0])
<1> DEFINE n == Len(items)
<1>1. n \in Nat /\ DOMAIN items = 1 .. n
  BY ItemsParts
<1>2. PICK from : ItemsFrom(search, key, items, from)
  BY ItemsUnfold
<1>3. PICK i \in Named(key, items) : AtValue(rest, items[i].val) # {}
  BY DEF BelowItems, Below
<1>4. i \in 1 .. n /\ i \in Nat /\ \A j \in Named(key, items) : j = i
  BY NamedPlaces DEF OnceItems, NamedOnce
<1> DEFINE v == items[i].val
           sub == search[v.items][0]
           arr == InSubDocuments(search, v.items)[sub]
<1>5. v \in Value /\ Container(v) /\ v.items \in Items
  <2>1. Container(v)
    BY <1>3 DEF AtValue
  <2> QED
    BY <1>1, <1>4, <2>1, ItemsParts
<1>6. sub \in Results /\ sub.skip = 0
  BY <1>5 DEF Searches, Zero
<1>7. Hit(from[i][0])
  <2>1. from[i][0] = IF v.type = "doc" THEN Under(i, sub) ELSE Under(i, arr)
    <3>1. from[i][0] = ItemStep(search, key, items, i, from[i + 1], 0)
      BY <1>2, <1>4 DEF ItemsFrom
    <3> QED
      BY <1>3, <1>5, <1>6, <3>1 DEF ItemStep
  <2>2. once[v.items] /\ \A k \in Entered(v) : once[v.items[k].val.items]
    BY <1>3, <1>5 DEF OnceItems, OnceAt
  <2>3. AtValue(rest, v)
          = rest[v.items] \cup UNION {Below(k, rest[v.items[k].val.items]) : k \in Entered(v)}
    BY <1>5 DEF AtValue
  <2>4. CASE v.type = "doc"
    <3>1. Entered(v) = {}
      BY <2>4 DEF Entered
    <3>2. rest[v.items] # {}
      BY <1>3, <2>3, <3>1
    <3>3. Hit(sub)
      BY <1>5, <2>2, <3>2 DEF First
    <3> HIDE DEF sub
    <3> QED
      BY <1>4, <1>6, <2>1, <2>4, <3>3, UnderHit
  <2>5. CASE v.type # "doc"
    <3>1. v.type = "array"
      BY <1>5, <2>5 DEF Container
    <3>2. sub = NotFound(0) /\ rest[v.items] = {}
      BY <1>5, <3>1 DEF Blind, NothingIn
    <3>3. \E k \in Entered(v) : rest[v.items[k].val.items] # {}
      <4>1. PICK p : p \in AtValue(rest, v)
        BY <1>3
      <4>2. p \in UNION {Below(k, rest[v.items[k].val.items]) : k \in Entered(v)}
        BY <2>3, <3>2, <4>1
      <4>3. PICK k \in Entered(v) : p \in Below(k, rest[v.items[k].val.items])
        BY <4>2
      <4>4. rest[v.items[k].val.items] # {}
        BY <4>3 DEF Below
      <4> QED
        BY <4>4
    <3>4. Hit(arr)
      <4> HIDE DEF sub, v
      <4> QED
        BY <1>5, <2>2, <3>2, <3>3, ElementsFirst
    <3>5. arr \in Results
      <4> HIDE DEF sub, v
      <4> QED
        BY <1>5, <1>6, ElementsType
    <3> HIDE DEF arr
    <3> QED
      BY <1>4, <2>1, <2>5, <3>4, <3>5, UnderHit
  <2> QED
    BY <2>4, <2>5
<1> DEFINE P == {k \in 1 .. n + 1 : k <= i => Hit(from[k][0])}
<1>8. \A k \in 1 .. n + 1 : (k # n + 1 => k + 1 \in P) => k \in P
  <2> SUFFICES ASSUME NEW k \in 1 .. n + 1, k # n + 1 => k + 1 \in P, k <= i
               PROVE  Hit(from[k][0])
    OBVIOUS
  <2>1. CASE k = i
    BY <1>7, <2>1
  <2>2. CASE k # i
    <3>1. k \in 1 .. n /\ k + 1 \in 1 .. n + 1 /\ k + 1 <= i /\ k + 1 \in P
      BY <1>1, <1>4, <2>2
    <3>2. k \notin Named(key, items)
      BY <1>4, <2>2
    <3>3. from[k][0] = from[k + 1][0]
      BY <1>2, <3>1, <3>2 DEF ItemsFrom, ItemStep
    <3> QED
      BY <3>1, <3>3
  <2> QED
    BY <2>1, <2>2
<1>9. P = 1 .. n + 1
  <2>1. P \subseteq 1 .. n + 1
    OBVIOUS
  <2> HIDE DEF P, n
  <2> QED
    BY <1>1, <1>8, <2>1, FromTheEnd
<1>10. 1 \in P /\ 1 <= i
  BY <1>1, <1>4, <1>9
<1> QED
  BY <1>2, <1>10 DEF ItemsFrom

\* And if the path leads anywhere.
LEMMA SearchFirst ==
  \A keys \in DottedPath : NamesOnly(keys) =>
    /\ Zero(FindDescendants[keys])
    /\ First(FindDescendants[keys], KeysOnce[keys], Descends[keys])
    /\ NothingIn(Descends[keys])
<1> DEFINE Good(keys) ==
             /\ Zero(FindDescendants[keys])
             /\ First(FindDescendants[keys], KeysOnce[keys], Descends[keys])
             /\ NothingIn(Descends[keys])
           P == {keys \in DottedPath : NamesOnly(keys) => Good(keys)}
<1>1. \A keys \in DottedPath : (Len(keys) # 1 => Tail(keys) \in P) => keys \in P
  <2> SUFFICES ASSUME NEW keys \in DottedPath, Len(keys) # 1 => Tail(keys) \in P, NamesOnly(keys)
               PROVE  Good(keys)
    OBVIOUS
  <2> DEFINE key == keys[1]
  <2>0. key \notin Positions \cup {"$any"}
    BY NamesTail
  <2>a. \A v \in Value : v.type = "array" => Container(v) /\ v.items \in Items /\ Named(key, v.items) = {}
    BY <2>0, NamedInArray, ValueAssumption DEF Container
  <2>1. CASE Len(keys) = 1
    <3>1. \A items \in Items :
            FindDescendants[keys][items][0]
              = IF Named(key, items) = {} THEN NotFound(0)
                ELSE Result(TRUE, 0, <<FirstOf(Named(key, items))>>)
      <4>1. \A items \in Items : FindDescendants[keys][items] = [s \in Nat |-> LastKey(items, key, s)]
        BY <2>1, SearchUnfold
      <4>2. key # "$any"
        BY <2>0
      <4> HIDE DEF key
      <4> QED
        BY <4>1, <4>2 DEF LastKey
    <3>2. \A items \in Items : Descends[keys][items] = {<<i>> : i \in Named(key, items)}
      BY <2>1, DescendsUnfold
    <3> HIDE DEF key
    <3>3. Zero(FindDescendants[keys])
      <4>1. NotFound(0).skip = 0 /\ \A p : Result(TRUE, 0, p).skip = 0
        BY DEF NotFound, Result
      <4>2. ASSUME NEW items \in Items PROVE FindDescendants[keys][items][0].skip = 0
        <5>1. CASE Named(key, items) = {}
          BY <3>1, <4>1, <5>1
        <5>2. CASE Named(key, items) # {}
          BY <3>1, <4>1, <5>2
        <5> QED
          BY <5>1, <5>2
      <4> QED
        BY <4>2 DEF Zero
    <3>4. First(FindDescendants[keys], KeysOnce[keys], Descends[keys])
      <4>1. ASSUME NEW items \in Items, Descends[keys][items] # {}
            PROVE  Hit(FindDescendants[keys][items][0])
        <5>1. Named(key, items) # {}
          BY <3>2, <4>1
        <5>2. FindDescendants[keys][items][0] = Result(TRUE, 0, <<FirstOf(Named(key, items))>>)
          BY <3>1, <5>1
        <5> QED
          BY <5>2 DEF Hit, Result
      <4> QED
        BY <4>1 DEF First
    <3>5. NothingIn(Descends[keys])
      BY <2>a, <3>2 DEF NothingIn
    <3> QED
      BY <3>3, <3>4, <3>5
  <2>2. CASE Len(keys) # 1
    <3> DEFINE search == FindDescendants[Tail(keys)]
               rest == Descends[Tail(keys)]
               once == KeysOnce[Tail(keys)]
    <3>1. /\ search \in Searches
          /\ \A items \in Items :
               /\ FindDescendants[keys][items] = InItems(search, key, items)
               /\ Descends[keys][items] = BelowItems(rest, key, items)
      BY <2>2, PathParts, SearchUnfold, DescendsUnfold
    <3>a. \A items \in Items : KeysOnce[keys][items] = OnceItems(once, key, items)
      BY <2>2, OnceUnfold
    <3>2. Zero(search) /\ First(search, once, rest) /\ NothingIn(rest) /\ Blind(search)
      BY <2>2, NamesTail, SearchApart, PathParts
    <3> HIDE DEF search, key, rest, once
    <3>3. Zero(FindDescendants[keys])
      BY <3>1, <3>2, ItemsZero DEF Zero
    <3>4. First(FindDescendants[keys], KeysOnce[keys], Descends[keys])
      <4>1. ASSUME NEW items \in Items, KeysOnce[keys][items], Descends[keys][items] # {}
            PROVE  Hit(FindDescendants[keys][items][0])
        <5>1. OnceItems(once, key, items) /\ BelowItems(rest, key, items) # {}
          BY <3>1, <3>a, <4>1
        <5> QED
          BY <3>1, <3>2, <5>1, ItemsFirst
      <4> QED
        BY <4>1 DEF First
    <3>5. NothingIn(Descends[keys])
      <4>1. \A v \in Value : v.type = "array" => BelowItems(rest, key, v.items) = {}
        BY <2>a DEF BelowItems
      <4> QED
        BY <2>a, <3>1, <4>1 DEF NothingIn
    <3> QED
      BY <3>3, <3>4, <3>5
  <2> QED
    BY <2>1, <2>2
<1>2. P \subseteq DottedPath
  OBVIOUS
<1>3. P = DottedPath
  <2> HIDE DEF P
  <2> QED
    BY <1>1, <1>2, PathInduction
<1> QED
  BY <1>3
-----------------------------------------------------------------------------
(***************************************************************************)
(* The loop of the caller: the k-th value it has shown is what the call    *)
(* with k - 1 to skip found, and at the end there is no further one.       *)
(***************************************************************************)
Call(s) == FindDescendants[path][document][s]

Looped ==
  /\ DirectPlace = << >>
  /\ Len(places) = toSkip
  /\ \A k \in 1 .. Len(places) : Call(k - 1).found /\ places[k] = Call(k - 1).place

LoopInv ==
  /\ document \in Items /\ path \in DottedPath
  /\ toSkip \in Nat /\ seen = toSkip
  /\ places \in Seq(Places)
  /\ stage \in {"direct", "loop", "done"}
  /\ stage = "direct" => places = << >> /\ toSkip = 0
  /\ stage = "loop" => Looped
  /\ stage = "done" => \/ DirectPlace # << >> /\ places = <<DirectPlace>>
                       \/ Looped /\ ~Call(toSkip).found

\* A call of the loop gives a result.
LEMMA CallType ==
  ASSUME LoopInv
  PROVE  /\ DirectPlace \in Places
         /\ \A s \in Nat : Call(s) \in Results /\ Call(s).place \in Places
<1>1. DirectPlace \in Places
  BY DirectUnfold DEF LoopInv, DirectPlace
<1>2. \A s \in Nat : Call(s) \in Results
  BY SearchUnfold DEF LoopInv, Call, Searches
<1> QED
  BY <1>1, <1>2, ResultsParts DEF Places

\* The invariant holds before the loop.
LEMMA LoopBegins == LoopInit => LoopInv
<1> SUFFICES ASSUME LoopInit PROVE LoopInv
  OBVIOUS
<1>1. document \in Items /\ path \in DottedPath
  BY DocumentsAssumption, PathsAssumption DEF LoopInit
<1> QED
  BY <1>1 DEF LoopInit, LoopInv

\* Every step of the loop keeps it.
LEMMA LoopKept == LoopInv /\ [LoopNext]_loopVars => LoopInv'
<1> SUFFICES ASSUME LoopInv, [LoopNext]_loopVars PROVE LoopInv'
  OBVIOUS
<1>1. CASE TryDirect
  <2>1. document' = document /\ path' = path /\ toSkip' = toSkip /\ seen' = seen
        /\ places = << >> /\ toSkip = 0
    BY <1>1 DEF TryDirect, LoopInv
  <2>2. DirectPlace' = DirectPlace
    BY <2>1 DEF DirectPlace
  <2>3. CASE DirectPlace # << >>
    <3>1. places' = <<DirectPlace>> /\ stage' = "done"
      BY <1>1, <2>3 DEF TryDirect
    <3>2. places' \in Seq(Places)
      BY <3>1, CallType
    <3> QED
      BY <2>1, <2>2, <2>3, <3>1, <3>2 DEF LoopInv
  <2>4. CASE DirectPlace = << >>
    <3>1. places' = << >> /\ stage' = "loop"
      BY <1>1, <2>1, <2>4 DEF TryDirect
    <3>2. Looped'
      BY <2>1, <2>2, <2>4, <3>1 DEF Looped
    <3> QED
      BY <2>1, <3>1, <3>2 DEF LoopInv
  <2> QED
    BY <2>3, <2>4
<1>2. CASE FoundNext
  <2>1. /\ document' = document /\ path' = path /\ stage' = stage /\ stage = "loop"
        /\ Answer.found /\ places' = Append(places, Answer.place)
        /\ toSkip' = toSkip + 1 /\ seen' = toSkip + 1
    BY <1>2 DEF FoundNext, LoopInv
  <2>2. Answer = Call(toSkip) /\ toSkip \in Nat /\ places \in Seq(Places) /\ Looped
    BY <2>1 DEF Answer, Call, LoopInv
  <2>3. Answer.place \in Places
    BY <2>2, CallType
  <2>4. /\ places' \in Seq(Places) /\ Len(places') = Len(places) + 1
        /\ \A k \in 1 .. Len(places) : places'[k] = places[k]
        /\ places'[Len(places) + 1] = Answer.place
    BY <2>1, <2>2, <2>3
  <2>5. DirectPlace' = DirectPlace /\ \A s : Call(s)' = Call(s)
    BY <2>1 DEF DirectPlace, Call
  <2>6. Looped'
    <3>1. DirectPlace' = << >> /\ Len(places') = toSkip'
      BY <2>1, <2>2, <2>4, <2>5 DEF Looped
    <3>2. ASSUME NEW k \in 1 .. Len(places')
          PROVE  Call(k - 1)'.found /\ places'[k] = Call(k - 1)'.place
      <4>1. CASE k = Len(places) + 1
        <5>1. k - 1 = toSkip
          BY <2>2, <4>1 DEF Looped
        <5> QED
          BY <2>1, <2>2, <2>4, <2>5, <4>1, <5>1
      <4>2. CASE k # Len(places) + 1
        <5>1. k \in 1 .. Len(places)
          BY <2>2, <2>4, <3>2, <4>2
        <5> QED
          BY <2>2, <2>4, <2>5, <5>1 DEF Looped
      <4> QED
        BY <4>1, <4>2
    <3> QED
      BY <3>1, <3>2 DEF Looped
  <2> QED
    BY <2>1, <2>2, <2>4, <2>6 DEF LoopInv
<1>3. CASE NoneLeft
  <2>1. /\ document' = document /\ path' = path /\ stage = "loop" /\ stage' = "done" /\ toSkip' = toSkip
        /\ seen' = seen /\ places' = places /\ ~Answer.found
    BY <1>3 DEF NoneLeft
  <2>2. Looped /\ ~Call(toSkip).found
    BY <2>1 DEF LoopInv, Answer, Call
  <2>3. DirectPlace' = DirectPlace /\ \A s : Call(s)' = Call(s)
    BY <2>1 DEF DirectPlace, Call
  <2>4. Looped'
    BY <2>1, <2>2, <2>3 DEF Looped
  <2>5. (~Call(toSkip).found)'
    BY <2>1, <2>2 DEF Call
  <2> QED
    BY <2>1, <2>4, <2>5 DEF LoopInv
<1>4. CASE LoopOver \/ UNCHANGED loopVars
  <2>1. UNCHANGED loopVars
    BY <1>4 DEF LoopOver
  <2>2. DirectPlace' = DirectPlace /\ \A s : Call(s)' = Call(s)
    BY <2>1 DEF DirectPlace, Call, loopVars
  <2> QED
    BY <2>1, <2>2 DEF LoopInv, Looped, loopVars
<1> QED
  BY <1>1, <1>2, <1>3, <1>4 DEF LoopNext

\* No op is shown a value that is not at its path.
LEMMA LoopShows == LoopInv => OnlyDescendants
<1> SUFFICES ASSUME LoopInv, NEW k \in DOMAIN places PROVE places[k] \in Descends[path][document]
  BY DEF OnlyDescendants, Reached
<1>1. k \in 1 .. Len(places) /\ Len(places) \in Nat
  BY DEF LoopInv
<1>2. CASE Looped
  <2>1. Call(k - 1).found /\ places[k] = Call(k - 1).place /\ k - 1 \in Nat
    BY <1>1, <1>2 DEF Looped
  <2>2. Sound(FindDescendants[path], Descends[path])
    BY SearchSound DEF LoopInv
  <2> QED
    BY <2>1, <2>2 DEF Sound, Call, LoopInv
<1>3. CASE DirectPlace # << >> /\ places = <<DirectPlace>>
  <2>1. places[k] = DirectPlace
    BY <1>1, <1>3
  <2> QED
    BY <1>3, <2>1, DirectSound DEF DirectPlace, LoopInv
<1>4. CASE stage = "direct"
  <2>1. Len(places) = 0
    BY <1>4 DEF LoopInv
  <2> QED
    BY <1>1, <2>1
<1> QED
  BY <1>2, <1>3, <1>4 DEF LoopInv

\* Once libbson has found nothing at a single name, neither does the search.
LEMMA OneName ==
  ASSUME LoopInv, OfNames, Len(path) = 1, DirectPlace = << >>, NEW s \in Nat
  PROVE  ~Call(s).found
<1> DEFINE key == path[1]
<1>1. path \in DottedPath /\ document \in Items /\ NamesOnly(path)
  BY DEF LoopInv, OfNames, NamesOnly
<1>2. key # "$any"
  BY <1>1, NamesTail
<1>3. DirectPlace = DirectLast(key, document) /\ FindDescendants[path][document] = [t \in Nat |-> LastKey(document, key, t)]
  BY <1>1, DirectUnfold, SearchUnfold DEF DirectPlace
<1> HIDE DEF key
<1>4. Exactly(key, document) = {}
  <2>1. \A i : <<i>> # << >>
    OBVIOUS
  <2> QED
    BY <1>3, <2>1 DEF DirectLast
<1>5. Named(key, document) = {}
  BY <1>2, <1>4 DEF Named, Exactly
<1>6. Call(s) = NotFound(s)
  BY <1>3, <1>5 DEF Call, LastKey
<1> QED
  BY <1>6 DEF NotFound, Result

\* A path of names is shown no value twice.
LEMMA LoopOnce == LoopInv => NoneTwice
<1> SUFFICES ASSUME LoopInv, OfNames, NEW j \in DOMAIN places, NEW k \in DOMAIN places, j # k
             PROVE  places[j] # places[k]
  BY DEF NoneTwice
<1>1. j \in 1 .. Len(places) /\ k \in 1 .. Len(places) /\ Len(places) \in Nat
  BY DEF LoopInv
<1>2. CASE Looped
  <2>1. /\ Call(j - 1).found /\ places[j] = Call(j - 1).place
        /\ Call(k - 1).found /\ places[k] = Call(k - 1).place
        /\ j - 1 \in Nat /\ k - 1 \in Nat /\ j - 1 # k - 1 /\ DirectPlace = << >>
    BY <1>1, <1>2 DEF Looped
  <2>2. Len(path) # 1
    BY <2>1, OneName
  <2>3. path \in DottedPath /\ document \in Items /\ NamesOnly(path)
    BY DEF LoopInv, OfNames, NamesOnly
  <2>4. /\ Apart(FindDescendants[path])
        /\ \A s \in Nat : Call(s).found => Call(s).skip = 0
    BY <2>2, <2>3, SearchApart DEF Call
  <2>5. ApartAt(Call(j - 1), Call(k - 1))
    BY <2>1, <2>3, <2>4 DEF Apart, Call
  <2>6. Hit(Call(j - 1)) /\ Hit(Call(k - 1))
    BY <2>1, <2>4 DEF Hit
  <2> QED
    BY <2>1, <2>5, <2>6 DEF ApartAt
<1>3. CASE DirectPlace # << >> /\ places = <<DirectPlace>>
  <2>1. Len(places) = 1
    BY <1>3
  <2> QED
    BY <1>1, <2>1
<1>4. CASE stage = "direct"
  <2>1. Len(places) = 0
    BY <1>4 DEF LoopInv
  <2> QED
    BY <1>1, <2>1
<1> QED
  BY <1>2, <1>3, <1>4 DEF LoopInv

\* A path of names that leads to a value is shown one.
LEMMA LoopFinds == LoopInv => SomeFound
<1> SUFFICES ASSUME LoopInv, stage = "done", OfNames, KeysOnce[path][document], Descends[path][document] # {}
             PROVE  places # << >>
  BY DEF SomeFound
<1>1. path \in DottedPath /\ document \in Items /\ NamesOnly(path)
  BY DEF LoopInv, OfNames, NamesOnly
<1>2. Call(0).found
  BY <1>1, SearchFirst DEF First, Hit, Call
<1>3. CASE Looped /\ ~Call(toSkip).found
  <2>1. toSkip # 0 /\ Len(places) = toSkip
    BY <1>2, <1>3 DEF Looped
  <2>2. Len(<< >>) = 0
    OBVIOUS
  <2> QED
    BY <2>1, <2>2
<1>4. CASE places = <<DirectPlace>>
  BY <1>4
<1> QED
  BY <1>3, <1>4 DEF LoopInv
-----------------------------------------------------------------------------
(***************************************************************************)
(* {a: [{b: x}, ..]} and "a.b": every value, in the order of the array.    *)
(***************************************************************************)
\* At most one value is below these items, and each skip finds it.
Single(search, rest, items) ==
  \/ rest[items] = {} /\ \A s \in Nat : search[items][s] = NotFound(s)
  \/ \E p \in Places : rest[items] = {p} /\ \A s \in Nat : search[items][s] = Result(TRUE, s, p)

\* In an array of documents the calls find the places in their order, and all.
LEMMA InOrder ==
  ASSUME NEW search \in Searches, NEW rest, NEW v \in Value, Container(v), v.type = "array",
         \A k \in Entered(v) : Single(search, rest, v.items[k].val.items)
  PROVE  LET found(s) == InSubDocuments(search, v.items)[NotFound(s)]
         IN  /\ \A s \in Nat : found(s) \in Results /\ FromPlace(1, found(s))
             /\ \A s, t \in Nat : s < t /\ found(t).found =>
                  found(s).found /\ found(s).place[1] < found(t).place[1]
             /\ \A h \in Entered(v) : \A p \in rest[v.items[h].val.items] :
                  \E s \in Nat : found(s).found /\ found(s).place = <<h>> \o p
<1> DEFINE items == v.items
           n == Len(items)
<1>1. items \in Items /\ n \in Nat /\ DOMAIN items = 1 .. n /\ Entered(v) \subseteq 1 .. n
  BY EnteredParts, ItemsParts
<1>2. PICK from : ElementsFrom(search, items, from)
  BY <1>1, ElementsUnfold
<1>a. \A s \in Nat : NotFound(s) \in Results /\ NotFound(s).skip = s /\ ~NotFound(s).found
  BY ResultsParts
<1> DEFINE at(k, s) == from[k][NotFound(s)]
           Low(k) == \A s \in Nat : FromPlace(k, at(k, s))
           Sorted(k) == \A s, t \in Nat : s < t /\ at(k, t).found =>
                          at(k, s).found /\ at(k, s).place[1] < at(k, t).place[1]
           All(k) == \A h \in Entered(v) : \A p \in rest[items[h].val.items] : h >= k =>
                       \E s \in Nat : at(k, s).found /\ at(k, s).place = <<h>> \o p
           Good(k) == Low(k) /\ Sorted(k) /\ All(k)
           P == {k \in 1 .. n + 1 : Good(k)}
<1>b. \A k \in 1 .. n + 1 : \A s \in Nat : at(k, s) \in Results
  BY <1>2, <1>a DEF ElementsFrom
<1>3. \A k \in 1 .. n + 1 : (k # n + 1 => k + 1 \in P) => k \in P
  <2> SUFFICES ASSUME NEW k \in 1 .. n + 1, k # n + 1 => k + 1 \in P
               PROVE  Good(k)
    OBVIOUS
  <2>1. CASE k = n + 1
    <3>1. \A s \in Nat : at(k, s) = NotFound(s)
      BY <1>2, <1>a, <2>1 DEF ElementsFrom
    <3>2. \A h \in Entered(v) : ~(h >= k)
      BY <1>1, <2>1
    <3> HIDE DEF at
    <3>3. Low(k)
      BY <3>1, NotFoundApart
    <3>4. Sorted(k)
      BY <1>a, <3>1
    <3>5. All(k)
      BY <3>2
    <3> QED
      BY <3>3, <3>4, <3>5
  <2>2. CASE k # n + 1
    <3>1. k \in 1 .. n /\ k \in Nat /\ k + 1 \in 1 .. n + 1
      BY <1>1, <2>2
    <3>2. Low(k + 1) /\ Sorted(k + 1) /\ All(k + 1)
      BY <2>2
    <3> DEFINE w == items[k].val
               sub(s) == search[w.items][s]
    <3>3. ASSUME NEW s \in Nat
          PROVE  at(k, s) = IF ~Container(w) THEN at(k + 1, s)
                            ELSE IF sub(s).found /\ sub(s).skip = 0 THEN Under(k, sub(s))
                            ELSE at(k + 1, IF sub(s).found THEN sub(s).skip - 1 ELSE sub(s).skip)
      <4>1. at(k, s) = ElementStep(search, items, k, from[k + 1], NotFound(s))
        BY <1>2, <1>a, <3>1 DEF ElementsFrom
      <4> QED
        BY <1>a, <4>1 DEF ElementStep
    <3>b. \A s \in Nat : at(k, s) \in Results /\ at(k + 1, s) \in Results
      BY <1>b, <3>1
    <3>4. \A s \in Nat : FromPlace(k, at(k + 1, s))
      <4> HIDE DEF at
      <4> QED
        BY <3>1, <3>2, <3>b, FromEarlier
    <3> HIDE DEF at
    <3>5. CASE ~Container(w) \/ (k \in Entered(v) /\ rest[w.items] = {})
      <4>1. ASSUME NEW s \in Nat PROVE at(k, s) = at(k + 1, s)
        <5>1. CASE ~Container(w)
          BY <3>3, <5>1
        <5>2. CASE Container(w)
          <6>1. Single(search, rest, w.items) /\ rest[w.items] = {}
            BY <3>5, <5>2
          <6>2. sub(s) = NotFound(s)
            BY <6>1 DEF Single
          <6> QED
            BY <1>a, <3>3, <5>2, <6>2
        <5> QED
          BY <5>1, <5>2
      <4>2. \A h \in Entered(v) : \A p \in rest[items[h].val.items] : h >= k => h >= k + 1
        <5> SUFFICES ASSUME NEW h \in Entered(v), NEW p \in rest[items[h].val.items], h >= k
                     PROVE  h >= k + 1
          OBVIOUS
        <5>1. h # k
          BY <3>5 DEF Entered
        <5>2. h \in Nat
          BY <1>1
        <5> QED
          BY <3>1, <5>1, <5>2
      <4>3. Low(k)
        BY <3>4, <4>1
      <4>4. Sorted(k)
        BY <3>2, <4>1
      <4>5. All(k)
        BY <3>2, <4>1, <4>2
      <4> QED
        BY <4>3, <4>4, <4>5
    <3>6. CASE ~(~Container(w) \/ (k \in Entered(v) /\ rest[w.items] = {}))
      <4>1. Container(w) /\ k \in Entered(v) /\ rest[w.items] # {}
        BY <1>1, <3>1, <3>6 DEF Entered
      <4>2. PICK q \in Places : /\ rest[w.items] = {q}
                                /\ \A s \in Nat : search[w.items][s] = Result(TRUE, s, q)
        BY <4>1 DEF Single
      <4>3. ASSUME NEW s \in Nat PROVE sub(s).found /\ sub(s).skip = s /\ sub(s).place = q /\ sub(s) \in Results
        <5>1. sub(s) = Result(TRUE, s, q)
          BY <4>2
        <5>2. q \in Seq(Nat)
          BY <4>2 DEF Places
        <5>3. Result(TRUE, s, q) \in Results
          BY <5>2, ResultsParts
        <5>4. Result(TRUE, s, q).found /\ Result(TRUE, s, q).skip = s /\ Result(TRUE, s, q).place = q
          BY DEF Result
        <5> HIDE DEF sub
        <5> QED
          BY <5>1, <5>3, <5>4
      <4> HIDE DEF sub
      <4>4. at(k, 0) = Under(k, sub(0))
        BY <3>3, <4>1, <4>3
      <4>5. at(k, 0).found /\ at(k, 0).skip = 0 /\ at(k, 0).place = <<k>> \o q
        <5>1. sub(0) \in Results /\ sub(0).found /\ sub(0).skip = 0 /\ sub(0).place = q
          BY <4>3
        <5>2. \A r \in Results : /\ Under(k, r).found = r.found /\ Under(k, r).skip = r.skip
                                 /\ Under(k, r).place = <<k>> \o r.place
          BY <3>1, ResultsParts
        <5> QED
          BY <4>4, <5>1, <5>2
      <4>6. at(k, 0).place # << >> /\ at(k, 0).place[1] = k
        BY <3>1, <4>5, UnderPlace DEF Places
      <4>7. ASSUME NEW s \in Nat, s # 0 PROVE s - 1 \in Nat /\ at(k, s) = at(k + 1, s - 1)
        BY <3>3, <4>1, <4>3, <4>7
      <4>8. Low(k)
        <5> SUFFICES ASSUME NEW s \in Nat PROVE FromPlace(k, at(k, s))
          OBVIOUS
        <5>1. CASE s = 0
          BY <3>1, <4>5, <4>6, <5>1 DEF FromPlace
        <5>2. CASE s # 0
          BY <3>4, <4>7, <5>2
        <5> QED
          BY <5>1, <5>2
      <4>9. Sorted(k)
        <5> SUFFICES ASSUME NEW s \in Nat, NEW t \in Nat, s < t, at(k, t).found
                     PROVE  at(k, s).found /\ at(k, s).place[1] < at(k, t).place[1]
          OBVIOUS
        <5>1. t - 1 \in Nat /\ at(k, t) = at(k + 1, t - 1)
          BY <4>7
        <5>2. CASE s = 0
          <6>1. at(k + 1, t - 1).place # << >> /\ at(k + 1, t - 1).place[1] >= k + 1
            BY <3>2, <5>1 DEF FromPlace
          <6>2. at(k + 1, t - 1).place \in Seq(Nat)
            BY <3>b, <5>1, ResultsParts
          <6>3. at(k + 1, t - 1).place[1] \in Nat
            BY <6>1, <6>2
          <6> QED
            BY <3>1, <4>5, <4>6, <5>1, <5>2, <6>1, <6>3
        <5>3. CASE s # 0
          <6>1. s - 1 \in Nat /\ at(k, s) = at(k + 1, s - 1) /\ s - 1 < t - 1
            BY <4>7, <5>3
          <6> QED
            BY <3>2, <5>1, <6>1
        <5> QED
          BY <5>2, <5>3
      <4>10. All(k)
        <5> SUFFICES ASSUME NEW h \in Entered(v), NEW p \in rest[items[h].val.items], h >= k
                     PROVE  \E s \in Nat : at(k, s).found /\ at(k, s).place = <<h>> \o p
          OBVIOUS
        <5>1. CASE h = k
          <6>1. p = q
            BY <4>2, <5>1
          <6> QED
            BY <4>5, <5>1, <6>1
        <5>2. CASE h # k
          <6>1. h >= k + 1
            <7>1. h \in Nat
              BY <1>1
            <7> QED
              BY <3>1, <5>2, <7>1
          <6>2. PICK s \in Nat : at(k + 1, s).found /\ at(k + 1, s).place = <<h>> \o p
            BY <3>2, <6>1
          <6>3. s + 1 \in Nat /\ s + 1 # 0 /\ (s + 1) - 1 = s
            OBVIOUS
          <6>4. at(k, s + 1) = at(k + 1, s)
            BY <4>7, <6>3
          <6> QED
            BY <6>2, <6>3, <6>4
        <5> QED
          BY <5>1, <5>2
      <4> QED
        BY <4>8, <4>9, <4>10
    <3> QED
      BY <3>5, <3>6
  <2> QED
    BY <2>1, <2>2
<1>4. P = 1 .. n + 1
  <2>1. P \subseteq 1 .. n + 1
    OBVIOUS
  <2> HIDE DEF P, n
  <2> QED
    BY <1>1, <1>3, <2>1, FromTheEnd
<1>5. InSubDocuments(search, v.items) = from[1] /\ 1 \in 1 .. n + 1 /\ Good(1)
  <2>1. 1 \in 1 .. n + 1
    BY <1>1
  <2>2. 1 \in P
    BY <1>4, <2>1
  <2> QED
    BY <1>2, <2>1, <2>2 DEF ElementsFrom
<1>6. \A s \in Nat : at(1, s) \in Results
  BY <1>b, <1>5
<1>7. \A h \in Entered(v) : h >= 1
  BY <1>1
<1>8. \A s : InSubDocuments(search, v.items)[NotFound(s)] = at(1, s)
  BY <1>5
<1> HIDE DEF at
<1>9. \A h \in Entered(v) : \A p \in rest[v.items[h].val.items] :
        \E s \in Nat : at(1, s).found /\ at(1, s).place = <<h>> \o p
  BY <1>5, <1>7
<1>10. Low(1) /\ Sorted(1)
  BY <1>5
<1> QED
  BY <1>6, <1>8, <1>9, <1>10
\* What a name is asked for below items that have it once at most.
LEMMA NameSingle ==
  ASSUME NEW keys \in DottedPath, NamesOnly(keys), Len(keys) = 1,
         NEW items \in Items, KeysOnce[keys][items]
  PROVE  Single(FindDescendants[keys], Descends[keys], items)
<1> DEFINE key == keys[1]
           S == Named(key, items)
<1>1. key # "$any"
  BY NamesTail
<1>2. /\ FindDescendants[keys][items] = [s \in Nat |-> LastKey(items, key, s)]
      /\ Descends[keys][items] = {<<i>> : i \in S}
      /\ \A i, j \in S : i = j
  BY SearchUnfold, DescendsUnfold, OnceUnfold DEF NamedOnce
<1> HIDE DEF key
<1>3. CASE S = {}
  <2>1. \A s \in Nat : FindDescendants[keys][items][s] = NotFound(s)
    BY <1>2, <1>3 DEF LastKey
  <2> QED
    BY <1>2, <1>3, <2>1 DEF Single
<1>4. CASE S # {}
  <2> DEFINE i == FirstOf(S)
  <2>1. i \in S /\ i \in Nat
    BY <1>4, NamedPlaces, FirstOfIs
  <2>2. \A s \in Nat : FindDescendants[keys][items][s] = Result(TRUE, s, <<i>>)
    BY <1>1, <1>2, <1>4 DEF LastKey
  <2> HIDE DEF i
  <2>3. Descends[keys][items] = {<<i>>}
    BY <1>2, <2>1
  <2>4. <<i>> \in Places
    BY <2>1 DEF Places
  <2> QED
    BY <2>2, <2>3, <2>4 DEF Single
<1> QED
  BY <1>3, <1>4

\* A path of two names over an array at the one item of a document.
LEMMA LoopComplete == LoopInv => FlatComplete
<1> SUFFICES ASSUME LoopInv, stage = "done", FlatArray
             PROVE  /\ Reached = Descends[path][document]
                    /\ \A j, k \in DOMAIN places : j < k => places[j][2] < places[k][2]
  BY DEF FlatComplete
<1>1. path \in DottedPath /\ document \in Items /\ NamesOnly(path) /\ Len(path) = 2
  BY DEF LoopInv, FlatArray, OfNames, NamesOnly
<1> DEFINE key == path[1]
           rest == Tail(path)
           v == document[1].val
           search == FindDescendants[rest]
           found(s) == InSubDocuments(search, v.items)[NotFound(s)]
<1>a. Len(path) # 1
  BY <1>1
<1>2. rest \in DottedPath /\ Len(rest) = 1 /\ NamesOnly(rest) /\ key \notin Positions \cup {"$any"}
  <2>1. rest \in DottedPath /\ Len(rest) = Len(path) - 1
    BY <1>1, <1>a, PathParts
  <2>2. NamesOnly(rest) /\ key \notin Positions \cup {"$any"}
    BY <1>1, <1>a, NamesTail
  <2>3. Len(rest) = 1
    BY <1>1, <2>1
  <2> QED
    BY <2>1, <2>2, <2>3
<1>3. /\ FindDescendants[path][document] = InItems(search, key, document)
      /\ Descends[path][document] = BelowItems(Descends[rest], key, document)
      /\ KeysOnce[path][document] = OnceItems(KeysOnce[rest], key, document)
      /\ DirectPlace = DirectBelow(FindDirect[rest], key, document)
  <2>1. FindDescendants[path][document] = InItems(search, key, document)
    BY <1>1, <1>a, SearchUnfold
  <2>2. Descends[path][document] = BelowItems(Descends[rest], key, document)
    BY <1>1, <1>a, DescendsUnfold
  <2>3. KeysOnce[path][document] = OnceItems(KeysOnce[rest], key, document)
    BY <1>1, <1>a, OnceUnfold
  <2>4. DirectPlace = DirectBelow(FindDirect[rest], key, document)
    BY <1>1, <1>a, DirectUnfold DEF DirectPlace
  <2> QED
    BY <2>1, <2>2, <2>3, <2>4
<1>4. /\ search \in Searches /\ Blind(search) /\ NothingIn(Descends[rest])
  BY <1>2, SearchUnfold, SearchApart, SearchFirst
<1>5. /\ Len(document) = 1 /\ DOMAIN document = {1} /\ v.type = "array" /\ v \in Value
      /\ Container(v) /\ v.items \in Items
  <2>1. Len(document) = 1 /\ v.type = "array"
    BY DEF FlatArray
  <2>2. DOMAIN document = 1 .. 1
    BY <1>1, <2>1, ItemsParts
  <2>3. v \in Value /\ (Container(v) => v.items \in Items)
    BY <1>1, <2>2, ItemsParts
  <2> QED
    BY <2>1, <2>2, <2>3 DEF Container
<1>6. DirectPlace = << >>
  <2>1. \A items \in Items : FindDirect[rest][items] = DirectLast(rest[1], items)
    BY <1>2, DirectUnfold
  <2>2. rest[1] \notin Positions \cup {"$any"}
    BY <1>2, NamesTail
  <2>3. Exactly(rest[1], v.items) = {}
    BY <1>5, <2>2, PositionsAssumption DEF Exactly
  <2>4. FindDirect[rest][v.items] = << >>
    BY <1>5, <2>1, <2>3 DEF DirectLast
  <2> HIDE DEF v, rest
  <2>5. CASE Exactly(key, document) = {}
    BY <1>3, <2>5 DEF DirectBelow
  <2>6. CASE Exactly(key, document) # {}
    <3>1. FirstOf(Exactly(key, document)) = 1
      <4>1. FirstOf(Exactly(key, document)) \in DOMAIN document
        BY <1>1, <2>6, ExactlyParts
      <4> QED
        BY <1>5, <4>1
    <3> QED
      BY <1>3, <2>4, <2>6, <3>1 DEF DirectBelow, v
  <2> QED
    BY <2>5, <2>6
<1>7. Looped /\ ~Call(toSkip).found
  BY <1>6 DEF LoopInv
<1>8. CASE 1 \notin Named(key, document)
  <2>1. Named(key, document) = {}
    BY <1>5, <1>8 DEF Named
  <2>2. Descends[path][document] = {}
    BY <1>3, <2>1 DEF BelowItems
  <2>3. Reached \subseteq {}
    BY <2>2, LoopShows DEF OnlyDescendants
  <2>4. DOMAIN places = {}
    BY <2>3 DEF Reached
  <2> QED
    BY <2>2, <2>3, <2>4
<1>9. CASE 1 \in Named(key, document)
  <2>1. Named(key, document) = {1}
    BY <1>5, <1>9 DEF Named
  <2>2. \A k \in Entered(v) : Single(search, Descends[rest], v.items[k].val.items)
    <3>1. OnceAt(KeysOnce[rest], v)
      BY <1>3, <1>9 DEF OnceItems, FlatArray
    <3>2. \A k \in Entered(v) : KeysOnce[rest][v.items[k].val.items] /\ v.items[k].val.items \in Items
      BY <1>5, <3>1, EnteredParts DEF OnceAt
    <3> QED
      BY <1>2, <3>2, NameSingle
  <2>3. /\ \A s \in Nat : found(s) \in Results /\ FromPlace(1, found(s))
        /\ \A s, t \in Nat : s < t /\ found(t).found =>
             found(s).found /\ found(s).place[1] < found(t).place[1]
        /\ \A h \in Entered(v) : \A p \in Descends[rest][v.items[h].val.items] :
             \E s \in Nat : found(s).found /\ found(s).place = <<h>> \o p
    <3> DEFINE below == Descends[rest]
               f(s) == InSubDocuments(search, v.items)[NotFound(s)]
    <3>1. \A k \in Entered(v) : Single(search, below, v.items[k].val.items)
      BY <2>2
    <3>2. search \in Searches /\ v \in Value /\ Container(v) /\ v.type = "array"
      BY <1>4, <1>5
    <3> HIDE DEF search, v, below
    <3>3. /\ \A s \in Nat : f(s) \in Results /\ FromPlace(1, f(s))
          /\ \A s, t \in Nat : s < t /\ f(t).found =>
               f(s).found /\ f(s).place[1] < f(t).place[1]
          /\ \A h \in Entered(v) : \A p \in below[v.items[h].val.items] :
               \E s \in Nat : f(s).found /\ f(s).place = <<h>> \o p
      BY <3>1, <3>2, InOrder
    <3>4. \A s : f(s) = found(s)
      OBVIOUS
    <3> HIDE DEF f, found
    <3> QED
      BY <3>3, <3>4 DEF below
  <2>4. ASSUME NEW s \in Nat PROVE Call(s) = Under(1, found(s))
    <3>1. PICK from : ItemsFrom(search, key, document, from)
      BY <1>1, <1>4, ItemsUnfold
    <3>2. Call(s) = from[1][s] /\ from[1][s] = ItemStep(search, key, document, 1, from[2], s)
      BY <1>3, <1>5, <3>1 DEF ItemsFrom, Call
    <3>3. search[v.items][s] = NotFound(s) /\ ~NotFound(s).found
      BY <1>4, <1>5, ResultsParts DEF Blind
    <3> QED
      BY <1>5, <2>1, <3>2, <3>3 DEF ItemStep
  <2>5. ASSUME NEW s \in Nat
        PROVE  /\ Call(s).found = found(s).found
               /\ Call(s).place = <<1>> \o found(s).place
               /\ found(s).place \in Seq(Nat)
               /\ found(s).found => found(s).place # << >>
    <3>1. found(s) \in Results /\ FromPlace(1, found(s)) /\ Call(s) = Under(1, found(s))
      BY <2>3, <2>4
    <3> HIDE DEF found
    <3>2. /\ Under(1, found(s)).found = found(s).found
          /\ Under(1, found(s)).place = <<1>> \o found(s).place
          /\ found(s).place \in Seq(Nat)
      BY <3>1, ResultsParts
    <3> QED
      BY <3>1, <3>2 DEF FromPlace
  <2> HIDE DEF found
  <2>6. \A p \in Seq(Nat) : p # << >> => (<<1>> \o p)[2] = p[1]
    OBVIOUS
  <2>7. ASSUME NEW s \in Nat, found(s).found PROVE s < toSkip
    <3>1. toSkip \in Nat /\ ~found(toSkip).found
      BY <1>7, <2>5 DEF LoopInv
    <3>2. s # toSkip /\ ~(toSkip < s)
      BY <2>3, <2>7, <3>1
    <3> QED
      BY <3>1, <3>2
  <2>8. Descends[path][document] \subseteq Reached
    <3> SUFFICES ASSUME NEW p \in Descends[path][document] PROVE p \in Reached
      OBVIOUS
    <3>1. p \in Below(1, AtValue(Descends[rest], v))
      BY <1>3, <2>1 DEF BelowItems
    <3>2. AtValue(Descends[rest], v)
            = UNION {Below(k, Descends[rest][v.items[k].val.items]) : k \in Entered(v)}
      BY <1>4, <1>5 DEF AtValue, NothingIn
    <3>3. PICK h \in Entered(v) : \E q \in Descends[rest][v.items[h].val.items] : p = <<1>> \o (<<h>> \o q)
      <4>1. PICK r \in AtValue(Descends[rest], v) : p = <<1>> \o r
        BY <3>1 DEF Below
      <4>2. PICK h \in Entered(v) : r \in Below(h, Descends[rest][v.items[h].val.items])
        BY <3>2, <4>1
      <4>3. PICK q \in Descends[rest][v.items[h].val.items] : r = <<h>> \o q
        BY <4>2 DEF Below
      <4> QED
        BY <4>1, <4>2, <4>3
    <3>4. PICK q \in Descends[rest][v.items[h].val.items] : p = <<1>> \o (<<h>> \o q)
      BY <3>3
    <3>5. PICK s \in Nat : found(s).found /\ found(s).place = <<h>> \o q
      BY <2>3, <3>4
    <3>6. Call(s).place = p /\ s < toSkip
      BY <2>5, <2>7, <3>4, <3>5
    <3>7. s + 1 \in 1 .. Len(places) /\ (s + 1) - 1 = s
      BY <1>7, <3>6 DEF Looped, LoopInv
    <3>8. places[s + 1] = p
      BY <1>7, <3>6, <3>7 DEF Looped
    <3>9. s + 1 \in DOMAIN places
      BY <3>7 DEF LoopInv
    <3> QED
      BY <3>8, <3>9 DEF Reached
  <2>9. ASSUME NEW j \in DOMAIN places, NEW k \in DOMAIN places, j < k
        PROVE  places[j][2] < places[k][2]
    <3>1. j \in 1 .. Len(places) /\ k \in 1 .. Len(places) /\ Len(places) \in Nat
      BY DEF LoopInv
    <3>2. /\ Call(j - 1).found /\ places[j] = Call(j - 1).place
          /\ Call(k - 1).found /\ places[k] = Call(k - 1).place
          /\ j - 1 \in Nat /\ k - 1 \in Nat /\ j - 1 < k - 1
      BY <1>7, <2>9, <3>1 DEF Looped
    <3>3. found(j - 1).place[1] < found(k - 1).place[1]
      BY <2>3, <2>5, <3>2
    <3>4. places[j][2] = found(j - 1).place[1] /\ places[k][2] = found(k - 1).place[1]
      BY <2>5, <2>6, <3>2
    <3> QED
      BY <3>3, <3>4
  <2>10. Reached \subseteq Descends[path][document]
    BY LoopShows DEF OnlyDescendants
  <2> QED
    BY <2>8, <2>9, <2>10
<1> QED
  BY <1>8, <1>9

-----------------------------------------------------------------------------
\* LoopInv is an invariant of the loop.
LEMMA LoopAlways == LoopSpec => []LoopInv
<1>1. LoopInit => LoopInv
  BY LoopBegins
<1>2. LoopInv /\ [LoopNext]_loopVars => LoopInv'
  BY LoopKept
<1> QED
  BY <1>1, <1>2, PTL DEF LoopSpec

\* What bson_iter_find_descendants shows the loop of an op is at its path, and,
\* along a path of names, shown once, for all documents, with repeated keys or not.
THEOREM ShownIsRight == LoopSpec => []ShownRight
<1>1. LoopInv => ShownRight
  BY LoopShows, LoopOnce DEF ShownRight
<1> QED
  BY <1>1, LoopAlways, PTL

\* A path of names that leads to a value is shown one, where no document on the
\* way repeats one of its keys.
THEOREM SomeIsFound == LoopSpec => []SomeFound
<1>1. LoopInv => SomeFound
  BY LoopFinds
<1> QED
  BY <1>1, LoopAlways, PTL

\* Every value of "a.b" over an array of documents is shown, in its order.
THEOREM FlatIsComplete == LoopSpec => []FlatComplete
<1>1. LoopInv => FlatComplete
  BY LoopComplete
<1> QED
  BY <1>1, LoopAlways, PTL
=============================================================================
