----------------------------- MODULE LeafMatch -----------------------------
(***************************************************************************)
(* One leaf operator matched against one document: the loop that           *)
(* _mongoc_matcher_op_compare_match, _exists_match, _type_match,           *)
(* _size_match and _strlen_match each spell out, one step per value.       *)
(* ($exists with a spec is in OpTreeUse.)                                  *)
(***************************************************************************)
EXTENDS LeafOps, FiniteSets

VARIABLES op,      \* the operator
          doc,     \* the document
          at,      \* where its match is
          checked, \* how many values the loop has seen
          found,   \* found_one
          length,  \* right_array_size
          result   \* what the match returns

vars == <<op, doc, at, checked, found, length, result>>

Init ==
  /\ op \in Ops
  /\ doc \in Docs
  /\ at = "start"
  /\ checked = 0
  /\ found = FALSE
  /\ length = 0
  /\ result = FALSE

\* {$exists: TRUE}.
Wanted == op.spec.n = 1

MatchDirect ==
  /\ at = "start"
  /\ doc.direct # None
  /\ result' = IF op.code = "exists" THEN Wanted
               ELSE IF op.code = "size" THEN LengthMatch(op.spec, IterLen(doc.direct))
               ELSE Satisfies(op, doc.direct)
  /\ at' = "done"
  /\ UNCHANGED <<op, doc, checked, found, length>>

MatchMissing ==
  /\ at = "start"
  /\ doc.direct = None
  /\ ~op.dotted
  /\ result' = IF op.code = "exists" THEN ~Wanted
               ELSE IF op.code = "size" THEN LengthMatch(op.spec, 0)
               ELSE FALSE
  /\ at' = "done"
  /\ UNCHANGED <<op, doc, checked, found, length>>

EnterLoop ==
  /\ at = "start"
  /\ doc.direct = None
  /\ op.dotted
  /\ at' = "loop"
  /\ UNCHANGED <<op, doc, checked, found, length, result>>

Counted(v) == IF op.code = "size" THEN IterLen(v) ELSE 0

\* Mutant: the last value decides.
NextValueLast ==
  /\ at = "loop"
  /\ checked < Len(doc.spread)
  /\ found' = Satisfies(op, doc.spread[checked + 1])
  /\ length' = length + Counted(doc.spread[checked + 1])
  /\ checked' = checked + 1
  /\ UNCHANGED <<op, doc, at, result>>

\* Mutant: the size of the last value is kept.
NextValueForgets ==
  /\ at = "loop"
  /\ ~found
  /\ checked < Len(doc.spread)
  /\ found' = Satisfies(op, doc.spread[checked + 1])
  /\ length' = Counted(doc.spread[checked + 1])
  /\ checked' = checked + 1
  /\ UNCHANGED <<op, doc, at, result>>

NextValue ==
  /\ at = "loop"
  /\ ~found
  /\ checked < Len(doc.spread)
  /\ found' = Satisfies(op, doc.spread[checked + 1])
  /\ length' = length + Counted(doc.spread[checked + 1])
  /\ checked' = checked + 1
  /\ UNCHANGED <<op, doc, at, result>>

\* An operator that nothing was found for fails, $exists: FALSE included.
EndLoop ==
  /\ at = "loop"
  /\ found \/ checked = Len(doc.spread)
  /\ result' = IF op.code = "exists" THEN checked > 0 /\ found = Wanted
               ELSE IF op.code = "size" THEN LengthMatch(op.spec, length)
               ELSE found
  /\ at' = "done"
  /\ UNCHANGED <<op, doc, checked, found, length>>

Stay == at = "done" /\ UNCHANGED vars

Next == MatchDirect \/ MatchMissing \/ EnterLoop \/ NextValue \/ EndLoop \/ Stay

Spec == Init /\ [][Next]_vars
-----------------------------------------------------------------------------
(***************************************************************************)
(* What the operators mean.                                                *)
(***************************************************************************)
\* The values the path leads to.
Values ==
  IF doc.direct # None THEN <<doc.direct>>
  ELSE IF op.dotted THEN doc.spread ELSE << >>

Some(code, spec) ==
  \E i \in DOMAIN Values : CompareIter(code, spec, Values[i])

\* A comparison, a $type and a $strlen hold when one value on the path satisfies
\* them, wherever it comes among the values (the loops that stop at found_one).
AnyValueWill ==
  at = "done" /\ op.code \in Compare \cup {"type", "strlen"} =>
    (result <=> \E i \in DOMAIN Values : Satisfies(op, Values[i]))

\* $size compares with the number of items on the path all together: the
\* elements of its arrays and the other values, nulls left out.
ItemsAt(i) ==
  CASE Values[i].type = "array" -> {<<i, k>> : k \in DOMAIN Values[i].items}
    [] Values[i].type = "null"  -> {}
    [] OTHER                    -> {<<i, 0>>}

Items == UNION {ItemsAt(i) : i \in DOMAIN Values}

SizeCountsAll ==
  at = "done" /\ op.code = "size" =>
    (result <=> LengthMatch(op.spec, Cardinality(Items)))

\* $gte is $gt or equal, $lte is $lt or equal, for every query value that is a
\* number or an object id, whatever the document has there: the five tables of
\* handlers have the same rows and convert alike.
OrEqual ==
  at = "done" /\ op.code \in {"gte", "lte"} /\ op.spec.type \in Number \cup {"oid"} =>
    LET strict == IF op.code = "gte" THEN "gt" ELSE "lt"
    IN  result <=> Some(strict, op.spec) \/ Some("eq", op.spec)

\* A number is less than, equal to or greater than another, and only one of the
\* three, across the types of numbers and in spite of the rounding to double.
OneRelation ==
  LET v == doc.direct
  IN  /\ at = "done" /\ op.code \in {"gt", "lt", "eq"} /\ v # None
      /\ op.spec.type \in Number /\ v.type \in Number \cup {"bool"}
      /\ op.spec.n # NaN /\ v.n # NaN
      => (result <=> \A code \in {"gt", "lt", "eq"} \ {op.code} : ~Some(code, op.spec))

\* An integer of the query is the same in 32 and in 64 bits.
Widened(v) == [type |-> "int64", n |-> v.n]

WidthIgnored ==
  at = "done" /\ op.code \in Compare \ {"in", "nin", "inset"}
      /\ op.spec.type = "int32" /\ Widened(op.spec) \in Value =>
    (result <=> Some(op.code, Widened(op.spec)))

\* The tables of _mongoc_matcher_op_eq_match, _gt_match, _gte_match, _lt_match and
\* _lte_match agree, row by row and with each other.
TablesAgree == OrEqual /\ OneRelation /\ WidthIgnored

\* No text of v, an array of it included, has a zero byte.
WholeOf(v, whole) ==
  /\ v.type = "text"  => v.cut = v.n
  /\ v.type = "array" => \A i \in DOMAIN v.items : whole[v.items[i]]

Whole[v \in Value] == WholeOf(v, Whole)

SetOfTexts ==
  /\ at = "done" /\ op.code = "inset" /\ op.spec.type = "array"
  /\ \A e \in Elements(op.spec) : e.type = "text"

\* $inset, the faster $in of README.md, misses nothing that $in finds for a list of
\* strings, zero bytes or not; and it finds no more than $in where no string of the
\* list and none that the path leads to in the document has a zero byte
\* (HASH_FIND_STR next to the memcmp of _mongoc_matcher_iter_eq_match).
InsetIsIn ==
  SetOfTexts =>
    /\ Some("in", op.spec) => result
    /\ Whole[op.spec] /\ (\A i \in DOMAIN Values : Whole[Values[i]]) =>
         (result => Some("in", op.spec))
=============================================================================
