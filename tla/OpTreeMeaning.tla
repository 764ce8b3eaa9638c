--------------------------- MODULE OpTreeMeaning ---------------------------
(***************************************************************************)
(* What compiling, matching and destroying a query should come to, stated  *)
(* on the query itself, with no tree, stack or pointer: which queries are  *)
(* valid, what a query means, which atoms a match has to ask in which      *)
(* order.  The properties compare the walks of OpTree and OpTreeUse to it. *)
(***************************************************************************)
EXTENDS OpTreeUse

CONSTANT Depth  \* how deeply the documents of a clause nest

First(elem) == Head(elem)

\* The clauses right below c that the parser gets to read: the first key of
\* each sub-document.
Subs(c) ==
  CASE c.kind = "not"     -> {c.kid}
    [] c.kind = "exists"  -> {First(s) : s \in {c.spec} \ {<< >>}}
    [] c.kind = "logical" ->
         {First(c.elems[i]) : i \in {i \in DOMAIN c.elems : c.elems[i] # << >>}}
    [] c.kind = "cond"    ->
         {First(c.parts[i].elem) :
            i \in {i \in DOMAIN c.parts : c.parts[i].elem # << >>}}
    [] OTHER              -> {}

\* A BSON document has a length, so it nests finitely deep.
ASSUME DepthAssumption ==
  /\ Depth \in [Clause -> Nat]
  /\ \A c \in Clause : \A k \in Subs(c) : Depth[k] < Depth[c]

PartsOf(c, p) == {i \in DOMAIN c.parts : c.parts[i].part = p}
ThePart(c, p) == First(c.parts[CHOOSE i \in PartsOf(c, p) : TRUE].elem)

\* Not refused itself, no value in it that should be a document, every part of
\* a $cond there once.
WellFormed(c) ==
  /\ c.kind # "bad"
  /\ c.kind = "logical" =>
       c.elems # << >> /\ \A i \in DOMAIN c.elems : c.elems[i] # << >>
  /\ c.kind = "cond" =>
       /\ \A p \in Part : \E i \in PartsOf(c, p) : PartsOf(c, p) = {i}
       /\ \A i \in DOMAIN c.parts : c.parts[i].elem # << >>

\* Nothing refused anywhere in the clause.
ValidClause[c \in Clause] ==
  WellFormed(c) /\ \A k \in Subs(c) : ValidClause[k]

Valid == query # << >> /\ \A i \in DOMAIN query : ValidClause[query[i]]

\* The only lists of $nor the folding of parse_logical keeps the meaning of.
NorIsPair(c) == c.kind = "logical" /\ c.op = "nor" => Len(c.elems) = 2

NorsArePairs[c \in Clause] ==
  NorIsPair(c) /\ \A k \in Subs(c) : NorsArePairs[k]

Faithful == Valid /\ \A i \in DOMAIN query : NorsArePairs[query[i]]

ValidClauses == {c \in Clause : ValidClause[c]}

\* What c says of a document, given what its sub-clauses say.
Says(c, d, says) ==
  CASE c.kind = "leaf"    -> d[c.atom]
    [] c.kind = "not"     -> ~says[c.kid][d]
    [] c.kind = "exists"  -> IF c.spec = << >> THEN d[c.atom]
                             ELSE d[c.atom] => says[First(c.spec)][d]
    [] c.kind = "logical" ->
         LET some(b) == \E i \in DOMAIN c.elems : says[First(c.elems[i])][d] = b
         IN  IF c.op = "and" THEN ~some(FALSE) ELSE some(TRUE) = (c.op = "or")
    [] c.kind = "cond"    ->
         IF says[ThePart(c, "if")][d] THEN says[ThePart(c, "then")][d]
         ELSE says[ThePart(c, "else")][d]

\* What a valid clause says of a document.
Holds[c \in ValidClauses] == [d \in Document |-> Says(c, d, Holds)]

Meaning(d) == \A i \in DOMAIN query : Holds[query[i]][d]

\* The clauses of a list up to the first with the truth value that settles it.
UpTo(clauses, d, stop) ==
  LET settled == {i \in DOMAIN clauses : Holds[clauses[i]][d] = stop}
  IN  SubSeq(clauses, 1, IF settled = {} THEN Len(clauses) ELSE Min(settled))

\* What a list asks of a document, given what its clauses ask.
ListAsks(clauses, d, stop, asks) ==
  LET asked == UpTo(clauses, d, stop)
  IN  FlattenSeq([i \in DOMAIN asked |-> asks[asked[i]][d]])

Firsts(elems) == [i \in DOMAIN elems |-> First(elems[i])]

\* What c asks, given what its sub-clauses ask.
AsksOf(c, d, asks) ==
  CASE c.kind = "leaf"    -> <<c.atom>>
    [] c.kind = "not"     -> asks[c.kid][d]
    [] c.kind = "exists"  ->
         <<c.atom>> \o (IF c.spec # << >> /\ d[c.atom] THEN asks[First(c.spec)][d]
                        ELSE << >>)
    [] c.kind = "logical" -> ListAsks(Firsts(c.elems), d, c.op # "and", asks)
    [] c.kind = "cond"    ->
         asks[ThePart(c, "if")][d] \o
           asks[ThePart(c, IF Holds[ThePart(c, "if")][d] THEN "then" ELSE "else")][d]

Asks[c \in ValidClauses] == [d \in Document |-> AsksOf(c, d, Asks)]

Asked(d) == ListAsks(query, d, FALSE, Asks)
-----------------------------------------------------------------------------
\* A valid query always compiles: mongoc_matcher_new returns a matcher.
ValidCompiles == Valid /\ Ended => ctl.do = "compiled"

\* The clauses the parser may get to read.
Within[c \in Clause] == {c} \cup UNION {Within[k] : k \in Subs(c)}

Read == UNION {Within[query[i]] : i \in DOMAIN query}

\* A query is refused with @error set, but for a clause that is refused without
\* ($near without $maxDistance): no other way out of the parser is silent.
FailureReported ==
  ctl.do = "failed" /\ ~err => \E c \in Read : c.kind = "bad" /\ c.how = "silent"

\* A query aborts the process only by a clause whose constructor gave NULL, or
\* by a $cond that is not complete: a query refused otherwise is survived.
AbortsExplained ==
  ctl.do = "aborted" =>
    \E c \in Read : \/ c.kind = "bad" /\ c.how = "abort"
                    \/ c.kind = "cond" /\ ~ValidClause[c]

\* A match of a valid query never runs into NULL.  (It may after a $cond key is
\* given twice, which makes a query invalid without being refused.)
MatchReturns == Valid => act.do # "aborted"

\* No way out is silent or fatal without a reason in the query: of
\* mongoc_matcher_new (its BSON_ASSERTs included) and of mongoc_matcher_match.
StopsExplained == FailureReported /\ AbortsExplained /\ MatchReturns

\* Every pointer that keeps op n in reach, as a set of places.
Owners(n) ==
  {<<"kid", p[1], p[2]>> : p \in
     {q \in (1 .. Len(heap)) \X (1 .. 3) :
        q[2] <= Len(Kids(q[1])) /\ Kids(q[1])[q[2]] = n}}
  \cup {<<"left", k, 0>> : k \in
     {k \in DOMAIN stack : stack[k].fn = "logical" /\ stack[k].left = n}}
  \cup {<<"right", k, 0>> : k \in
     {k \in DOMAIN stack : stack[k].fn = "logical" /\ stack[k].right = n}}
  \cup {<<"part", p[1], p[2]>> : p \in
     {q \in (DOMAIN stack) \X Part :
        stack[q[1]].fn = "cond" /\ stack[q[1]].got[q[2]] = n}}
  \cup (IF Held = n THEN {<<"held", 0, 0>>} ELSE {})

\* While a valid query compiles no op is lost: each has a pointer to it, and
\* only one.
NothingLeaks ==
  Valid => \A n \in 1 .. Len(heap) : \E o \in Owners(n) : Owners(n) = {o}

\* mongoc_matcher_match answers what the query asks of the document.
MatchMeaning ==
  Faithful /\ act.do = "result" => act.value = Meaning(doc)

\* It asks left to right and stops at the clause that settles the answer:
\* the order lib/tests/bsoncompare_and_bailout.c tells users to rely on.
FailFast ==
  Faithful /\ act.do = "result" => seen = Asked(doc)

\* mongoc_matcher_destroy gives every op of a valid query back exactly once.
DestroyFreesAll ==
  Valid /\ act.do = "destroyed" =>
    IsInjective(freed) /\ ToSet(freed) = 1 .. Len(heap)

\* No op is read or freed after it was freed, for any query that compiled.
NoUseAfterFree ==
  act.do \in {"match", "free"} => act.node \notin ToSet(freed)

\* An op is freed only after the ops it points to.
ChildrenFirst ==
  \A i \in DOMAIN freed :
    \A k \in DOMAIN Kids(freed[i]) :
      Kids(freed[i])[k] # 0 =>
        \E j \in 1 .. i - 1 : freed[j] = Kids(freed[i])[k]

\* _mongoc_matcher_op_destroy frees every op of a valid query, each once and
\* after what it points to, and nothing is read after it was freed.
DestroyIsSafe == DestroyFreesAll /\ NoUseAfterFree /\ ChildrenFirst
-----------------------------------------------------------------------------
(***************************************************************************)
(* What the comments of lib/mongoc-matcher.c say, and the code does not do *)
(***************************************************************************)
\* mongoc_matcher_new returns "A newly allocated mongoc_matcher_t if
\* successful; otherwise NULL": no matcher for a query with a refused clause.
BadClauseRefused ==
  ctl.do = "compiled" => \A i \in DOMAIN query : query[i].kind # "bad"
=============================================================================
