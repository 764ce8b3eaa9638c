----------------------------- MODULE OpTreeUse -----------------------------
(***************************************************************************)
(* The life of a compiled query: mongoc_matcher_match evaluates the op     *)
(* tree against documents, mongoc_matcher_destroy frees it node by node.   *)
(* Both are recursive walks, one step per call or return.                  *)
(*                                                                         *)
(* A document is abstracted to the answers of the atoms: whether the leaf  *)
(* holds of it or, for $exists, whether the field is present.              *)
(***************************************************************************)
EXTENDS OpTree, SequencesExt

VARIABLES doc,    \* the document being matched
          act,    \* the call about to be made, or the value being returned
          walk,   \* its callers, innermost last
          seen,   \* the atoms evaluated by this match, in order
          freed   \* the nodes given back to the allocator, in order

useVars == <<doc, act, walk, seen, freed>>
allVars == <<query, ctl, stack, heap, err, doc, act, walk, seen, freed>>

Document == [Atom -> BOOLEAN]

Idle     == [do |-> "idle"]
Match(n) == [do |-> "match", node |-> n]
Value(b) == [do |-> "value", value |-> b]
Free(n)  == [do |-> "free", node |-> n]

UseInit ==
  /\ Init
  /\ doc = [a \in Atom |-> FALSE]
  /\ act = Idle
  /\ walk = << >>
  /\ seen = << >>
  /\ freed = << >>

Compile == Next /\ UNCHANGED useVars
-----------------------------------------------------------------------------
Kids(n)  == heap[n].kids
Tag(n)   == heap[n].tag
Last0    == walk[Len(walk)]
Callers  == SubSeq(walk, 1, Len(walk) - 1)
Enter(n, i) == walk' = Append(walk, [node |-> n, at |-> i])

Matching(tags) == act.do = "match" /\ act.node # 0 /\ Tag(act.node) \in tags

\* mongoc_matcher_match: any number of documents, one after the other.
StartMatch ==
  /\ ctl.do = "compiled"
  /\ act.do \in {"idle", "result"}
  /\ doc' \in Document
  /\ seen' = << >>
  /\ act' = Match(ctl.root)
  /\ UNCHANGED <<query, ctl, stack, heap, err, walk, freed>>

MatchLeaf ==
  /\ Matching({"leaf"})
  /\ seen' = Append(seen, heap[act.node].atom)
  /\ act' = Value(doc[heap[act.node].atom])
  /\ UNCHANGED <<query, ctl, stack, heap, err, doc, walk, freed>>

\* A missing field passes a spec; without a spec presence is the answer.
MatchExists ==
  /\ Matching({"exists"})
  /\ LET atom  == heap[act.node].atom
         spec  == Kids(act.node)[1]
     IN  /\ seen' = Append(seen, atom)
         /\ IF doc[atom] /\ spec # 0
            THEN Enter(act.node, 1) /\ act' = Match(spec)
            ELSE walk' = walk /\ act' = Value(doc[atom] \/ spec # 0)
  /\ UNCHANGED <<query, ctl, stack, heap, err, doc, freed>>

MatchFirst ==
  /\ Matching({"not", "cond"} \cup Opcode)
  /\ Enter(act.node, 1)
  /\ act' = Match(Kids(act.node)[1])
  /\ UNCHANGED <<query, ctl, stack, heap, err, doc, seen, freed>>

\* BSON_ASSERT (op) on a part that a repeated key of $cond set to NULL.
MatchNull ==
  /\ act.do = "match"
  /\ act.node = 0
  /\ act' = [do |-> "aborted"]
  /\ UNCHANGED <<query, ctl, stack, heap, err, doc, walk, seen, freed>>

\* The child to evaluate next once child i of node n gave b; 0 if b settles n.
NextKid(n, i, b) ==
  CASE Tag(n) = "cond" /\ i = 1            -> IF b THEN 2 ELSE 3
    [] Tag(n) = "and" /\ i = 1 /\ b        -> 2
    [] Tag(n) \in {"or", "nor"} /\ i = 1 /\ ~b -> 2
    [] OTHER                               -> 0

\* Mutant: $nor answered like $or.
SettleNotOnly(n, b) == IF Tag(n) = "not" THEN ~b ELSE b
Settle(n, b) == IF Tag(n) \in {"not", "nor"} THEN ~b ELSE b

Evaluate ==
  /\ act.do = "value"
  /\ walk # << >>
  /\ LET n == Last0.node
         k == NextKid(n, Last0.at, act.value)
     IN  IF k # 0
         THEN /\ walk' = Append(Callers, [node |-> n, at |-> k])
              /\ act' = Match(Kids(n)[k])
         ELSE /\ walk' = Callers
              /\ act' = Value(Settle(n, act.value))
  /\ UNCHANGED <<query, ctl, stack, heap, err, doc, seen, freed>>

MatchReturn ==
  /\ act.do = "value"
  /\ walk = << >>
  /\ act' = [do |-> "result", value |-> act.value]
  /\ UNCHANGED <<query, ctl, stack, heap, err, doc, walk, seen, freed>>
-----------------------------------------------------------------------------
\* matcher_destroy: _mongoc_matcher_op_destroy frees the children, then op.
StartDestroy ==
  /\ ctl.do = "compiled"
  /\ act.do \in {"idle", "result"}
  /\ act' = Free(ctl.root)
  /\ UNCHANGED <<query, ctl, stack, heap, err, doc, walk, seen, freed>>

\* Mutant: the walk starts one child too late.
KidsAfter(n, i) == {k \in i + 1 .. Len(Kids(n)) : Kids(n)[k] # 0}
KidsFrom(n, i) == {k \in i .. Len(Kids(n)) : Kids(n)[k] # 0}

\* Free node n if no child from place i on is left, or go into that child.
Descend(n, i, callers) ==
  IF KidsFrom(n, i) = {}
  THEN /\ freed' = Append(freed, n)
       /\ walk' = callers
       /\ act' = [do |-> "freed"]
  ELSE LET k == Min(KidsFrom(n, i))
       IN  /\ walk' = Append(callers, [node |-> n, at |-> k])
           /\ act' = Free(Kids(n)[k])
           /\ freed' = freed

FreeNode ==
  /\ act.do = "free"
  /\ Descend(act.node, 1, walk)
  /\ UNCHANGED <<query, ctl, stack, heap, err, doc, seen>>

FreedKid ==
  /\ act.do = "freed"
  /\ walk # << >>
  /\ Descend(Last0.node, Last0.at + 1, Callers)
  /\ UNCHANGED <<query, ctl, stack, heap, err, doc, seen>>

Destroyed ==
  /\ act.do = "freed"
  /\ walk = << >>
  /\ act' = [do |-> "destroyed"]
  /\ UNCHANGED <<query, ctl, stack, heap, err, doc, walk, seen, freed>>

UseNext ==
  \/ Compile
  \/ StartMatch \/ MatchLeaf \/ MatchExists \/ MatchFirst \/ MatchNull
  \/ Evaluate \/ MatchReturn
  \/ StartDestroy \/ FreeNode \/ FreedKid \/ Destroyed

UseSpec == UseInit /\ [][UseNext]_allVars
=============================================================================
