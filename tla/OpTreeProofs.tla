---------------------------- MODULE OpTreeProofs ----------------------------
(***************************************************************************)
(* Proofs about the compiler of OpTree and the walks of OpTreeUse, for     *)
(* every set of clauses and every query, in three parts:                   *)
(*   - who owns an op: type correctness; every op allocated has at most    *)
(*     one owner; and, from this forest, no op is read or freed after it   *)
(*     was freed, and each is freed only once and after the ops it points  *)
(*     to;                                                                 *)
(*   - what a query may come to: a valid one compiles without losing an op *)
(*     and is given back whole, and one that stops the compiler or a match *)
(*     has the reason in it;                                               *)
(*   - what a query means: the ops of a faithful one answer what it says   *)
(*     of a document, and ask its atoms in the order it gives, no further  *)
(*     than the answer needs.                                              *)
(***************************************************************************)
EXTENDS OpTreeMeaning, Recursion, SequenceTheorems, TLAPS

USE DEF Ref

-----------------------------------------------------------------------------
(***************************************************************************)
(* Part 1.  Who owns an op.                                                *)
(***************************************************************************)

\* Which of the four C functions a frame belongs to fixes its locals.
LEMMA FrameCases ==
  ASSUME NEW f \in Frame
  PROVE  /\ f.fn \in {"logical", "not", "exists", "cond"}
         /\ f.fn = "logical" => f \in LogicalFrame
         /\ f.fn = "exists" => f \in ExistsFrame
         /\ f.fn = "cond" => f \in CondFrame
  BY DEF Frame, LogicalFrame, NotFrame, ExistsFrame, CondFrame

\* A sequence without its last element.
LEMMA FrontOfSeq ==
  ASSUME NEW S, NEW s \in Seq(S), s # << >>
  PROVE  /\ Len(s) \in Nat \ {0}
         /\ s[Len(s)] \in S
         /\ SubSeq(s, 1, Len(s) - 1) \in Seq(S)
         /\ Len(SubSeq(s, 1, Len(s) - 1)) = Len(s) - 1
         /\ \A k \in 1 .. Len(s) - 1 : SubSeq(s, 1, Len(s) - 1)[k] = s[k]
<1>1. Len(s) \in Nat \ {0}
  BY EmptySeq
<1>2. \A k \in 1 .. Len(s) : s[k] \in S
  BY ElementOfSeq
<1> DEFINE n == Len(s) - 1
           t == SubSeq(s, 1, n)
<1>3. n \in Nat /\ n \in Int /\ \A k \in 1 .. n : s[k] \in S
  BY <1>1, <1>2
<1>4. /\ t \in Seq(S)
      /\ Len(t) = IF 1 <= n THEN n - 1 + 1 ELSE 0
      /\ \A k \in 1 .. n - 1 + 1 : t[k] = s[1 + k - 1]
  <2> HIDE DEF n
  <2> QED  BY <1>3, SubSeqProperties
<1>5. Len(t) = n /\ \A k \in 1 .. n : t[k] = s[k]
  <2> HIDE DEF n, t
  <2> QED  BY <1>3, <1>4
<1> QED
  BY <1>1, <1>2, <1>4, <1>5

\* The innermost caller is a frame, and the frames below it stay as they were.
LEMMA TopType ==
  ASSUME TypeOK, stack # << >>
  PROVE  /\ Top \in Frame
         /\ Below \in Seq(Frame)
         /\ Len(stack) \in Nat \ {0}
         /\ Len(Below) = Len(stack) - 1
         /\ \A k \in 1 .. Len(stack) - 1 : Below[k] = stack[k]
<1>1. stack \in Seq(Frame)
  BY DEF TypeOK
<1> QED
  BY <1>1, FrontOfSeq DEF Top, Below

\* The iterator of a list, after bson_iter_next.
LEMMA ItemsType ==
  ASSUME NEW T, NEW items \in Seq(T), items # << >>
  PROVE  Head(items) \in T /\ Tail(items) \in Seq(T)
  BY HeadTailProperties

\* The first key of an element is a clause.
LEMMA ElementType ==
  ASSUME NEW e \in Element, e # << >>
  PROVE  Head(e) \in Clause
  BY HeadTailProperties DEF Element

\* Every value the actions give the control register is one of its type.
LEMMA ControlType ==
  /\ \A c \in Clause : Parse(c) \in Control
  /\ \A op \in Opcode, items \in Seq(Element) : Logical(op, items) \in Control
  /\ \A r \in Ref : Return(r) \in Control
  /\ Aborted \in Control /\ [do |-> "loop"] \in Control /\ [do |-> "failed"] \in Control
  /\ \A r \in Ref : [do |-> "compiled", root |-> r] \in Control
  BY DEF Control, Parse, Logical, Return, Aborted

\* What the control register carries, by what is about to be done.
LEMMA ControlCases ==
  ASSUME TypeOK
  PROVE  /\ ctl.do = "parse" => ctl.clause \in Clause
         /\ ctl.do = "logical" => ctl.op \in Opcode /\ ctl.items \in Seq(Element)
         /\ ctl.do = "return" => ctl.ref \in Ref
         /\ ctl.do = "compiled" => ctl.root \in Ref
  BY DEF TypeOK, Control

\* Every constructor makes a node.
LEMMA NodeType ==
  /\ \A a \in Atom : LeafNode(a) \in Node
  /\ \A a \in Atom, r \in Ref : ExistsNode(a, r) \in Node
  /\ \A r \in Ref : NotNode(r) \in Node
  /\ \A op \in Opcode, l, r \in Ref : LogicalNode(op, l, r) \in Node
  /\ \A got \in [Part -> Ref] : CondNode(got) \in Node
<1>1. \A a \in Atom : LeafNode(a) \in Node
  BY EmptySeq DEF Node, LeafNode
<1>2. \A a \in Atom, r \in Ref : ExistsNode(a, r) \in Node
  BY DEF Node, ExistsNode
<1>3. \A r \in Ref : NotNode(r) \in Node
  BY DEF Node, NotNode
<1>4. \A op \in Opcode, l, r \in Ref : LogicalNode(op, l, r) \in Node
  BY DEF Node, LogicalNode
<1>5. \A got \in [Part -> Ref] : CondNode(got) \in Node
  BY DEF Node, CondNode, Part
<1> QED
  BY <1>1, <1>2, <1>3, <1>4, <1>5

\* One lemma for the shape all actions that allocate or push have.
LEMMA AppendType ==
  ASSUME NEW T, NEW s \in Seq(T), NEW e \in T
  PROVE  Append(s, e) \in Seq(T)
  OBVIOUS

-----------------------------------------------------------------------------
\* mongoc_matcher_new starts well typed.
LEMMA InitType == Init => TypeOK
<1> SUFFICES ASSUME Init PROVE TypeOK
  OBVIOUS
<1>1. query \in Seq(Clause)
  BY QueriesAssumption DEF Init
<1>2. \A i \in 1 .. Len(query) : <<query[i]>> \in Element
  BY <1>1, ElementOfSeq DEF Element
<1>3. [i \in 1 .. Len(query) |-> <<query[i]>>] \in Seq(Element)
  <2> DEFINE n == Len(query)
             g == [i \in 1 .. n |-> <<query[i]>>]
  <2>1. n \in Nat
    BY <1>1
  <2>2. g \in [1 .. n -> Element]
    BY <1>2
  <2> QED
    BY <2>1, <2>2, SeqDef
<1>4. ctl \in Control
  BY <1>3, ControlType DEF Init, Opcode
<1> QED
  BY <1>1, <1>4, EmptySeq DEF Init, TypeOK

\* Every step keeps the types of the control register, stack and heap.
LEMMA StepType ==
  ASSUME TypeOK, Step
  PROVE  TypeOK'
<1> USE DEF TypeOK
<1>0. /\ query \in Seq(Clause) /\ ctl \in Control
      /\ stack \in Seq(Frame) /\ heap \in Seq(Node) /\ err \in BOOLEAN
  OBVIOUS
<1> USE DEF Parsing, Push, Pop, SetTop, Alloc, Fail, SetError, Returning,
            ReturningAt, Looping
<1>f. Len(heap) \in Nat /\ Fresh \in Ref /\ Fresh + 1 \in Ref
  BY DEF Fresh
<1>1. CASE ParseLeaf
  <2>1. ctl.clause.atom \in Atom
    BY <1>1, ControlCases, ClauseAssumption DEF ParseLeaf
  <2>2. LeafNode(ctl.clause.atom) \in Node
    BY <2>1, NodeType
  <2>3. Append(heap, LeafNode(ctl.clause.atom)) \in Seq(Node)
    BY <2>2, AppendType
  <2> QED
    BY <1>1, <1>f, <2>3, ControlType DEF ParseLeaf
<1>2. CASE ParseBad
  BY <1>2, ControlType DEF ParseBad
<1>3. CASE ParseNot
  <2>1. ctl.clause.kid \in Clause
    BY <1>3, ControlCases, ClauseAssumption DEF ParseNot
  <2>2. [fn |-> "not"] \in Frame
    BY DEF Frame, NotFrame
  <2> QED
    BY <1>3, <2>1, <2>2, AppendType, ControlType DEF ParseNot
<1>4. CASE ParseExistsEmpty
  <2>1. ctl.clause.atom \in Atom
    BY <1>4, ControlCases, ClauseAssumption DEF ParseExistsEmpty
  <2>2. ExistsNode(ctl.clause.atom, 0) \in Node
    BY <2>1, NodeType
  <2>3. Append(heap, ExistsNode(ctl.clause.atom, 0)) \in Seq(Node)
    BY <2>2, AppendType
  <2> QED
    BY <1>4, <1>f, <2>3, ControlType DEF ParseExistsEmpty
<1>5. CASE ParseExists
  <2>1. ctl.clause.atom \in Atom /\ ctl.clause.spec \in Element
    BY <1>5, ControlCases, ClauseAssumption DEF ParseExists
  <2>2. [fn |-> "exists", atom |-> ctl.clause.atom] \in Frame
    BY <2>1 DEF Frame, ExistsFrame
  <2>3. Head(ctl.clause.spec) \in Clause
    BY <1>5, <2>1, ElementType DEF ParseExists
  <2> QED
    BY <1>5, <2>2, <2>3, AppendType, ControlType DEF ParseExists
<1>6. CASE ParseLogical
  <2>1. ctl.clause.op \in Opcode /\ ctl.clause.elems \in Seq(Element)
    BY <1>6, ControlCases, ClauseAssumption DEF ParseLogical
  <2> QED
    BY <1>6, <2>1, ControlType DEF ParseLogical
<1>7. CASE ParseCond
  <2>1. ctl.clause.parts \in Seq([part : Part, elem : Element])
    BY <1>7, ControlCases, ClauseAssumption DEF ParseCond
  <2>2. [fn |-> "cond", items |-> ctl.clause.parts, at |-> "if",
         got |-> [p \in Part |-> 0], ok |-> {}] \in Frame
    BY <2>1 DEF Frame, CondFrame, Part
  <2> QED
    BY <1>7, <2>2, AppendType, ControlType DEF ParseCond
<1>8. CASE LogicalEmpty
  BY <1>8, ControlType DEF LogicalEmpty
<1>9. CASE LogicalNotDocument
  BY <1>9, ControlType DEF LogicalNotDocument
<1>10. CASE LogicalLeft
  <2>1. /\ ctl.op \in Opcode /\ Tail(ctl.items) \in Seq(Element)
        /\ Head(ctl.items) \in Element
    BY <1>10, ControlCases, ItemsType DEF LogicalLeft
  <2>2. Head(Head(ctl.items)) \in Clause
    BY <1>10, <2>1, ElementType DEF LogicalLeft
  <2>3. [fn |-> "logical", op |-> ctl.op, items |-> Tail(ctl.items),
         at |-> "left", left |-> 0, right |-> 0] \in Frame
    BY <2>1 DEF Frame, LogicalFrame
  <2> QED
    BY <1>10, <2>2, <2>3, AppendType, ControlType DEF LogicalLeft
<1>t. ASSUME stack # << >>
      PROVE  /\ Top \in Frame /\ Below \in Seq(Frame)
             /\ Top.fn = "logical" =>
                  /\ Top \in LogicalFrame /\ Top.op \in Opcode
                  /\ Top.items \in Seq(Element)
                  /\ Top.left \in Ref /\ Top.right \in Ref
             /\ Top.fn = "exists" => Top.atom \in Atom
             /\ Top.fn = "cond" =>
                  /\ Top \in CondFrame /\ Top.items \in Seq([part : Part, elem : Element])
                  /\ Top.at \in Part /\ Top.got \in [Part -> Ref] /\ Top.ok \in SUBSET Part
  <2>1. Top \in Frame /\ Below \in Seq(Frame)
    BY <1>t, TopType
  <2> HIDE DEF TypeOK
  <2> QED
    BY <2>1, FrameCases DEF LogicalFrame, ExistsFrame, CondFrame
<1>r. ctl.do = "return" => ctl.ref \in Ref
  BY ControlCases
<1>11. CASE GotLeftLast
  BY <1>11, <1>t DEF GotLeftLast
<1>12. CASE GotLeftNotDocument
  BY <1>12, <1>t, ControlType DEF GotLeftNotDocument
<1>13. CASE GotLeft
  <2>1. /\ Top \in LogicalFrame /\ Tail(Top.items) \in Seq(Element)
        /\ Head(Top.items) \in Element
    BY <1>13, <1>t, ItemsType DEF GotLeft
  <2>2. Head(Head(Top.items)) \in Clause
    BY <1>13, <2>1, ElementType DEF GotLeft
  <2>3. [Top EXCEPT !.at = "right", !.left = ctl.ref, !.items = Tail(@)] \in Frame
    BY <1>13, <1>r, <2>1 DEF GotLeft, Frame, LogicalFrame
  <2> QED
    BY <1>13, <1>t, <2>2, <2>3, AppendType, ControlType DEF GotLeft
<1>14. CASE GotRightFailed
  BY <1>14, <1>t DEF GotRightFailed
<1>15. CASE GotRight
  <2>1. Top \in LogicalFrame /\ Top.items \in Seq(Element) /\ Top.op \in Opcode
    BY <1>15, <1>t DEF GotRight
  <2>2. [Top EXCEPT !.at = "more", !.right = ctl.ref] \in Frame
    BY <1>15, <1>r, <2>1 DEF GotRight, Frame, LogicalFrame
  <2> QED
    BY <1>15, <1>t, <2>1, <2>2, AppendType, ControlType DEF GotRight
<1>16. CASE GotNoMore
  <2>1. LogicalNode(Top.op, Top.left, Top.right) \in Node
    BY <1>16, <1>t, NodeType DEF GotNoMore
  <2>2. Append(heap, LogicalNode(Top.op, Top.left, Top.right)) \in Seq(Node)
    BY <2>1, AppendType
  <2> QED
    BY <1>16, <1>f, <1>t, <2>2, ControlType DEF GotNoMore
<1>17. CASE GotMore
  <2>1. /\ LogicalNode(Top.op, Top.right, ctl.ref) \in Node
        /\ LogicalNode(Top.op, Top.left, Fresh) \in Node
    BY <1>17, <1>f, <1>r, <1>t, NodeType DEF GotMore
  <2>2. <<LogicalNode(Top.op, Top.right, ctl.ref), LogicalNode(Top.op, Top.left, Fresh)>>
          \in Seq(Node)
    BY <2>1
  <2>3. heap' \in Seq(Node)
    BY <1>17, <2>2, ConcatProperties DEF GotMore
  <2> QED
    BY <1>17, <1>f, <1>t, <2>3, ControlType DEF GotMore
<1>18. CASE GotNot
  <2>1. NotNode(ctl.ref) \in Node
    BY <1>18, <1>r, NodeType DEF GotNot
  <2>2. Append(heap, NotNode(ctl.ref)) \in Seq(Node)
    BY <2>1, AppendType
  <2> QED
    BY <1>18, <1>f, <1>t, <2>2, ControlType DEF GotNot
<1>19. CASE GotExists
  <2>1. ExistsNode(Top.atom, ctl.ref) \in Node
    BY <1>19, <1>r, <1>t, NodeType DEF GotExists
  <2>2. Append(heap, ExistsNode(Top.atom, ctl.ref)) \in Seq(Node)
    BY <2>1, AppendType
  <2> QED
    BY <1>19, <1>f, <1>t, <2>2, ControlType DEF GotExists
<1>20. CASE CondSkip
  <2>1. Top \in CondFrame /\ Tail(Top.items) \in Seq([part : Part, elem : Element])
    BY <1>20, <1>t, ItemsType DEF CondSkip
  <2>2. [Top EXCEPT !.items = Tail(@)] \in Frame
    BY <2>1 DEF Frame, CondFrame
  <2> QED
    BY <1>20, <1>t, <2>2, AppendType DEF CondSkip
<1>21. CASE CondPart
  <2>1. /\ Top \in CondFrame /\ Tail(Top.items) \in Seq([part : Part, elem : Element])
        /\ Head(Top.items) \in [part : Part, elem : Element]
    BY <1>21, <1>t, ItemsType DEF CondPart
  <2>2. Head(Top.items).part \in Part /\ Head(Top.items).elem \in Element
    BY <2>1
  <2>3. [Top EXCEPT !.items = Tail(@), !.at = Head(Top.items).part] \in Frame
    BY <2>1, <2>2 DEF Frame, CondFrame
  <2>4. Head(Head(Top.items).elem) \in Clause
    BY <1>21, <2>2, ElementType DEF CondPart
  <2> QED
    BY <1>21, <1>t, <2>3, <2>4, AppendType, ControlType DEF CondPart
<1>22. CASE GotCondPart
  <2> DEFINE f == [Top EXCEPT !.got[Top.at] = ctl.ref,
                              !.ok = IF ctl.ref = 0 THEN @ ELSE @ \cup {Top.at}]
  <2>1. /\ Top \in CondFrame /\ ctl.ref \in Ref /\ Top.at \in Part
        /\ Top.got \in [Part -> Ref] /\ Top.ok \in SUBSET Part
    BY <1>22, <1>r, <1>t DEF GotCondPart
  <2>2. [Top.got EXCEPT ![Top.at] = ctl.ref] \in [Part -> Ref]
    BY <2>1
  <2>3. (IF ctl.ref = 0 THEN Top.ok ELSE Top.ok \cup {Top.at}) \in SUBSET Part
    BY <2>1
  <2>4. f \in Frame
    BY <2>1, <2>2, <2>3 DEF Frame, CondFrame
  <2> HIDE DEF f
  <2>5. stack' = Append(Below, f)
    BY <1>22 DEF GotCondPart, f
  <2> QED
    BY <1>22, <1>t, <2>4, <2>5, AppendType, ControlType DEF GotCondPart
<1>23. CASE CondComplete
  <2>1. CondNode(Top.got) \in Node
    BY <1>23, <1>t, NodeType DEF CondComplete
  <2>2. Append(heap, CondNode(Top.got)) \in Seq(Node)
    BY <2>1, AppendType
  <2> QED
    BY <1>23, <1>f, <1>t, <2>2, ControlType DEF CondComplete
<1>24. CASE CondIncomplete
  BY <1>24, ControlType DEF CondIncomplete
<1>25. CASE Finish
  BY <1>25, <1>r, ControlType DEF Finish
<1> QED
  BY <1>1, <1>2, <1>3, <1>4, <1>5, <1>6, <1>7, <1>8, <1>9, <1>10, <1>11, <1>12,
     <1>13, <1>14, <1>15, <1>16, <1>17, <1>18, <1>19, <1>20, <1>21, <1>22, <1>23,
     <1>24, <1>25 DEF Step
-----------------------------------------------------------------------------
(***************************************************************************)
(* Ownership.  The lemmas below say what each way of moving pointers       *)
(* between the register, the locals and the ops preserves; h, s and r are  *)
(* the heap, the stack and the register.                                   *)
(***************************************************************************)
Owned(h, s, r) == Grounded(h, s, r) /\ Apart(h, s, r)

Under(s) == SubSeq(s, 1, Len(s) - 1)

\* The stack without its innermost frame.
LEMMA FrontType ==
  ASSUME NEW s \in Seq(Frame), s # << >>
  PROVE  /\ Len(s) \in Nat \ {0}
         /\ Under(s) \in Seq(Frame)
         /\ Len(Under(s)) = Len(s) - 1
         /\ \A k \in 1 .. Len(s) - 1 : Under(s)[k] = s[k]
  BY FrontOfSeq DEF Under

\* A caller that holds nothing yet is pushed; the register is read.
LEMMA PushOwned ==
  ASSUME NEW h \in Seq(Node), NEW s \in Seq(Frame), NEW r \in Ref, NEW f \in Frame,
         Owned(h, s, r), Locals(f) = {}, NoTwinLocals(f)
  PROVE  Owned(h, Append(s, f), 0)
<1> DEFINE t == Append(s, f)
<1>1. /\ Len(t) = Len(s) + 1 /\ Len(s) \in Nat /\ Len(h) \in Nat
      /\ \A k \in 1 .. Len(s) : t[k] = s[k]
      /\ t[Len(s) + 1] = f
  BY AppendProperties
<1> HIDE DEF t
<1>2. \A k \in 1 .. Len(t) : k \in 1 .. Len(s) \/ (k = Len(s) + 1 /\ Locals(t[k]) = {})
  BY <1>1
<1>3. 0 \notin Locals(f) /\ \A k \in 1 .. Len(s) : 0 \notin Locals(s[k])
  BY DEF Locals
<1>4. \A n \in 1 .. Len(h) : 0 \notin KidsOf(h[n])
  BY DEF KidsOf
<1>5. Grounded(h, t, 0)
  BY <1>1, <1>2 DEF Owned, Grounded
<1>6. Apart(h, t, 0)
  BY <1>1, <1>2, <1>3, <1>4 DEF Owned, Apart
<1> QED
  BY <1>5, <1>6 DEF Owned, t

\* The innermost caller returns what it was given, or NULL.
LEMMA PopOwned ==
  ASSUME NEW h \in Seq(Node), NEW s \in Seq(Frame), NEW r \in Ref, NEW v \in {0, r},
         Owned(h, s, r), s # << >>
  PROVE  Owned(h, Under(s), v)
<1> DEFINE t == Under(s)
<1>1. /\ Len(t) = Len(s) - 1 /\ Len(s) \in Nat \ {0} /\ Len(h) \in Nat
      /\ \A k \in 1 .. Len(t) : k \in 1 .. Len(s) /\ t[k] = s[k]
  BY FrontType
<1> HIDE DEF t
<1>2. \A k \in 1 .. Len(s) : 0 \notin Locals(s[k])
  BY DEF Locals
<1>3. \A n \in 1 .. Len(h) : 0 \notin KidsOf(h[n])
  BY DEF KidsOf
<1>4. Grounded(h, t, v)
  BY <1>1 DEF Owned, Grounded
<1>5. Apart(h, t, v)
  BY <1>1, <1>2, <1>3 DEF Owned, Apart
<1> QED
  BY <1>4, <1>5 DEF Owned, t

\* The innermost caller takes the register into its locals.
LEMMA TakeOwned ==
  ASSUME NEW h \in Seq(Node), NEW s \in Seq(Frame), NEW r \in Ref, NEW f \in Frame,
         Owned(h, s, r), s # << >>,
         Locals(f) \subseteq Locals(s[Len(s)]) \cup ({r} \ {0}), NoTwinLocals(f)
  PROVE  Owned(h, Append(Under(s), f), 0)
<1> DEFINE t == Append(Under(s), f)
           z == Len(s)
<1>1. /\ Len(t) = z /\ z \in Nat \ {0} /\ Len(h) \in Nat
      /\ \A k \in 1 .. z - 1 : t[k] = s[k]
      /\ t[z] = f
  BY FrontType, AppendProperties
<1> HIDE DEF t
<1>2. \A k \in 1 .. Len(t) : k \in 1 .. z /\ (k # z => t[k] = s[k])
  BY <1>1
<1>3. 0 \notin Locals(f) /\ \A k \in 1 .. Len(s) : 0 \notin Locals(s[k])
  BY DEF Locals
<1>4. \A n \in 1 .. Len(h) : 0 \notin KidsOf(h[n])
  BY DEF KidsOf
<1>5. Locals(f) \subseteq 1 .. Len(h)
  <2>1. Locals(s[z]) \subseteq 1 .. Len(h) /\ r \in 0 .. Len(h)
    BY <1>1 DEF Owned, Grounded
  <2> QED
    BY <1>1, <2>1
<1>6. Grounded(h, t, 0)
  BY <1>1, <1>2, <1>5 DEF Owned, Grounded
<1>z. z \in 1 .. Len(s)
  BY <1>1
<1>7. ASSUME NEW k \in 1 .. z - 1 PROVE Locals(f) \cap Locals(s[k]) = {}
  <2>1. k \in 1 .. Len(s) /\ k # z
    BY <1>1
  <2>2. Locals(s[z]) \cap Locals(s[k]) = {} /\ r \notin Locals(s[k])
    BY <1>z, <2>1 DEF Owned, Apart
  <2> QED
    BY <2>2
<1>8. ASSUME NEW n \in 1 .. Len(h) PROVE Locals(f) \cap KidsOf(h[n]) = {}
  <2>1. Locals(s[z]) \cap KidsOf(h[n]) = {} /\ r \notin KidsOf(h[n])
    BY <1>z DEF Owned, Apart
  <2> QED
    BY <2>1
<1>9. Apart(h, t, 0)
  <2>1. \A k \in 1 .. Len(t) : NoTwinLocals(t[k]) /\ 0 \notin Locals(t[k])
    BY <1>1, <1>2, <1>3 DEF Owned, Apart
  <2>2. \A k, l \in 1 .. Len(t) : k # l => Locals(t[k]) \cap Locals(t[l]) = {}
    <3> SUFFICES ASSUME NEW k \in 1 .. Len(t), NEW l \in 1 .. Len(t), k # l
                 PROVE  Locals(t[k]) \cap Locals(t[l]) = {}
      OBVIOUS
    <3>1. CASE k = z
      BY <3>1, <1>1, <1>2, <1>7
    <3>2. CASE l = z
      BY <3>2, <1>1, <1>2, <1>7
    <3>3. CASE k # z /\ l # z
      BY <3>3, <1>1, <1>2 DEF Owned, Apart
    <3> QED
      BY <3>1, <3>2, <3>3
  <2>3. \A n \in 1 .. Len(h), k \in 1 .. Len(t) : KidsOf(h[n]) \cap Locals(t[k]) = {}
    BY <1>1, <1>2, <1>8 DEF Owned, Apart
  <2> QED
    BY <1>4, <2>1, <2>2, <2>3 DEF Owned, Apart
<1> QED
  BY <1>6, <1>9 DEF Owned, t

\* A constructor: the new op takes over pointers nobody else holds.
LEMMA AllocOwned ==
  ASSUME NEW h \in Seq(Node), NEW s \in Seq(Frame), NEW n \in Node,
         Owned(h, s, 0), NoTwin(n), KidsOf(n) \subseteq 1 .. Len(h),
         \A m \in 1 .. Len(h) : KidsOf(n) \cap KidsOf(h[m]) = {},
         \A k \in 1 .. Len(s) : KidsOf(n) \cap Locals(s[k]) = {}
  PROVE  Owned(Append(h, n), s, Len(h) + 1)
<1> DEFINE g == Append(h, n)
           z == Len(h) + 1
<1>1. /\ Len(g) = z /\ Len(h) \in Nat /\ Len(s) \in Nat
      /\ \A m \in 1 .. Len(h) : g[m] = h[m]
      /\ g[z] = n
  BY AppendProperties
<1> HIDE DEF g
<1>2. \A m \in 1 .. Len(g) : m \in 1 .. Len(h) \/ (m = z /\ g[m] = n)
  BY <1>1
<1>3. \A m \in 1 .. Len(h) : KidsOf(h[m]) \subseteq 1 .. m - 1
  BY DEF Owned, Grounded
<1>4. \A k \in 1 .. Len(s) : Locals(s[k]) \subseteq 1 .. Len(h)
  BY DEF Owned, Grounded
<1>5. Grounded(g, s, z)
  <2>1. \A m \in 1 .. Len(g) : KidsOf(g[m]) \subseteq 1 .. m - 1
    BY <1>1, <1>2, <1>3
  <2>2. \A k \in 1 .. Len(s) : Locals(s[k]) \subseteq 1 .. Len(g)
    <3>1. 1 .. Len(h) \subseteq 1 .. Len(g)
      BY <1>1
    <3> QED
      BY <1>4, <3>1
  <2> QED
    BY <1>1, <2>1, <2>2 DEF Grounded
<1>6. Apart(g, s, z)
  <2>1. \A m \in 1 .. Len(g) : NoTwin(g[m]) /\ z \notin KidsOf(g[m])
    BY <1>1, <1>2, <1>3 DEF Owned, Apart
  <2>2. \A m, q \in 1 .. Len(g) : m # q => KidsOf(g[m]) \cap KidsOf(g[q]) = {}
    BY <1>1, <1>2 DEF Owned, Apart
  <2>3. \A k \in 1 .. Len(s) : NoTwinLocals(s[k]) /\ z \notin Locals(s[k])
    BY <1>1, <1>4 DEF Owned, Apart
  <2>4. \A k, l \in 1 .. Len(s) : k # l => Locals(s[k]) \cap Locals(s[l]) = {}
    BY DEF Owned, Apart
  <2>5. \A m \in 1 .. Len(g), k \in 1 .. Len(s) : KidsOf(g[m]) \cap Locals(s[k]) = {}
    BY <1>1, <1>2 DEF Owned, Apart
  <2> QED
    BY <2>1, <2>2, <2>3, <2>4, <2>5 DEF Apart
<1> QED
  BY <1>5, <1>6 DEF Owned, g

\* The ops each constructor makes its node point to.
LEMMA KidsOfNodes ==
  /\ \A a \in Atom : KidsOf(LeafNode(a)) = {} /\ NoTwin(LeafNode(a))
  /\ \A a \in Atom, r \in Ref :
       KidsOf(ExistsNode(a, r)) = {r} \ {0} /\ NoTwin(ExistsNode(a, r))
  /\ \A r \in Ref : KidsOf(NotNode(r)) = {r} \ {0} /\ NoTwin(NotNode(r))
  /\ \A op \in Opcode, l, r \in Ref :
       /\ KidsOf(LogicalNode(op, l, r)) = {l, r} \ {0}
       /\ l # r \/ l = 0 => NoTwin(LogicalNode(op, l, r))
  /\ \A got \in [Part -> Ref] :
       /\ KidsOf(CondNode(got)) = {got[p] : p \in Part} \ {0}
       /\ (\A p, q \in Part : got[p] = got[q] => p = q \/ got[p] = 0)
            => NoTwin(CondNode(got))
<1>1. \A a \in Atom : KidsOf(LeafNode(a)) = {} /\ NoTwin(LeafNode(a))
  BY DEF KidsOf, NoTwin, LeafNode
<1>2. \A a \in Atom, r \in Ref :
        KidsOf(ExistsNode(a, r)) = {r} \ {0} /\ NoTwin(ExistsNode(a, r))
  BY DEF KidsOf, NoTwin, ExistsNode
<1>3. \A r \in Ref : KidsOf(NotNode(r)) = {r} \ {0} /\ NoTwin(NotNode(r))
  BY DEF KidsOf, NoTwin, NotNode
<1>4. \A op \in Opcode, l, r \in Ref :
        /\ KidsOf(LogicalNode(op, l, r)) = {l, r} \ {0}
        /\ l # r \/ l = 0 => NoTwin(LogicalNode(op, l, r))
  BY DEF KidsOf, NoTwin, LogicalNode
<1>5. ASSUME NEW got \in [Part -> Ref]
      PROVE  /\ KidsOf(CondNode(got)) = {got[p] : p \in Part} \ {0}
             /\ (\A p, q \in Part : got[p] = got[q] => p = q \/ got[p] = 0)
                  => NoTwin(CondNode(got))
  <2>1. /\ CondNode(got).kids = <<got["if"], got["then"], got["else"]>>
        /\ DOMAIN CondNode(got).kids = 1 .. 3
    BY DEF CondNode
  <2>2. {got[p] : p \in Part} = {got["if"], got["then"], got["else"]}
    BY DEF Part
  <2>3. KidsOf(CondNode(got)) = {got["if"], got["then"], got["else"]} \ {0}
    BY <2>1 DEF KidsOf
  <2>4. (\A p, q \in Part : got[p] = got[q] => p = q \/ got[p] = 0)
          => NoTwin(CondNode(got))
    BY <2>1 DEF NoTwin, Part
  <2> QED
    BY <2>2, <2>3, <2>4
<1> QED
  BY <1>1, <1>2, <1>3, <1>4, <1>5

\* Only a return or a finished compile holds an op outside heap and stack.
LEMMA HeldOf ==
  /\ ctl.do \notin {"return", "compiled"} => Held = 0
  /\ ctl.do = "return" => Held = ctl.ref
  BY DEF Held

\* Every step keeps each op under one pointer.
LEMMA StepOwned ==
  ASSUME TypeOK, OneOwner, Step, TypeOK'
  PROVE  OneOwner'
<1> SUFFICES Owned(heap', stack', Held')
  BY DEF OneOwner, Owned
<1> USE DEF Parsing, Push, Pop, SetTop, Alloc, Fail, Returning, ReturningAt, Looping
<1>a. /\ Owned(heap, stack, Held)
      /\ heap \in Seq(Node) /\ stack \in Seq(Frame) /\ Held \in Ref
  BY ControlCases DEF TypeOK, OneOwner, Owned, Held
<1>p. /\ stack' \in Seq(Frame) /\ Len(stack) \in Nat /\ Len(heap) \in Nat
  BY DEF TypeOK
<1>q. \A f : stack' = Append(stack, f) => f \in Frame
  <2> TAKE f
  <2> HAVE stack' = Append(stack, f)
  <2>1. Len(stack') = Len(stack) + 1 /\ stack'[Len(stack) + 1] = f
    BY <1>a
  <2> QED
    BY <1>p, <2>1, ElementOfSeq
<1>s. \A f : stack # << >> /\ stack' = Append(Below, f) => f \in Frame
  <2> TAKE f
  <2> HAVE stack # << >> /\ stack' = Append(Below, f)
  <2>1. Below \in Seq(Frame) /\ Len(Below) \in Nat
    BY TopType
  <2>2. Len(stack') = Len(Below) + 1 /\ stack'[Len(Below) + 1] = f
    BY <2>1
  <2> QED
    BY <1>p, <2>1, <2>2, ElementOfSeq
<1>b. Below = Under(stack) /\ Top = stack[Len(stack)]
  BY DEF Below, Top, Under
<1>t. stack # << >> =>
        /\ Top \in Frame
        /\ Top.fn = "logical" =>
             Locals(Top) = {Top.left, Top.right} \ {0} /\ Top.left \in Ref /\ Top.right \in Ref
        /\ Top.fn = "cond" =>
             Locals(Top) = {Top.got[p] : p \in Part} \ {0} /\ Top.got \in [Part -> Ref]
  BY TopType, FrameCases DEF Locals, LogicalFrame, CondFrame
<1>u. stack # << >> =>
        /\ NoTwinLocals(Top) /\ Held \notin Locals(Top)
        /\ Locals(Top) \subseteq 1 .. Len(heap)
  <2> HAVE stack # << >>
  <2>1. Len(stack) \in 1 .. Len(stack)
    BY <1>a, FrontType
  <2> QED
    BY <1>a, <1>b, <2>1 DEF Owned, Grounded, Apart
\* What an op made of the register and the locals of the top frame owns is
\* owned by nobody else once that frame is popped.
<1>c. ASSUME stack # << >>, NEW K, K \subseteq Locals(Top) \cup ({Held} \ {0})
      PROVE  /\ Owned(heap, Below, 0)
             /\ K \subseteq 1 .. Len(heap)
             /\ \A m \in 1 .. Len(heap) : K \cap KidsOf(heap[m]) = {}
             /\ \A k \in 1 .. Len(Below) : K \cap Locals(Below[k]) = {}
  <2>1. Owned(heap, Below, 0)
    BY <1>a, <1>b, <1>c, PopOwned
  <2>2. Len(stack) \in 1 .. Len(stack) /\ Len(stack) \in Nat \ {0}
    BY <1>a, <1>c, FrontType
  <2>3. K \subseteq 1 .. Len(heap)
    <3>1. Locals(Top) \subseteq 1 .. Len(heap) /\ Held \in 0 .. Len(heap)
      BY <1>a, <1>b, <2>2 DEF Owned, Grounded
    <3> QED
      BY <1>c, <1>p, <3>1
  <2>4. ASSUME NEW m \in 1 .. Len(heap)
        PROVE  K \cap KidsOf(heap[m]) = {}
    <3>1. KidsOf(heap[m]) \cap Locals(Top) = {} /\ Held \notin KidsOf(heap[m])
      BY <1>a, <1>b, <2>2 DEF Owned, Apart
    <3> QED
      BY <1>c, <3>1
  <2>5. ASSUME NEW k \in 1 .. Len(Below)
        PROVE  K \cap Locals(Below[k]) = {}
    <3>1. k \in 1 .. Len(stack) /\ k # Len(stack) /\ Below[k] = stack[k]
      BY <1>c, <2>2, TopType
    <3>2. Locals(stack[k]) \cap Locals(Top) = {} /\ Held \notin Locals(stack[k])
      BY <1>a, <1>b, <2>2, <3>1 DEF Owned, Apart
    <3> QED
      BY <1>c, <3>1, <3>2
  <2> QED
    BY <2>1, <2>3, <2>4, <2>5
\* The same for an op that owns nothing, with no frame popped.
<1>d. ASSUME NEW n \in Node, KidsOf(n) = {}, NoTwin(n), Held = 0
      PROVE  Owned(Append(heap, n), stack, Fresh)
  BY <1>a, <1>d, AllocOwned DEF Fresh
\* And for an op built from the top frame and the register.
<1>e. ASSUME stack # << >>, NEW n \in Node, NoTwin(n),
             KidsOf(n) \subseteq Locals(Top) \cup ({Held} \ {0})
      PROVE  Owned(Append(heap, n), Below, Fresh)
  <2>1. /\ Owned(heap, Below, 0)
        /\ KidsOf(n) \subseteq 1 .. Len(heap)
        /\ \A m \in 1 .. Len(heap) : KidsOf(n) \cap KidsOf(heap[m]) = {}
        /\ \A k \in 1 .. Len(Below) : KidsOf(n) \cap Locals(Below[k]) = {}
    BY <1>c, <1>e
  <2>2. Below \in Seq(Frame)
    BY <1>e, TopType
  <2> QED
    BY <1>a, <1>e, <2>1, <2>2, AllocOwned DEF Fresh
<1>1. CASE ParseLeaf
  <2>1. ctl.clause.atom \in Atom
    BY <1>1, ControlCases, ClauseAssumption DEF ParseLeaf
  <2> QED
    BY <1>1, <1>d, <2>1, NodeType, KidsOfNodes DEF ParseLeaf, Held, Return
<1>2. CASE ParseBad
  <2>1. Held = 0 /\ Held' = 0
    BY <1>2 DEF ParseBad, Held, Return, Aborted
  <2> QED
    BY <1>2, <1>a, <2>1 DEF ParseBad
<1>3. CASE ParseNot
  <2> DEFINE f == [fn |-> "not"]
  <2>1. f \in Frame /\ stack' = Append(stack, f) /\ heap' = heap /\ Held' = 0
    BY <1>3, <1>q, <1>p DEF ParseNot, Held, Parse, Logical
  <2>2. Locals(f) = {} /\ NoTwinLocals(f)
    BY DEF Locals, NoTwinLocals, Part
  <2> HIDE DEF f
  <2> QED
    BY <1>a, <2>1, <2>2, PushOwned
<1>4. CASE ParseExistsEmpty
  <2>1. ctl.clause.atom \in Atom
    BY <1>4, ControlCases, ClauseAssumption DEF ParseExistsEmpty
  <2>2. /\ ExistsNode(ctl.clause.atom, 0) \in Node
        /\ KidsOf(ExistsNode(ctl.clause.atom, 0)) = {}
        /\ NoTwin(ExistsNode(ctl.clause.atom, 0))
    BY <2>1, NodeType, KidsOfNodes
  <2> QED
    BY <1>4, <1>d, <2>2 DEF ParseExistsEmpty, Held, Return
<1>5. CASE ParseExists
  <2> DEFINE f == [fn |-> "exists", atom |-> ctl.clause.atom]
  <2>1. f \in Frame /\ stack' = Append(stack, f) /\ heap' = heap /\ Held' = 0
    BY <1>5, <1>q, <1>p DEF ParseExists, Held, Parse, Logical
  <2>2. Locals(f) = {} /\ NoTwinLocals(f)
    BY DEF Locals, NoTwinLocals, Part
  <2> HIDE DEF f
  <2> QED
    BY <1>a, <2>1, <2>2, PushOwned
<1>6. CASE ParseLogical
  <2>1. Held = 0 /\ Held' = 0
    BY <1>6 DEF ParseLogical, Held, Logical
  <2> QED
    BY <1>6, <1>a, <2>1 DEF ParseLogical
<1>7. CASE ParseCond
  <2> DEFINE f == [fn |-> "cond", items |-> ctl.clause.parts, at |-> "if",
                   got |-> [p \in Part |-> 0], ok |-> {}]
  <2>1. f \in Frame /\ stack' = Append(stack, f) /\ heap' = heap /\ Held' = 0
    BY <1>7, <1>q, <1>p DEF ParseCond, Held, Parse, Logical
  <2>2. Locals(f) = {} /\ NoTwinLocals(f)
    BY DEF Locals, NoTwinLocals, Part
  <2> HIDE DEF f
  <2> QED
    BY <1>a, <2>1, <2>2, PushOwned
<1>8. CASE LogicalEmpty
  <2>1. Held = 0 /\ Held' = 0
    BY <1>8 DEF LogicalEmpty, Held, Return
  <2> QED
    BY <1>8, <1>a, <2>1 DEF LogicalEmpty
<1>9. CASE LogicalNotDocument
  <2>1. Held = 0 /\ Held' = 0
    BY <1>9 DEF LogicalNotDocument, Held, Return
  <2> QED
    BY <1>9, <1>a, <2>1 DEF LogicalNotDocument
<1>10. CASE LogicalLeft
  <2> DEFINE f == [fn |-> "logical", op |-> ctl.op, items |-> Tail(ctl.items),
                   at |-> "left", left |-> 0, right |-> 0]
  <2>1. f \in Frame /\ stack' = Append(stack, f) /\ heap' = heap /\ Held' = 0
    BY <1>10, <1>q, <1>p DEF LogicalLeft, Held, Parse, Logical
  <2>2. Locals(f) = {} /\ NoTwinLocals(f)
    BY DEF Locals, NoTwinLocals, Part
  <2> HIDE DEF f
  <2> QED
    BY <1>a, <2>1, <2>2, PushOwned
<1>11. CASE GotLeftLast
  <2>1. stack # << >> /\ stack' = Under(stack) /\ heap' = heap /\ Held' \in {0, Held}
    BY <1>11, <1>b DEF GotLeftLast, Held, Return
  <2> QED
    BY <1>a, <2>1, PopOwned
<1>12. CASE GotLeftNotDocument
  <2>1. stack # << >> /\ stack' = Under(stack) /\ heap' = heap /\ Held' \in {0, Held}
    BY <1>12, <1>b DEF GotLeftNotDocument, Held, Return
  <2> QED
    BY <1>a, <2>1, PopOwned
<1>14. CASE GotRightFailed
  <2>1. stack # << >> /\ stack' = Under(stack) /\ heap' = heap /\ Held' \in {0, Held}
    BY <1>14, <1>b DEF GotRightFailed, Held, Return
  <2> QED
    BY <1>a, <2>1, PopOwned
<1>13. CASE GotLeft
  <2> DEFINE f == [Top EXCEPT !.at = "right", !.left = ctl.ref, !.items = Tail(@)]
  <2>1. /\ stack # << >> /\ stack' = Append(Under(stack), f) /\ heap' = heap
        /\ f \in Frame /\ Held' = 0
    BY <1>13, <1>b, <1>s DEF GotLeft, Held, Parse, Logical
  <2>2. Locals(f) \subseteq Locals(Top) \cup ({Held} \ {0}) /\ NoTwinLocals(f)
    <3>1. Held \notin Locals(Top) /\ NoTwinLocals(Top)
      BY <2>1, <1>u
    <3>2. /\ f.fn = "logical" /\ f.left = ctl.ref /\ f.right = Top.right
          /\ Held = ctl.ref /\ ctl.ref \in Ref /\ Top \in LogicalFrame
      BY <1>13, <2>1, HeldOf, ControlCases, TopType, FrameCases DEF GotLeft, LogicalFrame
    <3>3. Locals(Top) = {Top.left, Top.right} \ {0} /\ Locals(f) = {ctl.ref, Top.right} \ {0}
      BY <1>13, <1>t, <2>1, <3>2 DEF GotLeft, Locals
    <3> QED
      BY <3>1, <3>2, <3>3 DEF NoTwinLocals
  <2> HIDE DEF f
  <2> QED
    BY <1>a, <1>b, <2>1, <2>2, TakeOwned
<1>15. CASE GotRight
  <2> DEFINE f == [Top EXCEPT !.at = "more", !.right = ctl.ref]
  <2>1. /\ stack # << >> /\ stack' = Append(Under(stack), f) /\ heap' = heap
        /\ f \in Frame /\ Held' = 0
    BY <1>15, <1>b, <1>s DEF GotRight, Held, Parse, Logical
  <2>2. Locals(f) \subseteq Locals(Top) \cup ({Held} \ {0}) /\ NoTwinLocals(f)
    <3>1. Held \notin Locals(Top) /\ NoTwinLocals(Top)
      BY <2>1, <1>u
    <3>2. /\ f.fn = "logical" /\ f.left = Top.left /\ f.right = ctl.ref
          /\ Held = ctl.ref /\ ctl.ref \in Ref /\ Top \in LogicalFrame
      BY <1>15, <2>1, HeldOf, ControlCases, TopType, FrameCases DEF GotRight, LogicalFrame
    <3>3. Locals(Top) = {Top.left, Top.right} \ {0} /\ Locals(f) = {Top.left, ctl.ref} \ {0}
      BY <1>15, <1>t, <2>1, <3>2 DEF GotRight, Locals
    <3> QED
      BY <3>1, <3>2, <3>3 DEF NoTwinLocals
  <2> HIDE DEF f
  <2> QED
    BY <1>a, <1>b, <2>1, <2>2, TakeOwned
<1>16. CASE GotNoMore
  <2> DEFINE n == LogicalNode(Top.op, Top.left, Top.right)
  <2>1. /\ stack # << >> /\ stack' = Below /\ heap' = Append(heap, n) /\ Held' = Fresh
        /\ Top.fn = "logical"
    BY <1>16 DEF GotNoMore, Held, Return
  <2>2. /\ Top.op \in Opcode /\ Top.left \in Ref /\ Top.right \in Ref
        /\ Top.left # Top.right \/ Top.left = 0
    BY <2>1, <1>t, <1>u, FrameCases DEF NoTwinLocals, LogicalFrame
  <2>3. n \in Node /\ NoTwin(n) /\ KidsOf(n) \subseteq Locals(Top)
    BY <2>1, <2>2, <1>t, NodeType, KidsOfNodes
  <2> HIDE DEF n
  <2> QED
    BY <1>e, <2>1, <2>3
<1>17. CASE GotMore
  <2> DEFINE wrap == LogicalNode(Top.op, Top.right, ctl.ref)
             root == LogicalNode(Top.op, Top.left, Fresh)
             rest == [Top EXCEPT !.right = 0]
             mid  == Append(Below, rest)
             h    == Append(heap, wrap)
  <2>1. /\ stack # << >> /\ stack' = Below /\ heap' = heap \o <<wrap, root>>
        /\ Held' = Fresh + 1 /\ Top.fn = "logical"
        /\ ctl.ref \in Ref /\ ctl.ref # 0 /\ Held = ctl.ref
    BY <1>17, HeldOf, ControlCases DEF GotMore, Held, Return
  <2>2. /\ Top \in LogicalFrame /\ Top.op \in Opcode
        /\ Top.left \in Ref /\ Top.right \in Ref
        /\ Top.left # Top.right \/ Top.left = 0
        /\ ctl.ref \notin {Top.left, Top.right}
    <3>1. Top \in LogicalFrame
      BY <2>1, <1>t, FrameCases
    <3>2. Locals(Top) = {Top.left, Top.right} \ {0}
      BY <2>1, <1>t
    <3> QED
      BY <2>1, <1>u, <3>1, <3>2 DEF NoTwinLocals, LogicalFrame
  <2>3. Fresh \in Ref /\ Fresh = Len(heap) + 1
    BY <1>p DEF Fresh
  <2>4. /\ wrap \in Node /\ root \in Node
        /\ NoTwin(wrap) /\ KidsOf(wrap) = {Top.right, ctl.ref} \ {0}
        /\ KidsOf(root) = {Top.left, Fresh} \ {0}
    BY <2>1, <2>2, <2>3, NodeType, KidsOfNodes
  <2>5. Top.left # Fresh /\ Top.right # Fresh
    BY <2>1, <2>3, <1>p, <1>t, <1>u
  <2>6. NoTwin(root)
    BY <2>2, <2>3, <2>5, KidsOfNodes
  <2>7. /\ rest \in Frame /\ Locals(rest) = {Top.left} \ {0} /\ NoTwinLocals(rest)
    <3>1. rest \in LogicalFrame /\ rest.fn = "logical" /\ rest.left = Top.left /\ rest.right = 0
      BY <2>2 DEF LogicalFrame
    <3> HIDE DEF rest
    <3> QED
      BY <3>1 DEF Frame, Locals, NoTwinLocals
  <2>8. /\ Below \in Seq(Frame) /\ mid \in Seq(Frame) /\ mid # << >>
        /\ Len(mid) = Len(Below) + 1 /\ mid[Len(mid)] = rest
        /\ \A k \in 1 .. Len(Below) : mid[k] = Below[k]
    <3> HIDE DEF rest
    <3> QED
      BY <2>1, <2>7, TopType, AppendProperties
  <2>9. Owned(heap, mid, 0)
    <3>1. Locals(rest) \subseteq Locals(Top) \cup ({Held} \ {0})
      BY <2>1, <2>7, <1>t
    <3> HIDE DEF rest
    <3> QED
      BY <2>1, <2>7, <3>1, <1>a, <1>b, TakeOwned
  <2>10. Owned(h, mid, Fresh)
    <3> DEFINE K == {Top.right, ctl.ref} \ {0}
    <3>1. K \subseteq Locals(Top) \cup ({Held} \ {0})
      BY <2>1, <1>t
    <3>2. /\ K \subseteq 1 .. Len(heap)
          /\ \A m \in 1 .. Len(heap) : K \cap KidsOf(heap[m]) = {}
          /\ \A k \in 1 .. Len(Below) : K \cap Locals(Below[k]) = {}
      <4> HIDE DEF K
      <4> QED
        BY <1>c, <2>1, <3>1
    <3>3. K \cap Locals(rest) = {}
      BY <2>2, <2>7
    <3>4. \A k \in 1 .. Len(mid) : K \cap Locals(mid[k]) = {}
      <4> HIDE DEF K, mid, rest
      <4>1. \A k \in 1 .. Len(mid) : k \in 1 .. Len(Below) \/ k = Len(mid)
        BY <2>8
      <4> QED
        BY <2>8, <3>2, <3>3, <4>1
    <3>5. KidsOf(wrap) = K
      BY <2>4
    <3> HIDE DEF K, mid, rest, wrap
    <3> QED
      BY <1>a, <2>3, <2>4, <2>8, <2>9, <3>2, <3>4, <3>5, AllocOwned
  <2>11. /\ h \in Seq(Node) /\ Len(h) = Len(heap) + 1
         /\ heap \o <<wrap, root>> = Append(h, root)
    <3> HIDE DEF wrap, root
    <3> QED
      BY <1>a, <1>p, <2>4
  <2>12. Under(mid) = Below
    <3> HIDE DEF rest
    <3>1. Under(mid) \in Seq(Frame) /\ Len(Under(mid)) = Len(Below)
          /\ \A k \in 1 .. Len(Below) : Under(mid)[k] = Below[k]
      <4> HIDE DEF mid
      <4>1. Len(Below) \in Nat /\ Len(mid) - 1 = Len(Below)
        BY <2>8
      <4> QED
        BY <2>8, <4>1, FrontType
    <3> QED
      BY <2>8, <3>1, SeqEqual
  <2>13. Owned(h, Below, 0)
    <3> HIDE DEF mid, h
    <3> QED
      BY <2>3, <2>8, <2>10, <2>11, <2>12, PopOwned
  <2>14. /\ KidsOf(root) \subseteq 1 .. Len(h)
         /\ \A m \in 1 .. Len(h) : KidsOf(root) \cap KidsOf(h[m]) = {}
         /\ \A k \in 1 .. Len(Below) : KidsOf(root) \cap Locals(Below[k]) = {}
    <3>1. Len(mid) \in 1 .. Len(mid)
      BY <2>8
    <3>2. \A m \in 1 .. Len(h) : Locals(rest) \cap KidsOf(h[m]) = {} /\ Fresh \notin KidsOf(h[m])
      <4> HIDE DEF mid, rest, h
      <4> QED
        BY <2>8, <2>10, <3>1 DEF Owned, Apart
    <3>3. \A k \in 1 .. Len(Below) :
             Locals(rest) \cap Locals(Below[k]) = {} /\ Fresh \notin Locals(Below[k])
      <4> HIDE DEF mid, rest, h
      <4>1. \A k \in 1 .. Len(Below) : k \in 1 .. Len(mid) /\ k # Len(mid)
        BY <2>8
      <4> QED
        BY <2>8, <2>10, <3>1, <4>1 DEF Owned, Apart
    <3>4. Locals(rest) \subseteq 1 .. Len(heap)
      <4> HIDE DEF mid, rest
      <4> QED
        BY <2>8, <2>9, <3>1 DEF Owned, Grounded
    <3> HIDE DEF mid, rest, h, root
    <3>5. KidsOf(root) \subseteq Locals(rest) \cup {Fresh}
      BY <2>4, <2>7
    <3>6. 1 .. Len(heap) \subseteq 1 .. Len(h) /\ Fresh \in 1 .. Len(h)
      BY <1>p, <2>3, <2>11
    <3> QED
      BY <3>2, <3>3, <3>4, <3>5, <3>6
  <2>15. Owned(Append(h, root), Below, Len(h) + 1)
    <3> HIDE DEF h, root, mid, rest
    <3> QED
      BY <2>4, <2>6, <2>8, <2>11, <2>13, <2>14, AllocOwned
  <2> QED
    BY <2>1, <2>3, <2>11, <2>15
<1>18. CASE GotNot
  <2>1. CASE ctl.ref = 0
    <3>1. stack # << >> /\ stack' = Under(stack) /\ heap' = heap /\ Held' = 0
      BY <1>18, <1>b, <2>1 DEF GotNot, Held, Return
    <3> QED
      BY <1>a, <3>1, PopOwned
  <2>2. CASE ctl.ref # 0
    <3>1. /\ stack # << >> /\ stack' = Below /\ heap' = Append(heap, NotNode(ctl.ref))
          /\ Held' = Fresh /\ Held = ctl.ref /\ ctl.ref \in Ref
      BY <1>18, <2>2, HeldOf, ControlCases DEF GotNot, Held, Return
    <3>2. /\ NotNode(ctl.ref) \in Node /\ NoTwin(NotNode(ctl.ref))
          /\ KidsOf(NotNode(ctl.ref)) \subseteq {Held} \ {0}
      BY <3>1, NodeType, KidsOfNodes
    <3> QED
      BY <1>e, <3>1, <3>2
  <2> QED
    BY <2>1, <2>2
<1>19. CASE GotExists
  <2>1. /\ stack # << >> /\ stack' = Below
        /\ heap' = Append(heap, ExistsNode(Top.atom, ctl.ref))
        /\ Held' = Fresh /\ Held = ctl.ref /\ ctl.ref \in Ref /\ Top.fn = "exists"
    BY <1>19, HeldOf, ControlCases DEF GotExists, Held, Return
  <2>2. Top.atom \in Atom
    BY <2>1, TopType, FrameCases DEF ExistsFrame
  <2>3. /\ ExistsNode(Top.atom, ctl.ref) \in Node /\ NoTwin(ExistsNode(Top.atom, ctl.ref))
        /\ KidsOf(ExistsNode(Top.atom, ctl.ref)) \subseteq {Held} \ {0}
    BY <2>1, <2>2, NodeType, KidsOfNodes
  <2> QED
    BY <1>e, <2>1, <2>3
<1>20. CASE CondSkip
  <2> DEFINE f == [Top EXCEPT !.items = Tail(@)]
  <2>1. /\ stack # << >> /\ stack' = Append(Under(stack), f) /\ heap' = heap
        /\ f \in Frame /\ Held' = 0
    BY <1>20, <1>b, <1>s DEF CondSkip, Held, Parse, Logical
  <2>2. Locals(f) \subseteq Locals(Top) \cup ({Held} \ {0}) /\ NoTwinLocals(f)
    <3>1. NoTwinLocals(Top)
      BY <2>1, <1>u
    <3>2. f.fn = "cond" /\ Top.fn = "cond" /\ f.got = Top.got
      BY <1>20, <2>1, TopType, FrameCases DEF CondSkip, CondFrame
    <3> HIDE DEF f
    <3> QED
      BY <3>1, <3>2 DEF Locals, NoTwinLocals
  <2> HIDE DEF f
  <2> QED
    BY <1>a, <1>b, <2>1, <2>2, TakeOwned
<1>21. CASE CondPart
  <2> DEFINE f == [Top EXCEPT !.items = Tail(@), !.at = Head(Top.items).part]
  <2>1. /\ stack # << >> /\ stack' = Append(Under(stack), f) /\ heap' = heap
        /\ f \in Frame /\ Held' = 0
    BY <1>21, <1>b, <1>s DEF CondPart, Held, Parse, Logical
  <2>2. Locals(f) \subseteq Locals(Top) \cup ({Held} \ {0}) /\ NoTwinLocals(f)
    <3>1. NoTwinLocals(Top)
      BY <2>1, <1>u
    <3>2. f.fn = "cond" /\ Top.fn = "cond" /\ f.got = Top.got
      BY <1>21, <2>1, TopType, FrameCases DEF CondPart, CondFrame
    <3> HIDE DEF f
    <3> QED
      BY <3>1, <3>2 DEF Locals, NoTwinLocals
  <2> HIDE DEF f
  <2> QED
    BY <1>a, <1>b, <2>1, <2>2, TakeOwned
<1>22. CASE GotCondPart
  <2> DEFINE f == [Top EXCEPT !.got[Top.at] = ctl.ref,
                              !.ok = IF ctl.ref = 0 THEN @ ELSE @ \cup {Top.at}]
  <2>1. /\ stack # << >> /\ stack' = Append(Under(stack), f) /\ heap' = heap
        /\ f \in Frame /\ Held' = 0
    BY <1>22, <1>b, <1>s DEF GotCondPart, Held, Parse, Logical
  <2>2. Locals(f) \subseteq Locals(Top) \cup ({Held} \ {0}) /\ NoTwinLocals(f)
    <3>1. Held \notin Locals(Top) /\ NoTwinLocals(Top)
      BY <2>1, <1>u
    <3>2. /\ Top.fn = "cond" /\ Top \in CondFrame /\ Top.got \in [Part -> Ref] /\ Top.at \in Part
          /\ Held = ctl.ref /\ ctl.ref \in Ref
      BY <1>22, <2>1, HeldOf, ControlCases, TopType, FrameCases DEF GotCondPart, CondFrame
    <3>3. f.fn = "cond" /\ f.got = [Top.got EXCEPT ![Top.at] = ctl.ref]
      BY <3>2 DEF CondFrame
    <3> HIDE DEF f
    <3>4. \A p \in Part : f.got[p] = IF p = Top.at THEN ctl.ref ELSE Top.got[p]
      BY <3>2, <3>3
    <3>5. Locals(f) \subseteq Locals(Top) \cup ({Held} \ {0})
      BY <3>2, <3>3, <3>4 DEF Locals
    <3>6. NoTwinLocals(f)
      <4>1. \A p \in Part : Top.got[p] = ctl.ref => ctl.ref = 0
        BY <3>1, <3>2 DEF Locals
      <4> QED
        BY <3>1, <3>2, <3>3, <3>4, <4>1 DEF NoTwinLocals
    <3> QED
      BY <3>5, <3>6
  <2> HIDE DEF f
  <2> QED
    BY <1>a, <1>b, <2>1, <2>2, TakeOwned
<1>23. CASE CondComplete
  <2> DEFINE n == CondNode(Top.got)
  <2>1. /\ stack # << >> /\ stack' = Below /\ heap' = Append(heap, n) /\ Held' = Fresh
        /\ Top.fn = "cond"
    BY <1>23 DEF CondComplete, Held, Return
  <2>2. /\ Top.got \in [Part -> Ref]
        /\ \A p, q \in Part : Top.got[p] = Top.got[q] => p = q \/ Top.got[p] = 0
    BY <2>1, <1>t, <1>u DEF NoTwinLocals
  <2>3. n \in Node /\ NoTwin(n) /\ KidsOf(n) \subseteq Locals(Top)
    BY <2>1, <2>2, <1>t, NodeType, KidsOfNodes
  <2> HIDE DEF n
  <2> QED
    BY <1>e, <2>1, <2>3
<1>24. CASE CondIncomplete
  <2>1. Held = 0 /\ Held' = 0
    BY <1>24 DEF CondIncomplete, Held, Aborted
  <2> QED
    BY <1>24, <1>a, <2>1 DEF CondIncomplete
<1>25. CASE Finish
  <2>1. Held' = Held
    BY <1>25 DEF Finish, Held
  <2> QED
    BY <1>25, <1>a, <2>1 DEF Finish
<1> QED
  BY <1>1, <1>2, <1>3, <1>4, <1>5, <1>6, <1>7, <1>8, <1>9, <1>10, <1>11, <1>12,
     <1>13, <1>14, <1>15, <1>16, <1>17, <1>18, <1>19, <1>20, <1>21, <1>22, <1>23,
     <1>24, <1>25 DEF Step
-----------------------------------------------------------------------------
\* OneOwner needs the types: which locals a frame has, what a node points to.
Inv == TypeOK /\ OneOwner

\* The inductive invariant holds when mongoc_matcher_new is entered,
LEMMA InitInv == Init => Inv
<1> SUFFICES ASSUME Init PROVE Inv
  OBVIOUS
<1>1. TypeOK
  BY InitType
<1>2. Len(heap) = 0 /\ Len(stack) = 0 /\ Held = 0
  BY DEF Init, Held, Logical
<1>3. OneOwner
  BY <1>2 DEF OneOwner, Grounded, Apart
<1> QED
  BY <1>1, <1>3 DEF Inv

\* and every call, return and failure of the descent keeps it.
LEMMA NextInv == Inv /\ [Next]_vars => Inv'
<1> SUFFICES ASSUME Inv, [Next]_vars PROVE Inv'
  OBVIOUS
<1>1. CASE Step
  BY <1>1, StepType, StepOwned DEF Inv
<1>2. CASE UNCHANGED vars
  BY <1>2 DEF vars, Inv, TypeOK, OneOwner, Held
<1> QED
  BY <1>1, <1>2 DEF Next, Stay

\* The compiler keeps its types: no call is made with, and no local holds,
\* anything but what its declaration says.
THEOREM TypeCorrect == Spec => []TypeOK
<1>1. Inv => TypeOK
  BY DEF Inv
<1> QED
  BY <1>1, InitInv, NextInv, PTL DEF Spec

\* For every query, however invalid, and at every call of the descent, the ops
\* allocated so far form a forest and no op hangs from two pointers: whatever
\* mongoc_matcher_new returns can be walked and freed once.
THEOREM OwnershipHolds == Spec => []OneOwner
<1>1. Inv => OneOwner
  BY DEF Inv
<1> QED
  BY <1>1, InitInv, NextInv, PTL DEF Spec

-----------------------------------------------------------------------------
(***************************************************************************)
(* The walk that destroys a compiled query.                                *)
(***************************************************************************)
\* Min chooses the least number of a set.
LEMMA MinIsLeast ==
  ASSUME NEW T, T \subseteq Nat, T # {}
  PROVE  Min(T) \in T /\ \A y \in T : Min(T) <= y
<1>1. \E x \in T : \A y \in T : x =< y
  BY Least
<1> QED
  BY <1>1 DEF Min
-----------------------------------------------------------------------------
(***************************************************************************)
(* What a walk finds when mongoc_matcher_new is done.                      *)
(***************************************************************************)
\* The tree under root, in the heap h.
Tree(h, root) ==
  /\ h \in Seq(Node)
  /\ root \in 1 .. Len(h)
  /\ \A n \in 1 .. Len(h) : KidsOf(h[n]) \subseteq 1 .. n - 1 /\ NoTwin(h[n])
  /\ \A n \in 1 .. Len(h) : root \notin KidsOf(h[n])
  /\ \A m, n \in 1 .. Len(h) : m # n => KidsOf(h[m]) \cap KidsOf(h[n]) = {}

\* A matcher has ops, and the parser is done.
Compiled == ctl.do = "compiled" => ctl.root # 0 /\ stack = << >>

CompileInv == Inv /\ Compiled

\* Compiling keeps the invariant.
LEMMA CompileStep == CompileInv /\ [Next]_vars => CompileInv'
<1> SUFFICES ASSUME CompileInv, [Next]_vars PROVE CompileInv'
  OBVIOUS
<1>1. Inv'
  BY NextInv DEF CompileInv
<1> SUFFICES Compiled'
  BY <1>1 DEF CompileInv
<1>2. CASE Step
  <2>1. CASE Finish
    BY <2>1 DEF Finish, Compiled
  <2>2. CASE ~Finish
    <3>1. ctl'.do # "compiled" \/ ctl' = ctl
      BY <1>2, <2>2 DEF Step, ParseLeaf, ParseBad, ParseNot, ParseExistsEmpty, ParseExists,
         ParseLogical, ParseCond, LogicalEmpty, LogicalNotDocument, LogicalLeft, GotLeftLast,
         GotLeftNotDocument, GotLeft, GotRightFailed, GotRight, GotNoMore, GotMore, GotNot,
         GotExists, CondSkip, CondPart, GotCondPart, CondComplete, CondIncomplete,
         Alloc, Fail, Parse, Logical, Return, Aborted
    <3>2. ctl.do # "compiled"
      BY <1>2 DEF Step, ParseLeaf, ParseBad, ParseNot, ParseExistsEmpty, ParseExists,
         ParseLogical, ParseCond, LogicalEmpty, LogicalNotDocument, LogicalLeft, GotLeftLast,
         GotLeftNotDocument, GotLeft, GotRightFailed, GotRight, GotNoMore, GotMore, GotNot,
         GotExists, CondSkip, CondPart, GotCondPart, CondComplete, CondIncomplete, Finish,
         Parsing, Returning, ReturningAt, Looping
    <3> QED
      BY <3>1, <3>2 DEF Compiled
  <2> QED
    BY <2>1, <2>2
<1>3. CASE UNCHANGED vars
  BY <1>3 DEF vars, Compiled, CompileInv
<1> QED
  BY <1>2, <1>3 DEF Next, Stay

\* A compiled query does not change any more.
LEMMA CompiledStays ==
  ASSUME ctl.do = "compiled", [Next]_vars
  PROVE  UNCHANGED vars
<1>1. ~Step
  BY DEF Step, ParseLeaf, ParseBad, ParseNot, ParseExistsEmpty, ParseExists,
     ParseLogical, ParseCond, LogicalEmpty, LogicalNotDocument, LogicalLeft, GotLeftLast,
     GotLeftNotDocument, GotLeft, GotRightFailed, GotRight, GotNoMore, GotMore, GotNot,
     GotExists, CondSkip, CondPart, GotCondPart, CondComplete, CondIncomplete, Finish,
     Parsing, Returning, ReturningAt, Looping
<1> QED
  BY <1>1 DEF Next, Stay

\* What mongoc_matcher_new returns is a tree of its own.
LEMMA CompiledTree ==
  ASSUME CompileInv, ctl.do = "compiled"
  PROVE  Tree(heap, ctl.root)
<1>1. Held = ctl.root
  BY DEF Held
<1>2. heap \in Seq(Node) /\ OneOwner /\ ctl.root # 0
  BY DEF CompileInv, Compiled, Inv, TypeOK
<1>3. ctl.root \in 1 .. Len(heap)
  BY <1>1, <1>2 DEF OneOwner, Grounded
<1> QED
  BY <1>1, <1>2, <1>3 DEF OneOwner, Grounded, Apart, Tree
-----------------------------------------------------------------------------
(***************************************************************************)
(* The walk of the destroy.  walk leads from the root to where it is: each *)
(* caller is at the place of the next one.  What is freed is below it, to  *)
(* the left of the path, and what is pointed to from elsewhere is not.     *)
(***************************************************************************)
Caller(h) == [node : 1 .. Len(h), at : Nat \ {0}]

\* The place a caller is at holds n.
LeadsTo(h, f, n) == f.at \in DOMAIN h[f.node].kids /\ h[f.node].kids[f.at] = n

\* The callers w lead from root down to n.
Path(h, root, w, n) ==
  /\ w \in Seq(Caller(h))
  /\ n \in 1 .. Len(h)
  /\ IF w = << >> THEN n = root ELSE w[1].node = root /\ LeadsTo(h, w[Len(w)], n)
  /\ \A k \in 1 .. Len(w) - 1 : LeadsTo(h, w[k], w[k + 1].node)
  /\ \A k \in 1 .. Len(w) : w[k].node > n
  /\ \A k, l \in 1 .. Len(w) : k < l => w[k].node > w[l].node

\* The places before i of node n have been freed, in F.
DoneBefore(h, F, n, i) ==
  \A j \in DOMAIN h[n].kids : j < i => h[n].kids[j] \in F \cup {0}

\* The order of freeing so far.
InOrder(h, fr) ==
  /\ fr \in Seq(1 .. Len(h))
  /\ IsInjective(fr)
  /\ \A i \in DOMAIN fr : \A k \in DOMAIN h[fr[i]].kids :
       h[fr[i]].kids[k] # 0 => \E j \in 1 .. i - 1 : fr[j] = h[fr[i]].kids[k]

\* Node n is to be looked at from its place i on; w are its callers.
Descending(h, root, w, n, i, fr) ==
  LET F == ToSet(fr)
  IN  /\ Path(h, root, w, n)
      /\ i \in Nat \ {0}
      /\ InOrder(h, fr)
      /\ n \notin F /\ root \notin F
      /\ DoneBefore(h, F, n, i)
      /\ \A k \in 1 .. Len(w) :
           w[k].node \notin F /\ DoneBefore(h, F, w[k].node, w[k].at)
      /\ \A m \in 1 .. Len(h) : \A j \in DOMAIN h[m].kids :
           h[m].kids[j] \in F =>
             \/ m \in F
             \/ m = n /\ j < i
             \/ \E k \in 1 .. Len(w) : w[k].node = m /\ j < w[k].at

\* Node n has just been freed.
Ascending(h, root, w, fr) ==
  LET F == ToSet(fr)
      n == fr[Len(fr)]
  IN  /\ fr # << >>
      /\ Path(h, root, w, n)
      /\ InOrder(h, fr)
      /\ w # << >> => root \notin F
      /\ \A k \in 1 .. Len(w) :
           w[k].node \notin F /\ DoneBefore(h, F, w[k].node, w[k].at)
      /\ \A m \in 1 .. Len(h) : \A j \in DOMAIN h[m].kids :
           h[m].kids[j] \in F =>
             \/ m \in F
             \/ \E k \in 1 .. Len(w) :
                  w[k].node = m /\ (j < w[k].at \/ (k = Len(w) /\ j = w[k].at))

Reading == {"idle", "match", "value", "result", "aborted"}

Walking ==
  /\ act.do \in Reading \cup {"free", "freed", "destroyed"}
  /\ act.do # "idle" => ctl.do = "compiled"
  /\ act.do \in Reading => freed = << >>
  /\ act.do \in {"idle", "result", "destroyed"} => walk = << >>
  /\ act.do = "free" => Descending(heap, ctl.root, walk, act.node, 1, freed)
  /\ act.do = "freed" => Ascending(heap, ctl.root, walk, freed)
  /\ act.do = "destroyed" => InOrder(heap, freed) /\ ctl.root \in ToSet(freed)

UseInv == CompileInv /\ Walking
-----------------------------------------------------------------------------
\* A child is older than its parent, and is in no other place.
LEMMA TreeKids ==
  ASSUME NEW h, NEW root, Tree(h, root), NEW n \in 1 .. Len(h),
         NEW j \in DOMAIN h[n].kids, h[n].kids[j] # 0
  PROVE  /\ j \in Nat \ {0}
         /\ h[n].kids[j] \in 1 .. n - 1
         /\ h[n].kids[j] \in 1 .. Len(h)
         /\ h[n].kids[j] # root
         /\ \A m \in 1 .. Len(h) : \A i \in DOMAIN h[m].kids :
              h[m].kids[i] = h[n].kids[j] => m = n /\ i = j
<1>1. h \in Seq(Node) /\ h[n] \in Node /\ Len(h) \in Nat
  BY DEF Tree
<1>2. h[n].kids \in Seq(Nat)
  BY <1>1 DEF Node
<1>3. h[n].kids[j] \in KidsOf(h[n])
  BY DEF KidsOf
<1>4. h[n].kids[j] \in 1 .. n - 1 /\ h[n].kids[j] # root
  BY <1>3 DEF Tree
<1>5. ASSUME NEW m \in 1 .. Len(h), NEW i \in DOMAIN h[m].kids,
             h[m].kids[i] = h[n].kids[j]
      PROVE  m = n /\ i = j
  <2>1. h[n].kids[j] \in KidsOf(h[m])
    BY <1>5 DEF KidsOf
  <2>2. m = n
    BY <1>3, <2>1 DEF Tree
  <2> QED
    BY <1>5, <2>2 DEF Tree, NoTwin
<1> QED
  BY <1>1, <1>2, <1>4, <1>5

\* Going into the next child that is there.
LEMMA GoDown ==
  ASSUME NEW h, NEW root, Tree(h, root), NEW w, NEW n, NEW i, NEW fr,
         Descending(h, root, w, n, i, fr),
         NEW k \in DOMAIN h[n].kids, k >= i, h[n].kids[k] # 0,
         \A j \in DOMAIN h[n].kids : i <= j /\ j < k => h[n].kids[j] = 0
  PROVE  Descending(h, root, Append(w, [node |-> n, at |-> k]), h[n].kids[k], 1, fr)
<1> DEFINE F == ToSet(fr)
           x == h[n].kids[k]
           c == [node |-> n, at |-> k]
           v == Append(w, c)
<1>1. /\ Path(h, root, w, n) /\ i \in Nat \ {0} /\ InOrder(h, fr)
      /\ n \notin F /\ root \notin F /\ DoneBefore(h, F, n, i)
      /\ \A l \in 1 .. Len(w) : w[l].node \notin F /\ DoneBefore(h, F, w[l].node, w[l].at)
      /\ \A m \in 1 .. Len(h) : \A j \in DOMAIN h[m].kids :
           h[m].kids[j] \in F =>
             m \in F \/ (m = n /\ j < i) \/ \E l \in 1 .. Len(w) : w[l].node = m /\ j < w[l].at
  BY DEF Descending
<1>2. /\ n \in 1 .. Len(h) /\ w \in Seq(Caller(h)) /\ Len(w) \in Nat
      /\ \A l \in 1 .. Len(w) : w[l] \in Caller(h) /\ w[l].node > n
  BY <1>1 DEF Path
<1>3. k \in Nat \ {0} /\ x \in 1 .. n - 1 /\ x \in 1 .. Len(h)
  BY <1>2, TreeKids
<1>4. c \in Caller(h)
  BY <1>2, <1>3 DEF Caller
<1>5. /\ v \in Seq(Caller(h)) /\ Len(v) = Len(w) + 1 /\ v[Len(v)] = c
      /\ \A l \in 1 .. Len(w) : v[l] = w[l]
      /\ \A l \in 1 .. Len(v) : l \in 1 .. Len(w) \/ l = Len(v)
  BY <1>2, <1>4
<1>6. c.node = n /\ c.at = k /\ LeadsTo(h, c, x)
  BY DEF LeadsTo
<1> HIDE DEF F, x, c, v
<1>7. Path(h, root, v, x)
  <2>1. v # << >> /\ v[1].node = root
    <3>1. CASE w = << >>
      BY <1>1, <1>5, <1>6, <3>1 DEF Path
    <3>2. CASE w # << >>
      BY <1>1, <1>2, <1>5, <3>2 DEF Path
    <3> QED
      BY <3>1, <3>2
  <2>2. \A l \in 1 .. Len(v) - 1 : LeadsTo(h, v[l], v[l + 1].node)
    <3> SUFFICES ASSUME NEW l \in 1 .. Len(v) - 1 PROVE LeadsTo(h, v[l], v[l + 1].node)
      OBVIOUS
    <3>1. CASE l = Len(w)
      BY <1>1, <1>2, <1>5, <1>6, <3>1 DEF Path
    <3>2. CASE l # Len(w)
      <4>1. l \in 1 .. Len(w) - 1 /\ l + 1 \in 1 .. Len(w)
        BY <1>2, <1>5, <3>2
      <4>2. LeadsTo(h, w[l], w[l + 1].node)
        BY <1>1, <4>1 DEF Path
      <4>3. v[l] = w[l] /\ v[l + 1] = w[l + 1]
        BY <1>5, <4>1
      <4> QED
        BY <4>2, <4>3
    <3> QED
      BY <3>1, <3>2
  <2>3. \A l \in 1 .. Len(v) : v[l].node > x
    <3>1. n \in Nat /\ x \in Nat /\ n > x
      BY <1>2, <1>3
    <3>2. \A l \in 1 .. Len(w) : w[l].node \in Nat
      BY <1>2 DEF Caller
    <3>3. \A l \in 1 .. Len(w) : v[l].node > x
      BY <1>2, <1>5, <3>1, <3>2
    <3> QED
      BY <1>5, <1>6, <3>1, <3>3
  <2>4. \A l, m \in 1 .. Len(v) : l < m => v[l].node > v[m].node
    <3> SUFFICES ASSUME NEW l \in 1 .. Len(v), NEW m \in 1 .. Len(v), l < m
                 PROVE  v[l].node > v[m].node
      OBVIOUS
    <3>1. l \in 1 .. Len(w)
      BY <1>2, <1>5
    <3>2. CASE m \in 1 .. Len(w)
      BY <1>1, <1>5, <3>1, <3>2 DEF Path
    <3>3. CASE m = Len(v)
      BY <1>2, <1>5, <1>6, <3>1, <3>3
    <3> QED
      BY <1>5, <3>2, <3>3
  <2> QED
    BY <1>3, <1>5, <1>6, <2>1, <2>2, <2>3, <2>4 DEF Path
<1>8. x \notin F
  <2> SUFFICES ASSUME x \in F PROVE FALSE
    OBVIOUS
  <2>1. h[n].kids[k] \in F
    BY DEF x
  <2>2. PICK l \in 1 .. Len(w) : w[l].node = n
    BY <1>1, <1>2, <1>3, <2>1
  <2> QED
    BY <1>2, <2>2
<1>9. \A l \in 1 .. Len(v) : v[l].node \notin F /\ DoneBefore(h, F, v[l].node, v[l].at)
  <2>1. DoneBefore(h, F, n, k)
    <3> SUFFICES ASSUME NEW j \in DOMAIN h[n].kids, j < k PROVE h[n].kids[j] \in F \cup {0}
      BY DEF DoneBefore
    <3>1. j \in Nat
      <4>1. h[n].kids \in Seq(Nat)
        BY <1>2 DEF Tree, Node
      <4> QED
        BY <4>1
    <3> QED
      BY <1>1, <3>1 DEF DoneBefore
  <2> QED
    BY <1>1, <1>5, <1>6, <2>1
<1>10. \A m \in 1 .. Len(h) : \A j \in DOMAIN h[m].kids :
         h[m].kids[j] \in F =>
           m \in F \/ (m = x /\ j < 1) \/ \E l \in 1 .. Len(v) : v[l].node = m /\ j < v[l].at
  <2> SUFFICES ASSUME NEW m \in 1 .. Len(h), NEW j \in DOMAIN h[m].kids,
                      h[m].kids[j] \in F, m \notin F
               PROVE  \E l \in 1 .. Len(v) : v[l].node = m /\ j < v[l].at
    OBVIOUS
  <2>1. CASE m = n /\ j < i
    <3>1. Len(v) \in 1 .. Len(v) /\ v[Len(v)].node = m /\ v[Len(v)].at = k
      BY <1>2, <1>5, <1>6, <2>1
    <3>2. j \in Nat
      <4>1. h[n].kids \in Seq(Nat)
        BY <1>2 DEF Tree, Node
      <4> QED
        BY <2>1, <4>1
    <3> QED
      BY <1>1, <1>3, <2>1, <3>1, <3>2
  <2>2. CASE \E l \in 1 .. Len(w) : w[l].node = m /\ j < w[l].at
    <3>1. PICK l \in 1 .. Len(w) : w[l].node = m /\ j < w[l].at
      BY <2>2
    <3>2. l \in 1 .. Len(v) /\ v[l] = w[l]
      BY <1>2, <1>5
    <3> QED
      BY <3>1, <3>2
  <2> QED
    BY <1>1, <2>1, <2>2
<1>11. DoneBefore(h, F, x, 1)
  <2>1. h[x].kids \in Seq(Nat)
    BY <1>3 DEF Tree, Node
  <2> QED
    BY <2>1 DEF DoneBefore
<1> QED
  BY <1>1, <1>7, <1>8, <1>9, <1>10, <1>11 DEF Descending, F, v, c, x

\* Freeing a node that has no child left.
LEMMA FreeHere ==
  ASSUME NEW h, NEW root, Tree(h, root), NEW w, NEW n, NEW i, NEW fr,
         Descending(h, root, w, n, i, fr),
         \A j \in DOMAIN h[n].kids : i <= j => h[n].kids[j] = 0
  PROVE  Ascending(h, root, w, Append(fr, n))
<1> DEFINE F == ToSet(fr)
           g == Append(fr, n)
<1>1. /\ Path(h, root, w, n) /\ i \in Nat \ {0} /\ InOrder(h, fr)
      /\ n \notin F /\ root \notin F /\ DoneBefore(h, F, n, i)
      /\ \A l \in 1 .. Len(w) : w[l].node \notin F /\ DoneBefore(h, F, w[l].node, w[l].at)
      /\ \A m \in 1 .. Len(h) : \A j \in DOMAIN h[m].kids :
           h[m].kids[j] \in F =>
             m \in F \/ (m = n /\ j < i) \/ \E l \in 1 .. Len(w) : w[l].node = m /\ j < w[l].at
  BY DEF Descending
<1>2. /\ n \in 1 .. Len(h) /\ w \in Seq(Caller(h)) /\ Len(w) \in Nat
      /\ \A l \in 1 .. Len(w) : w[l] \in Caller(h) /\ w[l].node > n
  BY <1>1 DEF Path
<1>3. fr \in Seq(1 .. Len(h)) /\ Len(fr) \in Nat
  BY <1>1 DEF InOrder
<1>4. /\ g \in Seq(1 .. Len(h)) /\ Len(g) = Len(fr) + 1 /\ g[Len(g)] = n
      /\ DOMAIN g = 1 .. Len(g) /\ DOMAIN fr = 1 .. Len(fr)
      /\ \A l \in 1 .. Len(fr) : g[l] = fr[l]
      /\ \A l \in 1 .. Len(g) : l \in 1 .. Len(fr) \/ l = Len(g)
  BY <1>2, <1>3
<1>5. ToSet(g) = F \cup {n}
  <2> HIDE DEF g, F
  <2>1. F = {fr[l] : l \in 1 .. Len(fr)}
    BY <1>4 DEF F, ToSet
  <2>2. ToSet(g) = {g[l] : l \in 1 .. Len(fr) + 1}
    BY <1>4 DEF ToSet
  <2>3. \A l \in 1 .. Len(fr) : l \in 1 .. Len(fr) + 1
    BY <1>3
  <2>4. Len(fr) + 1 \in 1 .. Len(fr) + 1
    BY <1>3
  <2>5. \A x \in ToSet(g) : x \in F \cup {n}
    BY <1>4, <2>1, <2>2
  <2>6. \A x \in F \cup {n} : x \in ToSet(g)
    BY <1>4, <2>1, <2>2, <2>3, <2>4
  <2> QED
    BY <2>5, <2>6
<1>6. \A j \in DOMAIN h[n].kids : h[n].kids[j] \in F \cup {0}
  <2>1. \A j \in DOMAIN h[n].kids : j \in Nat
    <3>1. h[n].kids \in Seq(Nat)
      BY <1>2 DEF Tree, Node
    <3> QED
      BY <3>1
  <2> QED
    BY <1>1, <2>1 DEF DoneBefore
<1> HIDE DEF g
<1>7. InOrder(h, g)
  <2>1. IsInjective(g)
    <3>1. \A l \in 1 .. Len(fr) : fr[l] # n
      BY <1>1, <1>4 DEF ToSet
    <3>2. \A l, m \in 1 .. Len(fr) : fr[l] = fr[m] => l = m
      BY <1>1, <1>4 DEF InOrder, IsInjective
    <3> QED
      BY <1>4, <3>1, <3>2 DEF IsInjective
  <2>2. ASSUME NEW l \in DOMAIN g, NEW k \in DOMAIN h[g[l]].kids, h[g[l]].kids[k] # 0
        PROVE  \E j \in 1 .. l - 1 : g[j] = h[g[l]].kids[k]
    <3>1. CASE l \in 1 .. Len(fr)
      <4>1. g[l] = fr[l] /\ l \in DOMAIN fr
        BY <1>4, <3>1
      <4>2. PICK j \in 1 .. l - 1 : fr[j] = h[fr[l]].kids[k]
        BY <1>1, <2>2, <4>1 DEF InOrder
      <4>3. j \in 1 .. Len(fr)
        BY <1>3, <3>1
      <4> QED
        BY <1>4, <4>1, <4>2, <4>3
    <3>2. CASE l = Len(g)
      <4>1. g[l] = n
        BY <1>4, <3>2
      <4>2. h[n].kids[k] \in F
        BY <1>6, <2>2, <4>1
      <4>3. PICK j \in DOMAIN fr : fr[j] = h[n].kids[k]
        BY <4>2 DEF ToSet
      <4>4. j \in 1 .. l - 1 /\ g[j] = fr[j]
        BY <1>3, <1>4, <3>2
      <4> QED
        BY <4>1, <4>3, <4>4
    <3> QED
      BY <1>4, <3>1, <3>2
  <2> QED
    BY <1>4, <2>1, <2>2 DEF InOrder
<1>8. w # << >> => root \notin ToSet(g)
  <2> SUFFICES ASSUME w # << >> PROVE root # n
    BY <1>1, <1>5
  <2>1. w[1].node = root /\ w[1].node > n
    BY <1>1, <1>2 DEF Path
  <2> QED
    BY <1>2, <2>1
<1>9. \A l \in 1 .. Len(w) :
        w[l].node \notin ToSet(g) /\ DoneBefore(h, ToSet(g), w[l].node, w[l].at)
  <2>1. \A l \in 1 .. Len(w) : w[l].node # n
    BY <1>2
  <2> QED
    BY <1>1, <1>5, <2>1 DEF DoneBefore
<1>10. ASSUME NEW m \in 1 .. Len(h), NEW j \in DOMAIN h[m].kids,
              h[m].kids[j] \in ToSet(g), m \notin ToSet(g)
       PROVE  \E l \in 1 .. Len(w) :
                w[l].node = m /\ (j < w[l].at \/ (l = Len(w) /\ j = w[l].at))
  <2>1. CASE h[m].kids[j] \in F
    BY <1>1, <1>5, <1>10, <2>1
  <2>2. CASE h[m].kids[j] = n
    <3>1. n # 0 /\ n # root
      BY <1>2, <1>10, <2>2, TreeKids
    <3>2. w # << >> /\ LeadsTo(h, w[Len(w)], n)
      BY <1>1, <3>1 DEF Path
    <3>3. Len(w) \in 1 .. Len(w)
      BY <1>2, <3>2
    <3>4. w[Len(w)].node \in 1 .. Len(h)
      BY <1>2, <3>3 DEF Caller
    <3>5. w[Len(w)].node = m /\ w[Len(w)].at = j
      BY <1>10, <2>2, <3>1, <3>2, <3>4, TreeKids DEF LeadsTo
    <3> QED
      BY <3>3, <3>5
  <2> QED
    BY <1>5, <1>10, <2>1, <2>2
<1>11. g # << >>
  BY <1>3, <1>4
<1> QED
  BY <1>1, <1>4, <1>7, <1>8, <1>9, <1>10, <1>11 DEF Ascending, g

\* Coming back to the caller, to go on with its next place.
LEMMA GoUp ==
  ASSUME NEW h, NEW root, Tree(h, root), NEW w, NEW fr, w # << >>,
         Ascending(h, root, w, fr)
  PROVE  Descending(h, root, SubSeq(w, 1, Len(w) - 1), w[Len(w)].node, w[Len(w)].at + 1, fr)
<1> DEFINE F == ToSet(fr)
           x == fr[Len(fr)]
           c == w[Len(w)]
           v == SubSeq(w, 1, Len(w) - 1)
<1>1. /\ Path(h, root, w, x) /\ InOrder(h, fr) /\ root \notin F
      /\ \A l \in 1 .. Len(w) : w[l].node \notin F /\ DoneBefore(h, F, w[l].node, w[l].at)
      /\ \A m \in 1 .. Len(h) : \A j \in DOMAIN h[m].kids :
           h[m].kids[j] \in F =>
             m \in F \/ \E l \in 1 .. Len(w) :
                         w[l].node = m /\ (j < w[l].at \/ (l = Len(w) /\ j = w[l].at))
  BY DEF Ascending
<1>2. w \in Seq(Caller(h)) /\ fr \in Seq(1 .. Len(h)) /\ fr # << >>
  BY <1>1 DEF Path, InOrder, Ascending
<1>3. /\ Len(w) \in Nat \ {0} /\ c \in Caller(h) /\ v \in Seq(Caller(h))
      /\ Len(v) = Len(w) - 1 /\ \A l \in 1 .. Len(w) - 1 : v[l] = w[l]
  BY <1>2, FrontOfSeq
<1>4. /\ c.node \in 1 .. Len(h) /\ c.at \in Nat \ {0} /\ LeadsTo(h, c, x)
      /\ \A l \in 1 .. Len(w) : l \in 1 .. Len(v) \/ l = Len(w)
  BY <1>1, <1>2, <1>3 DEF Caller, Path
<1>5. x \in F
  BY <1>2 DEF ToSet
<1> HIDE DEF F, x, c, v
<1>6. Path(h, root, v, c.node)
  <2>1. IF v = << >> THEN c.node = root ELSE v[1].node = root /\ LeadsTo(h, v[Len(v)], c.node)
    <3>0. w[1].node = root
      BY <1>1 DEF Path
    <3>1. CASE v = << >>
      <4>1. Len(w) = 1
        BY <1>3, <3>1
      <4> QED
        BY <3>0, <3>1, <4>1 DEF c
    <3>2. CASE v # << >>
      <4>1. Len(v) \in 1 .. Len(w) - 1 /\ 1 \in 1 .. Len(w) - 1 /\ Len(v) + 1 = Len(w)
        BY <1>3, <3>2
      <4>2. LeadsTo(h, w[Len(v)], w[Len(v) + 1].node)
        BY <1>1, <4>1 DEF Path
      <4> QED
        BY <1>3, <3>0, <3>2, <4>1, <4>2 DEF c
    <3> QED
      BY <3>1, <3>2
  <2>2. ASSUME NEW l \in 1 .. Len(v) - 1 PROVE LeadsTo(h, v[l], v[l + 1].node)
    <3>1. l \in 1 .. Len(w) - 1 /\ l + 1 \in 1 .. Len(w) - 1
      BY <1>3
    <3>2. LeadsTo(h, w[l], w[l + 1].node)
      BY <1>1, <3>1 DEF Path
    <3> QED
      BY <1>3, <3>1, <3>2
  <2>3. \A l \in 1 .. Len(w) - 1 : w[l].node > c.node
    BY <1>1, <1>3 DEF Path, c
  <2>4. \A l, m \in 1 .. Len(w) : l < m => w[l].node > w[m].node
    BY <1>1 DEF Path
  <2> QED
    BY <1>3, <1>4, <2>1, <2>2, <2>3, <2>4 DEF Path
<1>7. c.node \notin F
  BY <1>1, <1>3 DEF c
<1>8. DoneBefore(h, F, c.node, c.at + 1)
  <2>1. DoneBefore(h, F, c.node, c.at)
    BY <1>1, <1>3 DEF c
  <2>2. h[c.node].kids[c.at] \in F
    BY <1>4, <1>5 DEF LeadsTo
  <2>3. \A j \in DOMAIN h[c.node].kids : j \in Nat
    <3>1. h[c.node].kids \in Seq(Nat)
      BY <1>4 DEF Tree, Node
    <3> QED
      BY <3>1
  <2>4. \A j \in DOMAIN h[c.node].kids : j < c.at + 1 => j < c.at \/ j = c.at
    BY <1>4, <2>3
  <2> QED
    BY <2>1, <2>2, <2>4 DEF DoneBefore
<1>9. \A l \in 1 .. Len(v) : v[l].node \notin F /\ DoneBefore(h, F, v[l].node, v[l].at)
  BY <1>1, <1>3
<1>10. ASSUME NEW m \in 1 .. Len(h), NEW j \in DOMAIN h[m].kids,
              h[m].kids[j] \in F, m \notin F
       PROVE  (m = c.node /\ j < c.at + 1) \/ \E l \in 1 .. Len(v) : v[l].node = m /\ j < v[l].at
  <2>1. PICK l \in 1 .. Len(w) : w[l].node = m /\ (j < w[l].at \/ (l = Len(w) /\ j = w[l].at))
    BY <1>1, <1>10
  <2>2. j \in Nat
    <3>1. h[m].kids \in Seq(Nat)
      BY DEF Tree, Node
    <3> QED
      BY <3>1
  <2>3. CASE l = Len(w)
    <3>1. m = c.node /\ (j < c.at \/ j = c.at)
      BY <2>1, <2>3 DEF c
    <3> QED
      BY <1>4, <2>2, <3>1
  <2>4. CASE l \in 1 .. Len(v) /\ l # Len(w)
    <3>1. v[l] = w[l]
      BY <1>3, <2>4
    <3> QED
      BY <2>1, <2>4, <3>1
  <2> QED
    BY <1>4, <2>3, <2>4
<1>11. Descending(h, root, v, c.node, c.at + 1, fr)
  <2>1. c.at + 1 \in Nat \ {0}
    BY <1>4
  <2>2. InOrder(h, fr) /\ root \notin F
    BY <1>1
  <2> QED
    BY <1>6, <1>7, <1>8, <1>9, <1>10, <2>1, <2>2 DEF Descending, F
<1> QED
  BY <1>11 DEF v, c
-----------------------------------------------------------------------------
(***************************************************************************)
(* The invariant, action by action.                                        *)
(***************************************************************************)
\* A matcher that was just returned has not been walked.
LEMMA UseInitInv == UseInit => UseInv
<1> SUFFICES ASSUME UseInit PROVE UseInv
  OBVIOUS
<1>1. CompileInv
  BY InitInv DEF UseInit, CompileInv, Compiled, Init, Logical
<1> QED
  BY <1>1 DEF UseInit, UseInv, Walking, Idle, Reading

\* Where the walk goes on from place i of n: into a child, or back.
LEMMA DescendInv ==
  ASSUME CompileInv, ctl.do = "compiled", UNCHANGED vars,
         NEW n, NEW i, NEW w, Descending(heap, ctl.root, w, n, i, freed),
         Descend(n, i, w)
  PROVE  Walking'
<1>1. Tree(heap, ctl.root)
  BY CompiledTree
<1>2. /\ heap' = heap /\ ctl' = ctl
      /\ n \in 1 .. Len(heap) /\ i \in Nat \ {0}
  BY DEF vars, Descending, Path
<1>3. heap[n].kids \in Seq(Nat)
  BY <1>1, <1>2 DEF Tree, Node
<1>4. /\ KidsFrom(n, i) \subseteq Nat
      /\ \A j \in DOMAIN heap[n].kids : i <= j => j \in KidsFrom(n, i) \/ heap[n].kids[j] = 0
      /\ \A j \in KidsFrom(n, i) : j \in DOMAIN heap[n].kids /\ i <= j /\ heap[n].kids[j] # 0
  BY <1>2, <1>3 DEF KidsFrom, Kids
<1>5. CASE KidsFrom(n, i) = {}
  <2>1. freed' = Append(freed, n) /\ walk' = w /\ act' = [do |-> "freed"]
    BY <1>5 DEF Descend
  <2>2. Ascending(heap, ctl.root, w, Append(freed, n))
    BY <1>1, <1>4, <1>5, FreeHere
  <2> QED
    BY <1>2, <2>1, <2>2 DEF Walking, Reading
<1>6. CASE KidsFrom(n, i) # {}
  <2> DEFINE k == Min(KidsFrom(n, i))
  <2>1. k \in KidsFrom(n, i) /\ \A j \in KidsFrom(n, i) : k <= j
    BY <1>4, <1>6, MinIsLeast
  <2>2. /\ walk' = Append(w, [node |-> n, at |-> k]) /\ act' = Free(heap[n].kids[k])
        /\ freed' = freed
    BY <1>6 DEF Descend, Kids
  <2> HIDE DEF k
  <2>3. \A j \in DOMAIN heap[n].kids : i <= j /\ j < k => heap[n].kids[j] = 0
    <3>1. \A j \in DOMAIN heap[n].kids : j \in Nat
      BY <1>3
    <3>2. k \in Nat
      BY <1>4, <2>1
    <3> QED
      BY <1>4, <2>1, <3>1, <3>2
  <2>4. k \in DOMAIN heap[n].kids /\ k >= i /\ heap[n].kids[k] # 0
    BY <1>2, <1>4, <2>1
  <2>5. Descending(heap, ctl.root, Append(w, [node |-> n, at |-> k]), heap[n].kids[k], 1, freed)
    BY <1>1, <2>3, <2>4, GoDown
  <2> QED
    BY <1>2, <2>2, <2>5 DEF Walking, Reading, Free
<1> QED
  BY <1>5, <1>6

\* Every step of compiling, matching and destroying keeps the invariant.
LEMMA UseNextInv == UseInv /\ [UseNext]_allVars => UseInv'
<1> SUFFICES ASSUME UseInv, [UseNext]_allVars PROVE UseInv'
  OBVIOUS
<1>a. CompileInv /\ Walking
  BY DEF UseInv
<1>b. ASSUME UNCHANGED vars PROVE CompileInv'
  BY <1>a, <1>b, CompileStep
<1>1. CASE Compile
  <2>1. CompileInv' /\ UNCHANGED useVars
    BY <1>1, <1>a, CompileStep DEF Compile
  <2>2. CASE act.do = "idle"
    BY <1>a, <2>1, <2>2 DEF UseInv, useVars, Walking, Reading
  <2>3. CASE act.do # "idle"
    <3>1. UNCHANGED vars
      BY <1>1, <1>a, <2>3, CompiledStays DEF Walking, Compile
    <3> QED
      BY <1>a, <2>1, <3>1 DEF UseInv, useVars, vars, Walking
  <2> QED
    BY <2>2, <2>3
<1>2. CASE StartMatch
  BY <1>2, <1>a, <1>b DEF StartMatch, UseInv, Walking, Reading, Match, vars
<1>3. CASE MatchLeaf
  BY <1>3, <1>a, <1>b DEF MatchLeaf, Matching, UseInv, Walking, Reading, Value, vars
<1>4. CASE MatchExists
  <2>1. act'.do \in {"match", "value"} /\ freed' = freed /\ UNCHANGED vars /\ act.do = "match"
    BY <1>4 DEF MatchExists, Matching, Match, Value, vars
  <2> QED
    BY <2>1, <1>a, <1>b DEF UseInv, Walking, Reading, vars
<1>5. CASE MatchFirst
  <2>1. act'.do = "match" /\ freed' = freed /\ UNCHANGED vars /\ act.do = "match"
    BY <1>5 DEF MatchFirst, Matching, Match, vars
  <2> QED
    BY <2>1, <1>a, <1>b DEF UseInv, Walking, Reading, vars
<1>6. CASE MatchNull
  BY <1>6, <1>a, <1>b DEF MatchNull, UseInv, Walking, Reading, vars
<1>7. CASE Evaluate
  <2>1. act'.do \in {"match", "value"} /\ freed' = freed /\ UNCHANGED vars /\ act.do = "value"
    BY <1>7 DEF Evaluate, Match, Value, vars
  <2> QED
    BY <2>1, <1>a, <1>b DEF UseInv, Walking, Reading, vars
<1>8. CASE MatchReturn
  BY <1>8, <1>a, <1>b DEF MatchReturn, UseInv, Walking, Reading, vars
<1>9. CASE StartDestroy
  <2>1. /\ UNCHANGED vars /\ act' = Free(ctl.root) /\ walk' = << >> /\ freed' = << >>
        /\ ctl.do = "compiled"
    BY <1>9, <1>a DEF StartDestroy, vars, Walking, Reading
  <2>2. Tree(heap, ctl.root)
    BY <1>a, <2>1, CompiledTree
  <2>3. Descending(heap, ctl.root, << >>, ctl.root, 1, << >>)
    <3>1. Path(heap, ctl.root, << >>, ctl.root)
      BY <2>2 DEF Path, Tree
    <3>2. InOrder(heap, << >>) /\ ToSet(<< >>) = {}
      BY DEF InOrder, IsInjective, ToSet
    <3>3. DoneBefore(heap, {}, ctl.root, 1)
      <4>1. heap[ctl.root].kids \in Seq(Nat)
        BY <2>2 DEF Tree, Node
      <4> QED
        BY <4>1 DEF DoneBefore
    <3>4. 1 \in Nat \ {0} /\ 1 .. Len(<< >>) = {} /\ ctl.root \notin {}
      OBVIOUS
    <3>5. \A m \in 1 .. Len(heap) : \A j \in DOMAIN heap[m].kids : heap[m].kids[j] \notin {}
      OBVIOUS
    <3> QED
      BY <3>1, <3>2, <3>3, <3>4, <3>5, Zenon DEF Descending
  <2> QED
    BY <1>b, <2>1, <2>3 DEF UseInv, Walking, Reading, Free, vars
<1>10. CASE FreeNode
  <2>1. /\ UNCHANGED vars /\ ctl.do = "compiled" /\ Descend(act.node, 1, walk)
        /\ Descending(heap, ctl.root, walk, act.node, 1, freed)
    BY <1>10, <1>a DEF FreeNode, vars, Walking
  <2> QED
    BY <1>a, <1>b, <2>1, DescendInv DEF UseInv
<1>11. CASE FreedKid
  <2>1. /\ UNCHANGED vars /\ ctl.do = "compiled" /\ walk # << >>
        /\ Descend(Last0.node, Last0.at + 1, Callers)
        /\ Ascending(heap, ctl.root, walk, freed)
    BY <1>11, <1>a DEF FreedKid, vars, Walking
  <2>2. Descending(heap, ctl.root, Callers, Last0.node, Last0.at + 1, freed)
    BY <1>a, <2>1, CompiledTree, GoUp DEF Callers, Last0
  <2> QED
    BY <1>a, <1>b, <2>1, <2>2, DescendInv DEF UseInv
<1>12. CASE Destroyed
  <2>1. /\ UNCHANGED vars /\ ctl.do = "compiled" /\ walk = << >> /\ walk' = << >>
        /\ act' = [do |-> "destroyed"] /\ freed' = freed
        /\ Ascending(heap, ctl.root, walk, freed)
    BY <1>12, <1>a DEF Destroyed, vars, Walking
  <2>2. InOrder(heap, freed) /\ ctl.root = freed[Len(freed)] /\ freed # << >>
    BY <2>1 DEF Ascending, Path
  <2>3. ctl.root \in ToSet(freed)
    BY <2>2 DEF InOrder, ToSet
  <2> QED
    BY <1>b, <2>1, <2>2, <2>3 DEF UseInv, Walking, Reading, vars
<1>13. CASE UNCHANGED allVars
  <2>1. UNCHANGED vars /\ UNCHANGED useVars
    BY <1>13 DEF allVars, vars, useVars
  <2> QED
    BY <1>a, <1>b, <2>1 DEF UseInv, Walking, vars, useVars
<1> QED
  BY <1>1, <1>2, <1>3, <1>4, <1>5, <1>6, <1>7, <1>8, <1>9, <1>10, <1>11, <1>12, <1>13
  DEF UseNext

\* The forest of the compiler is still there while queries run and go away.
THEOREM ForestStays == UseSpec => []OneOwner
<1>1. UseInv => OneOwner
  BY DEF UseInv, CompileInv, Inv
<1> QED
  BY <1>1, UseInitInv, UseNextInv, PTL DEF UseSpec

\* In no state is the op that is about to be matched or freed one that was
\* freed before.
THEOREM NoneUsedAfterFree == UseSpec => []NoUseAfterFree
<1>1. UseInv => NoUseAfterFree
  <2>1. UseInv /\ act.do = "free" => act.node \notin ToSet(freed)
    BY DEF UseInv, Walking, Descending
  <2>2. UseInv /\ act.do = "match" => freed = << >>
    BY DEF UseInv, Walking, Reading
  <2>3. ToSet(<< >>) = {}
    BY DEF ToSet
  <2> QED
    BY <2>1, <2>2, <2>3 DEF NoUseAfterFree
<1> QED
  BY <1>1, UseInitInv, UseNextInv, PTL DEF UseSpec

\* An op is freed after the ops it points to: the walk that is in the middle of
\* an op still finds its pointers.
THEOREM KidsFreedFirst == UseSpec => []ChildrenFirst
<1>1. UseInv => ChildrenFirst
  <2>1. UseInv => freed = << >> \/ InOrder(heap, freed)
    BY DEF UseInv, Walking, Reading, Descending, Ascending
  <2>2. freed = << >> => DOMAIN freed = {}
    OBVIOUS
  <2> QED
    BY <2>1, <2>2 DEF InOrder, ChildrenFirst, Kids
<1> QED
  BY <1>1, UseInitInv, UseNextInv, PTL DEF UseSpec

-----------------------------------------------------------------------------
(***************************************************************************)
(* Part 2.  What a query may come to.                                      *)
(***************************************************************************)

-----------------------------------------------------------------------------
(***************************************************************************)
(* The recursive definitions over clauses, unfolded once.                  *)
(***************************************************************************)
\* What the parser reads below a clause are clauses.
LEMMA SubsAreClauses ==
  ASSUME NEW c \in Clause
  PROVE  Subs(c) \subseteq Clause
<1>1. CASE c.kind = "not"
  BY <1>1, ClauseAssumption DEF Subs
<1>2. CASE c.kind = "exists"
  BY <1>2, ClauseAssumption, ElementType DEF Subs, First
<1>3. CASE c.kind = "logical"
  <2>1. c.elems \in Seq(Element)
    BY <1>3, ClauseAssumption
  <2>2. \A i \in DOMAIN c.elems : c.elems[i] # << >> => First(c.elems[i]) \in Clause
    BY <2>1, ElementType DEF First
  <2> QED
    BY <1>3, <2>2 DEF Subs
<1>4. CASE c.kind = "cond"
  <2>1. c.parts \in Seq([part : Part, elem : Element])
    BY <1>4, ClauseAssumption
  <2>2. \A i \in DOMAIN c.parts : c.parts[i].elem \in Element
    <3>1. \A i \in DOMAIN c.parts : c.parts[i] \in [part : Part, elem : Element]
      BY <2>1, InSeq
    <3> QED
      BY <3>1
  <2>3. \A i \in DOMAIN c.parts : c.parts[i].elem # << >> => First(c.parts[i].elem) \in Clause
    BY <2>2, ElementType DEF First
  <2> QED
    BY <1>4, <2>3 DEF Subs
<1>5. CASE c.kind \notin {"not", "exists", "logical", "cond"}
  BY <1>5 DEF Subs
<1> QED
  BY <1>1, <1>2, <1>3, <1>4, <1>5

\* A recursion over clauses that asks G of each.
LEMMA EverywhereExists ==
  ASSUME NEW G
  PROVE  \E f \in [Clause -> BOOLEAN] :
           f = [c \in Clause |-> c \in G /\ \A k \in Subs(c) : f[k]]
<1> DEFINE K == [c \in Clause |-> Subs(c)]
           B == [c \in Clause |-> [g \in [K[c] -> BOOLEAN] |-> c \in G /\ \A k \in Subs(c) : g[k]]]
<1>1. Recursive(Clause, BOOLEAN, Depth, K, B)
  BY SubsAreClauses, DepthAssumption DEF Recursive
<1>2. PICK f \in [Clause -> BOOLEAN] : \A c \in Clause : f[c] = B[c][[k \in K[c] |-> f[k]]]
  <2> HIDE DEF K, B
  <2> QED
    BY <1>1, RecursionExists
<1>3. \A c \in Clause : f[c] = (c \in G /\ \A k \in Subs(c) : f[k])
  <2> SUFFICES ASSUME NEW c \in Clause PROVE f[c] = (c \in G /\ \A k \in Subs(c) : f[k])
    OBVIOUS
  <2>1. [k \in K[c] |-> f[k]] \in [K[c] -> BOOLEAN]
    BY SubsAreClauses
  <2> QED
    BY <1>2, <2>1
<1> QED
  BY <1>3

\* ValidClause is what its definition says.
LEMMA ValidClauseIs ==
  /\ ValidClause \in [Clause -> BOOLEAN]
  /\ \A c \in Clause : ValidClause[c] = (WellFormed(c) /\ \A k \in Subs(c) : ValidClause[k])
<1> DEFINE G == {c \in Clause : WellFormed(c)}
<1>1. PICK f \in [Clause -> BOOLEAN] :
         f = [c \in Clause |-> c \in G /\ \A k \in Subs(c) : f[k]]
  <2> HIDE DEF G
  <2> QED  BY EverywhereExists
<1>2. f = [c \in Clause |-> WellFormed(c) /\ \A k \in Subs(c) : f[k]]
  BY <1>1
<1>3. ValidClause = [c \in Clause |-> WellFormed(c) /\ \A k \in Subs(c) : ValidClause[k]]
  BY <1>2 DEF ValidClause
<1>4. \A c \in Clause : ValidClause[c] \in BOOLEAN
  BY <1>3
<1> QED
  BY <1>3, <1>4

\* NorsArePairs is what its definition says.
LEMMA NorsArePairsIs ==
  /\ NorsArePairs \in [Clause -> BOOLEAN]
  /\ \A c \in Clause : NorsArePairs[c] = (NorIsPair(c) /\ \A k \in Subs(c) : NorsArePairs[k])
<1> DEFINE G == {c \in Clause : NorIsPair(c)}
<1>1. PICK f \in [Clause -> BOOLEAN] :
         f = [c \in Clause |-> c \in G /\ \A k \in Subs(c) : f[k]]
  <2> HIDE DEF G
  <2> QED  BY EverywhereExists
<1>2. f = [c \in Clause |-> NorIsPair(c) /\ \A k \in Subs(c) : f[k]]
  BY <1>1
<1>3. NorsArePairs = [c \in Clause |-> NorIsPair(c) /\ \A k \in Subs(c) : NorsArePairs[k]]
  BY <1>2 DEF NorsArePairs
<1>4. \A c \in Clause : NorsArePairs[c] \in BOOLEAN
  BY <1>3
<1> QED
  BY <1>3, <1>4

\* Within is what its definition says.
LEMMA WithinIs ==
  /\ Within \in [Clause -> SUBSET Clause]
  /\ \A c \in Clause : Within[c] = {c} \cup UNION {Within[k] : k \in Subs(c)}
<1> DEFINE K == [c \in Clause |-> Subs(c)]
           T == SUBSET Clause
           B == [c \in Clause |-> [g \in [K[c] -> T] |-> {c} \cup UNION {g[k] : k \in Subs(c)}]]
<1>1. Recursive(Clause, T, Depth, K, B)
  <2>1. \A c \in Clause : \A g \in [K[c] -> T] : B[c][g] \in T
    <3> SUFFICES ASSUME NEW c \in Clause, NEW g \in [K[c] -> T]
                 PROVE  {c} \cup UNION {g[k] : k \in Subs(c)} \subseteq Clause
      OBVIOUS
    <3> QED
      BY SubsAreClauses
  <2> HIDE DEF B
  <2> QED
    BY <2>1, SubsAreClauses, DepthAssumption DEF Recursive
<1>2. PICK f \in [Clause -> T] : \A c \in Clause : f[c] = B[c][[k \in K[c] |-> f[k]]]
  <2> HIDE DEF K, B, T
  <2> QED
    BY <1>1, RecursionExists
<1>3. \A c \in Clause : f[c] = {c} \cup UNION {f[k] : k \in Subs(c)}
  <2> SUFFICES ASSUME NEW c \in Clause PROVE f[c] = {c} \cup UNION {f[k] : k \in Subs(c)}
    OBVIOUS
  <2> DEFINE g == [k \in K[c] |-> f[k]]
  <2>1. g \in [K[c] -> T]
    BY SubsAreClauses
  <2>2. {g[k] : k \in Subs(c)} = {f[k] : k \in Subs(c)}
    OBVIOUS
  <2>3. f[c] = B[c][g]
    BY <1>2
  <2> HIDE DEF g
  <2>4. B[c][g] = {c} \cup UNION {g[k] : k \in Subs(c)}
    BY <2>1
  <2> QED
    BY <2>2, <2>3, <2>4
<1>4. f = [c \in Clause |-> {c} \cup UNION {f[k] : k \in Subs(c)}]
  BY <1>3
<1>5. Within = [c \in Clause |-> {c} \cup UNION {Within[k] : k \in Subs(c)}]
  BY <1>4 DEF Within
<1>6. Within \in [Clause -> T]
  <2> DEFINE P == {c \in Clause : Within[c] \subseteq Clause}
  <2>2. ASSUME NEW c \in Clause, \A k \in Clause : Depth[k] < Depth[c] => k \in P
        PROVE  c \in P
    <3>1. \A k \in Subs(c) : k \in Clause /\ Depth[k] < Depth[c]
      BY SubsAreClauses, DepthAssumption
    <3>2. \A k \in Subs(c) : Within[k] \subseteq Clause
      BY <2>2, <3>1
    <3>3. Within[c] = {c} \cup UNION {Within[k] : k \in Subs(c)}
      BY <1>5
    <3> QED
      BY <3>2, <3>3
  <2>3. P = Clause
    <3>1. P \subseteq Clause
      OBVIOUS
    <3>2. \A c \in Clause : (\A k \in Clause : Depth[k] < Depth[c] => k \in P) => c \in P
      BY <2>2
    <3>3. Depth \in [Clause -> Nat]
      BY DepthAssumption
    <3> HIDE DEF P
    <3> QED
      BY <3>1, <3>2, <3>3, Shallowest
  <2> QED
    BY <1>5, <2>3
<1> QED
  BY <1>5, <1>6

\* What is within a clause has all that is below it within that clause.
LEMMA WithinClosed ==
  \A c \in Clause : c \in Within[c] /\ \A x \in Within[c] : Subs(x) \subseteq Within[c]
<1> DEFINE P == {c \in Clause : \A x \in Within[c] : Subs(x) \subseteq Within[c]}
<1>1. \A c \in Clause : c \in Within[c]
  BY WithinIs
<1>2. ASSUME NEW c \in Clause, \A k \in Clause : Depth[k] < Depth[c] => k \in P,
             NEW x \in Within[c]
      PROVE  Subs(x) \subseteq Within[c]
  <2>1. \A k \in Subs(c) : k \in Clause /\ k \in P
    BY <1>2, SubsAreClauses, DepthAssumption
  <2>2. Within[c] = {c} \cup UNION {Within[k] : k \in Subs(c)}
    BY WithinIs
  <2>3. \A k \in Subs(c) : k \in Within[k] /\ Within[k] \subseteq Within[c]
    BY <1>1, <2>1, <2>2
  <2>4. CASE x = c
    BY <2>3, <2>4
  <2>5. CASE \E k \in Subs(c) : x \in Within[k]
    BY <2>1, <2>3, <2>5
  <2> QED
    BY <1>2, <2>2, <2>4, <2>5
<1>3. P = Clause
  <2>1. P \subseteq Clause
    OBVIOUS
  <2>2. \A c \in Clause : (\A k \in Clause : Depth[k] < Depth[c] => k \in P) => c \in P
    BY <1>2
  <2>3. Depth \in [Clause -> Nat]
    BY DepthAssumption
  <2> HIDE DEF P
  <2> QED
    BY <2>1, <2>2, <2>3, Shallowest
<1> QED
  BY <1>1, <1>3

\* The parser reads on from a clause to those below it.
LEMMA ReadClosed ==
  ASSUME query \in Seq(Clause)
  PROVE  /\ \A i \in DOMAIN query : query[i] \in Read
         /\ \A c \in Read : c \in Clause /\ Subs(c) \subseteq Read
<1>1. \A i \in DOMAIN query : query[i] \in Clause
  BY InSeq
<1>2. \A i \in DOMAIN query : query[i] \in Within[query[i]]
  BY <1>1, WithinClosed
<1>3. ASSUME NEW c \in Read
      PROVE  c \in Clause /\ Subs(c) \subseteq Read
  <2>1. PICK i \in DOMAIN query : c \in Within[query[i]]
    BY <1>3 DEF Read
  <2>2. Subs(c) \subseteq Within[query[i]] /\ c \in Clause
    BY <1>1, <2>1, WithinClosed, WithinIs
  <2> QED
    BY <2>2 DEF Read
<1> QED
  BY <1>2, <1>3 DEF Read
-----------------------------------------------------------------------------
(***************************************************************************)
(* Compiling valid clauses.  While the clause that caller b + 1 was        *)
(* entered for is valid, the callers above b wait for an op, and the ones  *)
(* they have got are there.                                                *)
(***************************************************************************)
ValidElement(e)   == e # << >> /\ ValidClause[First(e)]
ValidElements(es) == \A i \in DOMAIN es : ValidElement(es[i])

SoundLogical(f) ==
  /\ ValidElements(f.items)
  /\ f.left = 0 <=> f.at = "left"
  /\ f.right # 0 <=> f.at = "more"

PartsLeft(f) == {f.items[i].part : i \in DOMAIN f.items}

\* Every part of the $cond is there, in work or still to come, and only once.
SoundCond(f, inWork) ==
  /\ \A i \in DOMAIN f.items : ValidElement(f.items[i].elem)
  /\ \A i, j \in DOMAIN f.items : f.items[i].part = f.items[j].part => i = j
  /\ inWork \cap PartsLeft(f) = {} /\ f.ok \cap (inWork \cup PartsLeft(f)) = {}
  /\ f.ok \cup inWork \cup PartsLeft(f) = Part
  /\ \A p \in Part : f.got[p] # 0 <=> p \in f.ok

SoundFrame(f, looping) ==
  /\ f.fn = "logical" => SoundLogical(f)
  /\ f.fn = "cond" => SoundCond(f, IF looping THEN {} ELSE {f.at})

SoundStack(s, looping, b) ==
  \A k \in b + 1 .. Len(s) : SoundFrame(s[k], looping /\ k = Len(s))

\* NULL is the end of a list, for the caller that asked for the rest of it.
EndExpected(s, b) == Len(s) > b /\ s[Len(s)].fn = "logical" /\ s[Len(s)].at = "more"

SoundControl(c, s, b) ==
  /\ c.do \notin {"failed", "aborted"}
  /\ c.do = "parse" => ValidClause[c.clause]
  /\ c.do = "logical" => ValidElements(c.items) /\ (c.items = << >> => EndExpected(s, b))
  /\ c.do = "return" => (c.ref = 0 => EndExpected(s, b))

SoundAbove(b) ==
  SoundStack(stack, ctl.do = "loop", b) /\ SoundControl(ctl, stack, b)

\* What each $cond in the making was entered for is a clause of the query.
CondsKnown ==
  \A k \in DOMAIN stack : stack[k].fn = "cond" =>
    \E c \in Read : c.kind = "cond" /\ (ValidClause[c] => SoundAbove(k - 1))

\* The parser only ever reads clauses of the query.
Reads(es)      == \A i \in DOMAIN es : es[i] # << >> => First(es[i]) \in Read
ReadsParts(ps) == \A i \in DOMAIN ps : ps[i].elem # << >> => First(ps[i].elem) \in Read

ReadsFrame(f) ==
  /\ f.fn = "logical" => Reads(f.items)
  /\ f.fn = "cond" => ReadsParts(f.items)

ReadsOnly ==
  /\ ctl.do = "parse" => ctl.clause \in Read
  /\ ctl.do = "logical" => Reads(ctl.items)
  /\ \A k \in DOMAIN stack : ReadsFrame(stack[k])

\* NULL goes up with @error set, unless the query has a silent clause or an
\* $exists on the way, whose spec has no error to set.
NoSilentClause == ~\E c \in Read : c.kind = "bad" /\ c.how = "silent"

ExistsWaits(s) == \E k \in DOMAIN s : s[k].fn = "exists"

FailsLoudly ==
  NoSilentClause =>
    /\ ctl.do = "return" /\ ctl.ref = 0 => err \/ ExistsWaits(stack)
    /\ ctl.do = "failed" => err

StopInv ==
  (Valid => SoundAbove(0)) /\ CondsKnown /\ ReadsOnly /\ FailsLoudly /\ AbortsExplained

\* How many places a node has, and which must not be empty.
Shape(n) ==
  Len(n.kids) = CASE n.tag = "leaf"            -> 0
                  [] n.tag \in {"exists", "not"} -> 1
                  [] n.tag \in Opcode          -> 2
                  [] n.tag = "cond"            -> 3

Whole(n) == n.tag # "exists" => \A i \in DOMAIN n.kids : n.kids[i] # 0

\* An op is held by the register r, by an op of the heap h or by a caller of s.
Has(h, s, r, n) ==
  \/ n = r
  \/ \E m \in DOMAIN h : n \in KidsOf(h[m])
  \/ \E k \in DOMAIN s : n \in Locals(s[k])

Reached(h, s, r) == \A n \in DOMAIN h : Has(h, s, r, n)

NodesInv ==
  /\ \A n \in DOMAIN heap : Shape(heap[n])
  /\ Valid => (\A n \in DOMAIN heap : Whole(heap[n])) /\ Reached(heap, stack, Held)

\* A caller of a match waits for one place of its op.
Visit == [node : DOMAIN heap, at : 1 .. 3]

\* A match of a valid query stays within the ops.
MatchInWalk ==
  /\ act.do = "match" => act.node \in DOMAIN heap
  /\ act.do \in {"match", "value"} => walk \in Seq(Visit)
  /\ act.do # "aborted"

MatchInv == Valid => MatchInWalk

MeaningInv == UseInv /\ StopInv /\ NodesInv /\ MatchInv
-----------------------------------------------------------------------------
\* The first of a list and the rest.
LEMMA ListParts ==
  ASSUME NEW T, NEW s \in Seq(T), s # << >>
  PROVE  /\ 1 \in DOMAIN s /\ Head(s) = s[1] /\ Head(s) \in T
         /\ Tail(s) \in Seq(T) /\ Len(Tail(s)) = Len(s) - 1
         /\ \A i \in DOMAIN Tail(s) : i + 1 \in DOMAIN s /\ i + 1 # 1 /\ Tail(s)[i] = s[i + 1]
         /\ \A i \in DOMAIN s : i = 1 \/ (i - 1 \in DOMAIN Tail(s) /\ s[i] = Tail(s)[i - 1])
<1>1. Len(s) \in Nat \ {0} /\ DOMAIN s = 1 .. Len(s) /\ Head(s) = s[1]
  BY EmptySeq
<1>2. /\ Tail(s) \in Seq(T) /\ Len(Tail(s)) = Len(s) - 1
      /\ \A i \in 1 .. Len(s) - 1 : Tail(s)[i] = s[i + 1]
  BY <1>1, HeadTailProperties
<1>3. DOMAIN Tail(s) = 1 .. Len(s) - 1
  BY <1>2
<1>4. \A i \in 1 .. Len(s) - 1 : i + 1 \in 1 .. Len(s) /\ i + 1 # 1
  BY <1>1
<1>5. \A i \in 1 .. Len(s) : i = 1 \/ (i - 1 \in 1 .. Len(s) - 1 /\ s[i] = Tail(s)[i - 1])
  BY <1>1, <1>2
<1> QED
  BY <1>1, <1>2, <1>3, <1>4, <1>5, InSeq

\* What is not refused below a valid clause.
LEMMA ValidBelow ==
  ASSUME NEW c \in Clause, ValidClause[c]
  PROVE  /\ c.kind # "bad"
         /\ c.kind = "not" => ValidClause[c.kid]
         /\ c.kind = "exists" /\ c.spec # << >> => ValidClause[First(c.spec)]
         /\ c.kind = "logical" => c.elems # << >> /\ ValidElements(c.elems)
         /\ c.kind = "cond" =>
              /\ \A p \in Part : \E i \in PartsOf(c, p) : PartsOf(c, p) = {i}
              /\ \A i \in DOMAIN c.parts : ValidElement(c.parts[i].elem)
<1>1. WellFormed(c) /\ \A k \in Subs(c) : ValidClause[k]
  BY ValidClauseIs
<1>2. c.kind = "not" => c.kid \in Subs(c)
  BY DEF Subs
<1>3. c.kind = "exists" /\ c.spec # << >> => First(c.spec) \in Subs(c)
  BY DEF Subs
<1>4. c.kind = "logical" =>
        \A i \in DOMAIN c.elems : c.elems[i] # << >> => First(c.elems[i]) \in Subs(c)
  BY DEF Subs
<1>5. c.kind = "cond" =>
        \A i \in DOMAIN c.parts : c.parts[i].elem # << >> => First(c.parts[i].elem) \in Subs(c)
  BY DEF Subs
<1> QED
  BY <1>1, <1>2, <1>3, <1>4, <1>5 DEF WellFormed, ValidElements, ValidElement

\* The rest of a list of valid clauses, and its first.
LEMMA ValidTail ==
  ASSUME NEW es \in Seq(Element), es # << >>, ValidElements(es)
  PROVE  /\ Head(es) # << >> /\ ValidClause[Head(Head(es))]
         /\ ValidElements(Tail(es))
<1>1. \A i \in DOMAIN es : ValidElement(es[i])
  BY DEF ValidElements
<1>2. ValidElement(Head(es))
  BY <1>1, ListParts
<1>3. \A i \in DOMAIN Tail(es) : ValidElement(Tail(es)[i])
  BY <1>1, ListParts
<1> QED
  BY <1>2, <1>3 DEF ValidElement, ValidElements, First

\* A caller is pushed.
LEMMA SoundPush ==
  ASSUME NEW s \in Seq(Frame), NEW f \in Frame, NEW b \in 0 .. Len(s),
         NEW looping \in BOOLEAN, SoundStack(s, FALSE, b), SoundFrame(f, looping)
  PROVE  SoundStack(Append(s, f), looping, b)
<1> DEFINE t == Append(s, f)
<1>1. /\ Len(t) = Len(s) + 1 /\ Len(s) \in Nat
      /\ \A k \in 1 .. Len(s) : t[k] = s[k]
      /\ t[Len(t)] = f
  BY AppendProperties
<1> HIDE DEF t
<1> SUFFICES ASSUME NEW k \in b + 1 .. Len(t)
             PROVE  SoundFrame(t[k], looping /\ k = Len(t))
  BY DEF SoundStack, t
<1>2. CASE k = Len(t)
  <2>1. (looping /\ k = Len(t)) = looping
    BY <1>2
  <2> QED
    BY <1>1, <1>2, <2>1
<1>3. CASE k # Len(t)
  <2>1. k \in b + 1 .. Len(s) /\ k \in 1 .. Len(s)
    BY <1>1, <1>3
  <2>2. (looping /\ k = Len(t)) = FALSE /\ (FALSE /\ k = Len(s)) = FALSE
    BY <1>3
  <2>3. SoundFrame(s[k], FALSE /\ k = Len(s))
    BY <2>1 DEF SoundStack
  <2> QED
    BY <1>1, <2>1, <2>2, <2>3
<1> QED
  BY <1>2, <1>3

\* A caller is popped.
LEMMA SoundPop ==
  ASSUME NEW s \in Seq(Frame), s # << >>, NEW b \in Nat,
         NEW looping \in BOOLEAN, SoundStack(s, looping, b)
  PROVE  SoundStack(Under(s), FALSE, b)
<1>1. /\ Len(s) \in Nat \ {0} /\ Len(Under(s)) = Len(s) - 1
      /\ \A k \in 1 .. Len(s) - 1 : Under(s)[k] = s[k]
  BY FrontType
<1> SUFFICES ASSUME NEW k \in b + 1 .. Len(Under(s))
             PROVE  SoundFrame(Under(s)[k], FALSE /\ k = Len(Under(s)))
  BY DEF SoundStack
<1>2. k \in b + 1 .. Len(s) /\ k \in 1 .. Len(s) - 1 /\ k # Len(s)
  BY <1>1
<1>3. (looping /\ k = Len(s)) = FALSE /\ (FALSE /\ k = Len(Under(s))) = FALSE
  BY <1>2
<1>4. SoundFrame(s[k], looping /\ k = Len(s))
  BY <1>2 DEF SoundStack
<1> QED
  BY <1>1, <1>2, <1>3, <1>4

\* The innermost caller changes its locals.
LEMMA SoundSetTop ==
  ASSUME NEW s \in Seq(Frame), s # << >>, NEW f \in Frame, NEW b \in 0 .. Len(s) - 1,
         NEW was \in BOOLEAN, NEW looping \in BOOLEAN,
         SoundStack(s, was, b), SoundFrame(f, looping)
  PROVE  /\ SoundStack(Append(Under(s), f), looping, b)
         /\ Len(Append(Under(s), f)) = Len(s)
         /\ Append(Under(s), f)[Len(s)] = f
<1>1. Len(s) \in Nat \ {0} /\ Len(Under(s)) = Len(s) - 1 /\ Under(s) \in Seq(Frame)
  BY FrontType
<1>a. b \in Nat /\ b \in 0 .. Len(Under(s))
  BY <1>1
<1>2. SoundStack(Under(s), FALSE, b)
  BY <1>a, SoundPop
<1>3. SoundStack(Append(Under(s), f), looping, b)
  BY <1>1, <1>2, <1>a, SoundPush
<1> QED
  BY <1>1, <1>3

\* What the register may hold: an op, a valid clause, the loop of a $cond.
LEMMA SoundControls ==
  ASSUME NEW s, NEW b
  PROVE  /\ \A r \in Ref : r # 0 => SoundControl(Return(r), s, b)
         /\ \A c \in Clause : ValidClause[c] => SoundControl(Parse(c), s, b)
         /\ SoundControl([do |-> "loop"], s, b)
  BY DEF SoundControl, Return, Parse

\* While what a caller was entered for is valid, every step above it keeps the
\* callers sound and fails nothing.
LEMMA SoundStep ==
  ASSUME TypeOK, TypeOK', Step, NEW b \in 0 .. Len(stack),
         b < Len(stack) \/ b = 0 \/ ctl.do = "parse", b <= Len(stack'), SoundAbove(b)
  PROVE  SoundAbove(b)'
<1> USE DEF Parsing, Push, Pop, SetTop, Alloc, Fail, Returning, ReturningAt, Looping
<1>a. /\ stack \in Seq(Frame) /\ heap \in Seq(Node) /\ Len(stack) \in Nat /\ b \in Nat
      /\ Fresh \in Ref /\ Fresh # 0 /\ Fresh + 1 \in Ref /\ Fresh + 1 # 0
      /\ stack' \in Seq(Frame)
  BY DEF TypeOK, Fresh
<1>b. SoundStack(stack, ctl.do = "loop", b) /\ SoundControl(ctl, stack, b)
  BY DEF SoundAbove
<1>c. ctl.do # "loop" => SoundStack(stack, FALSE, b)
  <2>1. ctl.do # "loop" => (ctl.do = "loop") = FALSE
    OBVIOUS
  <2> QED
    BY <1>b, <2>1
<1>d. ASSUME NEW c, ctl' = c, c.do # "loop", SoundStack(stack', FALSE, b), SoundControl(c, stack', b)
      PROVE  SoundAbove(b)'
  <2>1. (ctl'.do = "loop") = FALSE
    BY <1>d
  <2> QED
    BY <1>d, <2>1 DEF SoundAbove
<1>e. ASSUME ctl' = [do |-> "loop"], SoundStack(stack', TRUE, b)
      PROVE  SoundAbove(b)'
  <2>1. (ctl'.do = "loop") = TRUE
    BY <1>e
  <2> QED
    BY <1>e, <2>1, SoundControls DEF SoundAbove
\* the callers
<1>f. ASSUME stack # << >>, ctl.do \in {"return", "loop"}
      PROVE  /\ b < Len(stack) /\ b \in 0 .. Len(stack) - 1
             /\ SoundStack(Below, FALSE, b)
             /\ SoundFrame(Top, ctl.do = "loop")
             /\ Top.fn = "logical" => SoundLogical(Top)
             /\ Top.fn = "cond" => SoundCond(Top, IF ctl.do = "loop" THEN {} ELSE {Top.at})
             /\ EndExpected(stack, b) => Top.fn = "logical" /\ Top.at = "more"
  <2>1. Len(stack) \in Nat \ {0}
    BY <1>f, TopType
  <2>2. b < Len(stack) /\ Len(stack) \in b + 1 .. Len(stack) /\ b \in 0 .. Len(stack) - 1
    BY <1>a, <1>f, <2>1
  <2>3. SoundFrame(Top, ctl.do = "loop" /\ Len(stack) = Len(stack))
    BY <1>b, <2>2 DEF SoundStack, Top
  <2>4. SoundStack(Below, FALSE, b)
    <3>1. (ctl.do = "loop") \in BOOLEAN
      OBVIOUS
    <3> QED
      BY <1>a, <1>b, <1>f, <3>1, SoundPop DEF Below, Under
  <2>5. SoundFrame(Top, ctl.do = "loop")
    <3>1. (ctl.do = "loop" /\ Len(stack) = Len(stack)) = (ctl.do = "loop")
      OBVIOUS
    <3> QED
      BY <2>3, <3>1
  <2> QED
    BY <2>2, <2>4, <2>5 DEF SoundFrame, EndExpected, Top
<1>t. ASSUME stack # << >>
      PROVE  /\ Top \in Frame
             /\ Top.fn = "logical" => Top \in LogicalFrame /\ Top.items \in Seq(Element)
             /\ Top.fn = "cond" => Top \in CondFrame
  BY <1>t, TopType, FrameCases DEF LogicalFrame
<1>g. ctl.do = "return" /\ ctl.ref = 0 => EndExpected(stack, b)
  BY <1>b DEF SoundControl
<1>h. ctl.do = "parse" => ctl.clause \in Clause /\ ValidClause[ctl.clause]
  BY <1>b, ControlCases DEF SoundControl
<1>1. CASE ParseLeaf
  <2>1. ctl' = Return(Fresh) /\ stack' = stack /\ ctl.do = "parse" /\ Return(Fresh).do = "return"
    BY <1>1 DEF ParseLeaf, Return
  <2> QED
    BY <1>a, <1>c, <1>d, <2>1, SoundControls
<1>2. CASE ParseBad
  BY <1>2, <1>h, ValidBelow DEF ParseBad
<1>3. CASE ParseNot
  <2> DEFINE f == [fn |-> "not"]
  <2>1. /\ ctl' = Parse(ctl.clause.kid) /\ stack' = Append(stack, f)
        /\ ctl.do = "parse" /\ Parse(ctl.clause.kid).do = "parse"
    BY <1>3 DEF ParseNot, Parse
  <2>2. ValidClause[ctl.clause.kid] /\ ctl.clause.kid \in Clause
    BY <1>3, <1>h, ValidBelow, ClauseAssumption DEF ParseNot
  <2>3. f \in Frame /\ SoundFrame(f, FALSE)
    BY DEF Frame, NotFrame, SoundFrame
  <2> HIDE DEF f
  <2>4. SoundStack(stack', FALSE, b)
    BY <1>a, <1>c, <2>1, <2>3, SoundPush
  <2> QED
    BY <1>d, <2>1, <2>2, <2>4, SoundControls
<1>4. CASE ParseExistsEmpty
  <2>1. ctl' = Return(Fresh) /\ stack' = stack /\ ctl.do = "parse" /\ Return(Fresh).do = "return"
    BY <1>4 DEF ParseExistsEmpty, Return
  <2> QED
    BY <1>a, <1>c, <1>d, <2>1, SoundControls
<1>5. CASE ParseExists
  <2> DEFINE f == [fn |-> "exists", atom |-> ctl.clause.atom]
             k == Head(ctl.clause.spec)
  <2>1. /\ ctl' = Parse(k) /\ stack' = Append(stack, f)
        /\ ctl.do = "parse" /\ Parse(k).do = "parse"
    BY <1>5 DEF ParseExists, Parse
  <2>2. ValidClause[k] /\ k \in Clause
    BY <1>5, <1>h, ValidBelow, ClauseAssumption, ElementType DEF ParseExists, First
  <2>3. f \in Frame /\ SoundFrame(f, FALSE)
    BY <1>5, <1>h, ClauseAssumption DEF ParseExists, Frame, ExistsFrame, SoundFrame
  <2> HIDE DEF f, k
  <2>4. SoundStack(stack', FALSE, b)
    BY <1>a, <1>c, <2>1, <2>3, SoundPush
  <2> QED
    BY <1>d, <2>1, <2>2, <2>4, SoundControls
<1>6. CASE ParseLogical
  <2> DEFINE c == Logical(ctl.clause.op, ctl.clause.elems)
  <2>1. ctl' = c /\ stack' = stack /\ ctl.do = "parse" /\ c.do = "logical"
    BY <1>6 DEF ParseLogical, Logical
  <2>2. ctl.clause.elems # << >> /\ ValidElements(ctl.clause.elems)
    BY <1>6, <1>h, ValidBelow DEF ParseLogical
  <2>3. SoundControl(c, stack', b)
    BY <2>2 DEF SoundControl, Logical
  <2> HIDE DEF c
  <2> QED
    BY <1>c, <1>d, <2>1, <2>3
<1>7. CASE ParseCond
  <2> DEFINE f == [fn |-> "cond", items |-> ctl.clause.parts, at |-> "if",
                   got |-> [p \in Part |-> 0], ok |-> {}]
  <2>1. ctl' = [do |-> "loop"] /\ stack' = Append(stack, f) /\ ctl.do = "parse"
    BY <1>7 DEF ParseCond
  <2>2. /\ \A p \in Part : \E i \in PartsOf(ctl.clause, p) : PartsOf(ctl.clause, p) = {i}
        /\ \A i \in DOMAIN ctl.clause.parts : ValidElement(ctl.clause.parts[i].elem)
        /\ ctl.clause.parts \in Seq([part : Part, elem : Element])
    BY <1>7, <1>h, ValidBelow, ClauseAssumption DEF ParseCond
  <2>3. f \in Frame
    BY <2>2 DEF Frame, CondFrame, Part
  <2>4. SoundCond(f, {})
    <3>1. f.items = ctl.clause.parts /\ f.ok = {} /\ \A p \in Part : f.got[p] = 0
      OBVIOUS
    <3>2. \A i \in DOMAIN ctl.clause.parts : ctl.clause.parts[i].part \in Part
      <4>1. \A i \in DOMAIN ctl.clause.parts : ctl.clause.parts[i] \in [part : Part, elem : Element]
        BY <2>2, InSeq
      <4> QED
        BY <4>1
    <3> HIDE DEF f
    <3>3. PartsLeft(f) = Part
      <4>1. PartsLeft(f) \subseteq Part
        BY <3>1, <3>2 DEF PartsLeft
      <4>2. ASSUME NEW p \in Part PROVE p \in PartsLeft(f)
        <5>1. PICK i : i \in PartsOf(ctl.clause, p)
          BY <2>2
        <5>2. i \in DOMAIN f.items /\ f.items[i].part = p
          BY <3>1, <5>1 DEF PartsOf
        <5> QED
          BY <5>2 DEF PartsLeft
      <4> QED
        BY <4>1, <4>2
    <3>4. ASSUME NEW i \in DOMAIN ctl.clause.parts, NEW j \in DOMAIN ctl.clause.parts,
                 ctl.clause.parts[i].part = ctl.clause.parts[j].part
          PROVE  i = j
      <4> DEFINE p == ctl.clause.parts[i].part
      <4>1. p \in Part
        BY <3>2
      <4>2. i \in PartsOf(ctl.clause, p) /\ j \in PartsOf(ctl.clause, p)
        BY <3>4 DEF PartsOf
      <4> HIDE DEF p
      <4>3. PICK k : PartsOf(ctl.clause, p) = {k}
        BY <2>2, <4>1
      <4> QED
        BY <4>2, <4>3
    <3> QED
      BY <2>2, <3>1, <3>3, <3>4 DEF SoundCond
  <2>5. SoundFrame(f, TRUE)
    BY <2>4 DEF SoundFrame
  <2> HIDE DEF f
  <2> QED
    BY <1>a, <1>c, <1>e, <2>1, <2>3, <2>5, SoundPush
<1>8. CASE LogicalEmpty
  <2>1. ctl' = Return(0) /\ stack' = stack /\ ctl.do = "logical" /\ Return(0).do = "return"
    BY <1>8 DEF LogicalEmpty, Return
  <2>2. EndExpected(stack, b)
    BY <1>8, <1>b DEF LogicalEmpty, SoundControl
  <2>3. SoundControl(Return(0), stack', b)
    BY <2>1, <2>2 DEF SoundControl, Return
  <2> QED
    BY <1>c, <1>d, <2>1, <2>3
<1>9. CASE LogicalNotDocument
  <2>1. ctl.items \in Seq(Element) /\ ctl.items # << >> /\ ValidElements(ctl.items)
    BY <1>9, <1>b, ControlCases DEF LogicalNotDocument, SoundControl
  <2> QED
    BY <1>9, <2>1, ValidTail DEF LogicalNotDocument
<1>10. CASE LogicalLeft
  <2> DEFINE f == [fn |-> "logical", op |-> ctl.op, items |-> Tail(ctl.items),
                   at |-> "left", left |-> 0, right |-> 0]
             k == Head(Head(ctl.items))
  <2>1. /\ ctl' = Parse(k) /\ stack' = Append(stack, f)
        /\ ctl.do = "logical" /\ Parse(k).do = "parse"
    BY <1>10 DEF LogicalLeft, Parse
  <2>2. /\ ctl.items \in Seq(Element) /\ ctl.items # << >> /\ ValidElements(ctl.items)
        /\ ctl.op \in Opcode
    BY <1>10, <1>b, ControlCases DEF LogicalLeft, SoundControl
  <2>3. ValidClause[k] /\ ValidElements(Tail(ctl.items)) /\ k \in Clause
        /\ Tail(ctl.items) \in Seq(Element)
    BY <2>2, ValidTail, ListParts, ElementType
  <2>4. f \in Frame /\ SoundFrame(f, FALSE)
    BY <2>2, <2>3 DEF Frame, LogicalFrame, SoundFrame, SoundLogical
  <2> HIDE DEF f, k
  <2>5. SoundStack(stack', FALSE, b)
    BY <1>a, <1>c, <2>1, <2>4, SoundPush
  <2> QED
    BY <1>d, <2>1, <2>3, <2>5, SoundControls
<1>11. CASE GotLeftLast
  <2>1. /\ ctl' = ctl /\ stack' = Below /\ stack # << >> /\ ctl.do = "return"
        /\ Top.fn = "logical" /\ Top.at = "left"
    BY <1>11 DEF GotLeftLast
  <2>2. ctl.ref # 0
    BY <1>f, <1>g, <2>1
  <2>3. SoundControl(ctl, stack', b)
    BY <2>1, <2>2 DEF SoundControl
  <2> QED
    BY <1>d, <1>f, <2>1, <2>3
<1>12. CASE GotLeftNotDocument
  <2>1. Top.items \in Seq(Element) /\ Top.items # << >> /\ ValidElements(Top.items)
    BY <1>12, <1>f, <1>t DEF GotLeftNotDocument, SoundLogical
  <2> QED
    BY <1>12, <2>1, ValidTail DEF GotLeftNotDocument
<1>13. CASE GotLeft
  <2> DEFINE f == [Top EXCEPT !.at = "right", !.left = ctl.ref, !.items = Tail(@)]
             k == Head(Head(Top.items))
  <2>1. /\ ctl' = Parse(k) /\ stack' = Append(Under(stack), f) /\ stack # << >>
        /\ ctl.do = "return" /\ Parse(k).do = "parse" /\ ctl.ref # 0
        /\ Top.fn = "logical" /\ Top.at = "left"
    BY <1>13 DEF GotLeft, Parse, Below, Under
  <2>2. Top.items \in Seq(Element) /\ Top.items # << >> /\ ValidElements(Top.items)
    BY <1>13, <1>f, <1>t DEF GotLeft, SoundLogical
  <2>3. ValidClause[k] /\ ValidElements(Tail(Top.items)) /\ k \in Clause
        /\ Tail(Top.items) \in Seq(Element)
    BY <2>2, ValidTail, ListParts, ElementType
  <2>4. /\ f \in Frame /\ f.fn = "logical" /\ f.at = "right" /\ f.left = ctl.ref
        /\ f.right = Top.right /\ f.items = Tail(Top.items)
    BY <1>t, <2>1, <2>3, ControlCases DEF Frame, LogicalFrame
  <2>5. SoundFrame(f, FALSE)
    <3> HIDE DEF f
    <3> QED
      BY <1>f, <2>1, <2>3, <2>4 DEF SoundFrame, SoundLogical
  <2> HIDE DEF f, k
  <2>6. SoundStack(stack', FALSE, b)
    BY <1>a, <1>c, <1>f, <2>1, <2>4, <2>5, SoundSetTop
  <2> QED
    BY <1>d, <2>1, <2>3, <2>6, SoundControls
<1>14. CASE GotRightFailed
  BY <1>14, <1>f, <1>g DEF GotRightFailed
<1>15. CASE GotRight
  <2> DEFINE f == [Top EXCEPT !.at = "more", !.right = ctl.ref]
             c == Logical(Top.op, Top.items)
  <2>1. /\ ctl' = c /\ stack' = Append(Under(stack), f) /\ stack # << >>
        /\ ctl.do = "return" /\ c.do = "logical" /\ ctl.ref # 0
        /\ Top.fn = "logical" /\ Top.at = "right" /\ c.items = Top.items
    BY <1>15 DEF GotRight, Logical, Below, Under
  <2>2. /\ f \in Frame /\ f.fn = "logical" /\ f.at = "more" /\ f.left = Top.left
        /\ f.right = ctl.ref /\ f.items = Top.items
    BY <1>t, <2>1, ControlCases DEF Frame, LogicalFrame
  <2>3. SoundFrame(f, FALSE) /\ ValidElements(Top.items)
    <3> HIDE DEF f
    <3> QED
      BY <1>f, <2>1, <2>2 DEF SoundFrame, SoundLogical
  <2> HIDE DEF f, c
  <2>4. SoundStack(stack', FALSE, b) /\ Len(stack') = Len(stack) /\ stack'[Len(stack)] = f
    BY <1>a, <1>c, <1>f, <2>1, <2>2, <2>3, SoundSetTop
  <2>5. SoundControl(c, stack', b)
    BY <1>f, <2>1, <2>2, <2>3, <2>4 DEF SoundControl, EndExpected
  <2> QED
    BY <1>d, <2>1, <2>4, <2>5
<1>16. CASE GotNoMore
  <2>1. /\ ctl' = Return(Fresh) /\ stack' = Below /\ stack # << >>
        /\ ctl.do \in {"return", "loop"} /\ Return(Fresh).do = "return"
    BY <1>16 DEF GotNoMore, Return
  <2> QED
    BY <1>a, <1>d, <1>f, <2>1, SoundControls
<1>17. CASE GotMore
  <2>1. /\ ctl' = Return(Fresh + 1) /\ stack' = Below /\ stack # << >>
        /\ ctl.do = "return" /\ Return(Fresh + 1).do = "return"
    BY <1>17 DEF GotMore, Return
  <2> QED
    BY <1>a, <1>d, <1>f, <2>1, SoundControls
<1>18. CASE GotNot
  <2>1. ctl.ref # 0
    BY <1>18, <1>f, <1>g DEF GotNot
  <2>2. /\ ctl' = Return(Fresh) /\ stack' = Below /\ stack # << >>
        /\ ctl.do = "return" /\ Return(Fresh).do = "return"
    BY <1>18, <2>1 DEF GotNot, Return
  <2> QED
    BY <1>a, <1>d, <1>f, <2>2, SoundControls
<1>19. CASE GotExists
  <2>1. /\ ctl' = Return(Fresh) /\ stack' = Below /\ stack # << >>
        /\ ctl.do \in {"return", "loop"} /\ Return(Fresh).do = "return"
    BY <1>19 DEF GotExists, Return
  <2> QED
    BY <1>a, <1>d, <1>f, <2>1, SoundControls
<1>i. ASSUME stack # << >>, ctl.do = "loop", Top.fn = "cond", Top.items # << >>
      PROVE  /\ Top.items \in Seq([part : Part, elem : Element])
             /\ Head(Top.items).elem \in Element /\ Head(Top.items).elem # << >>
             /\ Head(Top.items).part \in Part
             /\ ValidClause[Head(Head(Top.items).elem)]
             /\ Tail(Top.items) \in Seq([part : Part, elem : Element])
  <2>1. Top.items \in Seq([part : Part, elem : Element])
    BY <1>i, <1>t DEF CondFrame
  <2>2. /\ 1 \in DOMAIN Top.items /\ Head(Top.items) = Top.items[1]
        /\ Head(Top.items) \in [part : Part, elem : Element]
        /\ Tail(Top.items) \in Seq([part : Part, elem : Element])
    BY <1>i, <2>1, ListParts
  <2>3. ValidElement(Head(Top.items).elem)
    BY <1>f, <1>i, <2>2 DEF SoundCond
  <2> QED
    BY <2>1, <2>2, <2>3 DEF ValidElement, First
<1>20. CASE CondSkip
  BY <1>20, <1>i DEF CondSkip
<1>21. CASE CondPart
  <2> DEFINE f == [Top EXCEPT !.items = Tail(@), !.at = Head(Top.items).part]
             k == Head(Head(Top.items).elem)
             p == Head(Top.items).part
             was == ctl.do = "loop"
  <2>1. /\ ctl' = Parse(k) /\ stack' = Append(Under(stack), f) /\ stack # << >>
        /\ ctl.do = "loop" /\ Parse(k).do = "parse" /\ Top.fn = "cond" /\ Top.items # << >>
    BY <1>21 DEF CondPart, Parse, Below, Under
  <2>2. /\ f \in Frame /\ f.fn = "cond" /\ f.at = p /\ f.items = Tail(Top.items)
        /\ f.got = Top.got /\ f.ok = Top.ok
    BY <1>i, <1>t, <2>1 DEF Frame, CondFrame
  <2>3. k \in Clause /\ ValidClause[k]
    BY <1>i, <2>1, ElementType
  <2>4. SoundCond(f, {p})
    <3>1. SoundCond(Top, {})
      BY <1>f, <2>1
    <3>2. /\ 1 \in DOMAIN Top.items /\ Head(Top.items) = Top.items[1]
          /\ \A i \in DOMAIN Tail(Top.items) :
               i + 1 \in DOMAIN Top.items /\ i + 1 # 1 /\ Tail(Top.items)[i] = Top.items[i + 1]
          /\ \A i \in DOMAIN Top.items :
               i = 1 \/ (i - 1 \in DOMAIN Tail(Top.items) /\ Top.items[i] = Tail(Top.items)[i - 1])
      BY <1>i, <2>1, ListParts
    <3>3. \A i, j \in DOMAIN f.items : f.items[i].part = f.items[j].part => i = j
      <4> SUFFICES ASSUME NEW i \in DOMAIN f.items, NEW j \in DOMAIN f.items,
                          f.items[i].part = f.items[j].part
                   PROVE  i = j
        OBVIOUS
      <4>1. i + 1 = j + 1
        BY <2>2, <3>1, <3>2 DEF SoundCond
      <4>2. i \in Nat /\ j \in Nat
        BY <1>i, <2>1, <2>2, InSeq
      <4> QED
        BY <4>1, <4>2
    <3>4. p \notin PartsLeft(f)
      BY <2>2, <3>1, <3>2 DEF SoundCond, PartsLeft
    <3>5. PartsLeft(Top) = PartsLeft(f) \cup {p}
      <4> HIDE DEF f
      <4>1. ASSUME NEW i \in DOMAIN Top.items
            PROVE  Top.items[i].part \in PartsLeft(f) \cup {p}
        BY <2>2, <3>2 DEF PartsLeft
      <4>2. ASSUME NEW i \in DOMAIN f.items PROVE f.items[i].part \in PartsLeft(Top)
        BY <2>2, <3>2 DEF PartsLeft
      <4>3. p \in PartsLeft(Top)
        BY <3>2 DEF PartsLeft
      <4>4. PartsLeft(Top) \subseteq PartsLeft(f) \cup {p}
        BY <4>1 DEF PartsLeft
      <4>5. PartsLeft(f) \subseteq PartsLeft(Top)
        BY <4>2 DEF PartsLeft
      <4> QED
        BY <4>3, <4>4, <4>5
    <3>6. \A i \in DOMAIN f.items : ValidElement(f.items[i].elem)
      BY <2>2, <3>1, <3>2 DEF SoundCond
    <3> HIDE DEF f, p
    <3> QED
      BY <2>2, <3>1, <3>3, <3>4, <3>5, <3>6 DEF SoundCond
  <2>5. SoundFrame(f, FALSE)
    <3> HIDE DEF f
    <3> QED
      BY <2>2, <2>4 DEF SoundFrame
  <2>6. SoundStack(stack', FALSE, b)
    <3>1. was \in BOOLEAN /\ SoundStack(stack, was, b)
      BY <1>b
    <3> HIDE DEF f, was
    <3> QED
      BY <1>a, <1>f, <2>1, <2>2, <2>5, <3>1, SoundSetTop
  <2> HIDE DEF k
  <2> QED
    BY <1>d, <2>1, <2>3, <2>6, SoundControls
<1>22. CASE GotCondPart
  <2> DEFINE f == [Top EXCEPT !.got[Top.at] = ctl.ref,
                              !.ok = IF ctl.ref = 0 THEN @ ELSE @ \cup {Top.at}]
  <2>1. /\ ctl' = [do |-> "loop"] /\ stack' = Append(Under(stack), f) /\ stack # << >>
        /\ ctl.do = "return" /\ Top.fn = "cond"
    BY <1>22 DEF GotCondPart, Below, Under
  <2>2. ctl.ref # 0 /\ ctl.ref \in Ref
    BY <1>f, <1>g, <2>1, ControlCases
  <2>3. /\ Top \in CondFrame /\ Top.at \in Part /\ Top.got \in [Part -> Ref]
        /\ Top.ok \in SUBSET Part
    BY <1>t, <2>1 DEF CondFrame
  <2>4. /\ f \in Frame /\ f.fn = "cond" /\ f.items = Top.items
        /\ f.ok = Top.ok \cup {Top.at} /\ f.got = [Top.got EXCEPT ![Top.at] = ctl.ref]
    BY <2>2, <2>3 DEF Frame, CondFrame
  <2>5. \A p \in Part : f.got[p] = IF p = Top.at THEN ctl.ref ELSE Top.got[p]
    <3> HIDE DEF f
    <3> QED
      BY <2>3, <2>4
  <2>6. SoundCond(Top, {Top.at})
    BY <1>f, <2>1
  <2> HIDE DEF f
  <2>7. SoundCond(f, {})
    <3>1. PartsLeft(f) = PartsLeft(Top)
      BY <2>4 DEF PartsLeft
    <3> QED
      BY <2>2, <2>3, <2>4, <2>5, <2>6, <3>1 DEF SoundCond
  <2>8. SoundFrame(f, TRUE)
    BY <2>4, <2>7 DEF SoundFrame
  <2>9. SoundStack(stack', TRUE, b)
    BY <1>a, <1>c, <1>f, <2>1, <2>4, <2>8, SoundSetTop
  <2> QED
    BY <1>e, <2>1, <2>9
<1>23. CASE CondComplete
  <2>1. /\ ctl' = Return(Fresh) /\ stack' = Below /\ stack # << >>
        /\ ctl.do \in {"return", "loop"} /\ Return(Fresh).do = "return"
    BY <1>23 DEF CondComplete, Return
  <2> QED
    BY <1>a, <1>d, <1>f, <2>1, SoundControls
<1>24. CASE CondIncomplete
  <2>1. stack # << >> /\ Top.fn = "cond" /\ Top.items = << >> /\ Top.ok # Part /\ ctl.do = "loop"
    BY <1>24 DEF CondIncomplete
  <2>2. SoundCond(Top, {}) /\ PartsLeft(Top) = {}
    BY <1>f, <2>1 DEF PartsLeft
  <2> QED
    BY <2>1, <2>2 DEF SoundCond
<1>25. CASE Finish
  <2>1. ctl.do = "return" /\ stack = << >> /\ stack' = stack
    BY <1>25 DEF Finish
  <2>2. ctl.ref # 0
    BY <1>a, <1>g, <2>1 DEF EndExpected
  <2>3. ctl' = [do |-> "compiled", root |-> ctl.ref]
    BY <1>25, <2>2 DEF Finish
  <2>4. SoundControl([do |-> "compiled", root |-> ctl.ref], stack', b)
    BY DEF SoundControl
  <2> QED
    BY <1>c, <1>d, <2>1, <2>3, <2>4
<1> QED
  BY <1>1, <1>2, <1>3, <1>4, <1>5, <1>6, <1>7, <1>8, <1>9, <1>10, <1>11, <1>12,
     <1>13, <1>14, <1>15, <1>16, <1>17, <1>18, <1>19, <1>20, <1>21, <1>22, <1>23,
     <1>24, <1>25 DEF Step
-----------------------------------------------------------------------------
\* What a step does to the callers.
LEMMA StackMoves ==
  ASSUME Step
  PROVE  /\ query' = query
         /\ \/ stack' = stack
            \/ \E f : stack' = Append(stack, f) /\ (f.fn = "cond" => ParseCond)
            \/ stack # << >> /\ stack' = Below /\ ctl.do # "parse"
            \/ /\ stack # << >> /\ ctl.do # "parse"
               /\ \E f : stack' = Append(Below, f) /\ f.fn = Top.fn
<1> USE DEF Parsing, Push, Pop, SetTop, Alloc, Fail, Returning, ReturningAt, Looping
<1>1. CASE ParseLeaf \/ ParseBad \/ ParseExistsEmpty \/ ParseLogical \/ LogicalEmpty
             \/ LogicalNotDocument \/ CondIncomplete \/ Finish
  BY <1>1 DEF ParseLeaf, ParseBad, ParseExistsEmpty, ParseLogical, LogicalEmpty,
     LogicalNotDocument, CondIncomplete, Finish
<1>2. CASE ParseNot
  <2> DEFINE f == [fn |-> "not"]
  <2>1. stack' = Append(stack, f) /\ query' = query /\ f.fn # "cond"
    BY <1>2 DEF ParseNot
  <2> QED
    BY <2>1
<1>3. CASE ParseExists
  <2> DEFINE f == [fn |-> "exists", atom |-> ctl.clause.atom]
  <2>1. stack' = Append(stack, f) /\ query' = query /\ f.fn # "cond"
    BY <1>3 DEF ParseExists
  <2> QED
    BY <2>1
<1>4. CASE ParseCond
  <2>1. (\E f : stack' = Append(stack, f)) /\ query' = query
    BY <1>4 DEF ParseCond
  <2> QED
    BY <1>4, <2>1
<1>5. CASE LogicalLeft
  <2> DEFINE f == [fn |-> "logical", op |-> ctl.op, items |-> Tail(ctl.items),
                   at |-> "left", left |-> 0, right |-> 0]
  <2>1. stack' = Append(stack, f) /\ query' = query /\ f.fn # "cond"
    BY <1>5 DEF LogicalLeft
  <2> QED
    BY <2>1
<1>6. CASE GotLeftLast \/ GotLeftNotDocument \/ GotRightFailed \/ GotNoMore \/ GotMore
             \/ GotNot \/ GotExists \/ CondComplete
  BY <1>6 DEF GotLeftLast, GotLeftNotDocument, GotRightFailed, GotNoMore, GotMore,
     GotNot, GotExists, CondComplete
<1>7. CASE GotLeft
  <2> DEFINE f == [Top EXCEPT !.at = "right", !.left = ctl.ref, !.items = Tail(@)]
  <2>1. /\ stack' = Append(Below, f) /\ query' = query /\ f.fn = Top.fn
        /\ stack # << >> /\ ctl.do # "parse"
    BY <1>7 DEF GotLeft
  <2> QED
    BY <2>1
<1>8. CASE GotRight
  <2> DEFINE f == [Top EXCEPT !.at = "more", !.right = ctl.ref]
  <2>1. /\ stack' = Append(Below, f) /\ query' = query /\ f.fn = Top.fn
        /\ stack # << >> /\ ctl.do # "parse"
    BY <1>8 DEF GotRight
  <2> QED
    BY <2>1
<1>9. CASE CondSkip
  <2> DEFINE f == [Top EXCEPT !.items = Tail(@)]
  <2>1. /\ stack' = Append(Below, f) /\ query' = query /\ f.fn = Top.fn
        /\ stack # << >> /\ ctl.do # "parse"
    BY <1>9 DEF CondSkip
  <2> QED
    BY <2>1
<1>10. CASE CondPart
  <2> DEFINE f == [Top EXCEPT !.items = Tail(@), !.at = Head(Top.items).part]
  <2>1. /\ stack' = Append(Below, f) /\ query' = query /\ f.fn = Top.fn
        /\ stack # << >> /\ ctl.do # "parse"
    BY <1>10 DEF CondPart
  <2> QED
    BY <2>1
<1>11. CASE GotCondPart
  <2> DEFINE f == [Top EXCEPT !.got[Top.at] = ctl.ref,
                              !.ok = IF ctl.ref = 0 THEN @ ELSE @ \cup {Top.at}]
  <2>1. /\ stack' = Append(Below, f) /\ query' = query /\ f.fn = Top.fn
        /\ stack # << >> /\ ctl.do # "parse"
    BY <1>11 DEF GotCondPart
  <2> QED
    BY <2>1
<1> QED
  BY <1>1, <1>2, <1>3, <1>4, <1>5, <1>6, <1>7, <1>8, <1>9, <1>10, <1>11 DEF Step

\* A clause of the query is found behind every $cond in the making.
LEMMA CondsKnownStep ==
  ASSUME TypeOK, TypeOK', Step, CondsKnown, ReadsOnly
  PROVE  CondsKnown'
<1>1. query' = query /\ Read' = Read
  BY StackMoves DEF Read
<1>a. /\ stack \in Seq(Frame) /\ Len(stack) \in Nat /\ DOMAIN stack = 1 .. Len(stack)
      /\ stack' \in Seq(Frame) /\ Len(stack') \in Nat /\ DOMAIN stack' = 1 .. Len(stack')
  BY InSeq DEF TypeOK
<1> SUFFICES ASSUME NEW k \in DOMAIN stack', stack'[k].fn = "cond"
             PROVE  \E c \in Read : c.kind = "cond" /\ (ValidClause[c] => SoundAbove(k - 1)')
  BY <1>1 DEF CondsKnown
<1>2. ASSUME k \in DOMAIN stack, stack[k].fn = "cond"
      PROVE  \E c \in Read : c.kind = "cond" /\ (ValidClause[c] => SoundAbove(k - 1)')
  <2>1. PICK c \in Read : c.kind = "cond" /\ (ValidClause[c] => SoundAbove(k - 1))
    BY <1>2 DEF CondsKnown
  <2>2. k - 1 \in 0 .. Len(stack) /\ k - 1 < Len(stack) /\ k - 1 <= Len(stack')
    BY <1>a, <1>2
  <2>3. SoundAbove(k - 1) => SoundAbove(k - 1)'
    <3> DEFINE b == k - 1
    <3>1. b \in 0 .. Len(stack) /\ b < Len(stack) /\ b <= Len(stack')
      BY <2>2
    <3> HIDE DEF b
    <3>2. SoundAbove(b) => SoundAbove(b)'
      BY <3>1, SoundStep
    <3> QED
      BY <3>2 DEF b
  <2> QED
    BY <2>1, <2>3
<1>3. CASE stack' = stack
  BY <1>2, <1>3
<1>4. CASE \E f : stack' = Append(stack, f) /\ (f.fn = "cond" => ParseCond)
  <2>1. PICK f : stack' = Append(stack, f) /\ (f.fn = "cond" => ParseCond)
    BY <1>4
  <2>2. /\ Len(stack') = Len(stack) + 1 /\ stack'[Len(stack) + 1] = f
        /\ \A l \in 1 .. Len(stack) : stack'[l] = stack[l]
    BY <1>a, <2>1
  <2>3. CASE k \in 1 .. Len(stack)
    BY <1>2, <1>a, <2>2, <2>3
  <2>4. CASE k = Len(stack) + 1
    <3>1. ParseCond
      BY <2>1, <2>2, <2>4
    <3>2. ctl.clause \in Read /\ ctl.clause.kind = "cond" /\ ctl.do = "parse"
      BY <3>1 DEF ParseCond, Parsing, ReadsOnly
    <3>3. ASSUME ValidClause[ctl.clause] PROVE SoundAbove(k - 1)'
      <4>1. SoundAbove(Len(stack))
        BY <1>a, <3>2, <3>3 DEF SoundAbove, SoundStack, SoundControl
      <4>2. SoundAbove(Len(stack)) => SoundAbove(k - 1)'
        <5> DEFINE b == Len(stack)
                   d == k - 1
        <5>1. b \in 0 .. Len(stack) /\ b <= Len(stack') /\ d \in 0 .. Len(stack)
              /\ d <= Len(stack') /\ d = b
          BY <1>a, <2>2, <2>4
        <5>2. SoundAbove(d)
          BY <4>1, <5>1
        <5> HIDE DEF b, d
        <5>3. SoundAbove(d)'
          BY <3>2, <5>1, <5>2, SoundStep
        <5> QED
          BY <5>3 DEF d
      <4> QED
        BY <4>1, <4>2
    <3> QED
      BY <3>2, <3>3
  <2> QED
    BY <1>a, <2>2, <2>3, <2>4
<1>5. CASE stack # << >> /\ stack' = Below
  <2>1. k \in DOMAIN stack /\ stack'[k] = stack[k]
    BY <1>a, <1>5, TopType
  <2> QED
    BY <1>2, <2>1
<1>6. CASE stack # << >> /\ \E f : stack' = Append(Below, f) /\ f.fn = Top.fn
  <2>1. PICK f : stack' = Append(Below, f) /\ f.fn = Top.fn
    BY <1>6
  <2>2. /\ Below \in Seq(Frame) /\ Len(stack) \in Nat \ {0} /\ Len(Below) = Len(stack) - 1
        /\ \A l \in 1 .. Len(stack) - 1 : Below[l] = stack[l]
    BY <1>6, TopType
  <2>3. /\ Len(stack') = Len(stack) /\ stack'[Len(stack)] = f
        /\ \A l \in 1 .. Len(stack) - 1 : stack'[l] = stack[l]
    BY <2>1, <2>2
  <2>4. k \in DOMAIN stack
    BY <1>a, <2>3
  <2>5. stack'[k].fn = stack[k].fn
    <3>1. CASE k = Len(stack)
      BY <2>1, <2>3, <3>1 DEF Top
    <3>2. CASE k # Len(stack)
      <4>1. k \in 1 .. Len(stack) - 1
        BY <1>a, <2>4, <3>2
      <4> QED
        BY <2>3, <4>1
    <3> QED
      BY <3>1, <3>2
  <2> QED
    BY <1>2, <2>4, <2>5
<1> QED
  BY <1>3, <1>4, <1>5, <1>6, StackMoves

\* The rest of a list, and its first.
LEMMA ReadsTail ==
  /\ \A es \in Seq(Element) : es # << >> /\ Reads(es) =>
       /\ Head(es) # << >> => Head(Head(es)) \in Read
       /\ Reads(Tail(es))
  /\ \A ps \in Seq([part : Part, elem : Element]) : ps # << >> /\ ReadsParts(ps) =>
       /\ Head(ps).elem # << >> => Head(Head(ps).elem) \in Read
       /\ ReadsParts(Tail(ps))
<1>1. ASSUME NEW es \in Seq(Element), es # << >>, Reads(es)
      PROVE  /\ Head(es) # << >> => Head(Head(es)) \in Read
             /\ Reads(Tail(es))
  BY <1>1, ListParts DEF Reads, First
<1>2. ASSUME NEW ps \in Seq([part : Part, elem : Element]), ps # << >>, ReadsParts(ps)
      PROVE  /\ Head(ps).elem # << >> => Head(Head(ps).elem) \in Read
             /\ ReadsParts(Tail(ps))
  <2> DEFINE T == [part : Part, elem : Element]
  <2>1. ps \in Seq(T)
    BY <1>2
  <2> HIDE DEF T
  <2>2. /\ 1 \in DOMAIN ps /\ Head(ps) = ps[1]
        /\ \A i \in DOMAIN Tail(ps) : i + 1 \in DOMAIN ps /\ Tail(ps)[i] = ps[i + 1]
    BY <1>2, <2>1, ListParts
  <2> QED
    BY <1>2, <2>2 DEF ReadsParts, First
<1> QED
  BY <1>1, <1>2

\* The parser reads on in the query.
LEMMA ReadsStep ==
  ASSUME TypeOK, TypeOK', Step, ReadsOnly
  PROVE  ReadsOnly'
<1> USE DEF Parsing, Push, Pop, SetTop, Alloc, Fail, Returning, ReturningAt, Looping
<1> DEFINE G == {f \in Frame : ReadsFrame(f)}
<1>1. query' = query /\ Read' = Read
  BY StackMoves DEF Read
<1>a. /\ stack \in Seq(Frame) /\ stack' \in Seq(Frame) /\ query \in Seq(Clause)
      /\ \A k \in DOMAIN stack : stack[k] \in G
      /\ DOMAIN stack = 1 .. Len(stack) /\ Len(stack) \in Nat
  BY InSeq DEF TypeOK, ReadsOnly
<1>b. stack \in Seq(G)
  BY <1>a
<1>c. ASSUME NEW c, ctl' = c, c.do = "parse" => c.clause \in Read,
             c.do = "logical" => Reads(c.items), stack' \in Seq(G)
      PROVE  ReadsOnly'
  <2>1. \A k \in DOMAIN stack' : stack'[k] \in G
    BY <1>c, InSeq
  <2> QED
    BY <1>1, <1>c, <2>1 DEF ReadsOnly, ReadsFrame, Reads, ReadsParts
<1>d. \A c \in Read : c \in Clause /\ Subs(c) \subseteq Read
  BY <1>a, ReadClosed
<1>e. ctl.do = "parse" => ctl.clause \in Read /\ ctl.clause \in Clause
  BY <1>d DEF ReadsOnly
<1>f. ASSUME stack # << >>
      PROVE  /\ Below \in Seq(G) /\ Top \in G /\ Top \in Frame
             /\ Top.fn = "logical" =>
                  Top \in LogicalFrame /\ Top.items \in Seq(Element) /\ Reads(Top.items)
             /\ Top.fn = "cond" =>
                  /\ Top \in CondFrame /\ Top.items \in Seq([part : Part, elem : Element])
                  /\ ReadsParts(Top.items)
  <2>1. Below \in Seq(G) /\ Top \in G
    <3> HIDE DEF G
    <3> QED
      BY <1>b, <1>f, FrontOfSeq DEF Below, Top
  <2> QED
    BY <2>1, FrameCases DEF ReadsFrame, LogicalFrame, CondFrame
<1>g. ASSUME NEW f, f.fn \in {"not", "exists"} PROVE ReadsFrame(f)
  BY <1>g DEF ReadsFrame
<1>h. ASSUME NEW s \in Seq(G), NEW f \in Frame, stack' = Append(s, f), ReadsFrame(f)
      PROVE  stack' \in Seq(G)
  <2>1. f \in G
    BY <1>h
  <2> HIDE DEF G
  <2> QED
    BY <1>h, <2>1
<1> HIDE DEF G
<1>2. CASE ParseLeaf \/ ParseExistsEmpty \/ ParseBad \/ LogicalEmpty \/ LogicalNotDocument
             \/ CondIncomplete \/ Finish
  <2>1. stack' = stack /\ ctl'.do \notin {"parse", "logical"}
    BY <1>2 DEF ParseLeaf, ParseExistsEmpty, ParseBad, LogicalEmpty, LogicalNotDocument,
       CondIncomplete, Finish, Return, Aborted
  <2> QED
    BY <1>b, <1>c, <2>1
<1>3. CASE ParseNot
  <2> DEFINE f == [fn |-> "not"]
  <2>1. /\ ctl' = Parse(ctl.clause.kid) /\ stack' = Append(stack, f)
        /\ ctl.clause.kid \in Read
    BY <1>3, <1>d, <1>e DEF ParseNot, Subs
  <2>2. f \in Frame /\ ReadsFrame(f)
    BY DEF Frame, NotFrame, ReadsFrame
  <2> HIDE DEF f
  <2> QED
    BY <1>b, <1>c, <1>h, <2>1, <2>2 DEF Parse
<1>4. CASE ParseExists
  <2> DEFINE f == [fn |-> "exists", atom |-> ctl.clause.atom]
  <2>1. /\ ctl' = Parse(Head(ctl.clause.spec)) /\ stack' = Append(stack, f)
        /\ Head(ctl.clause.spec) \in Subs(ctl.clause)
    BY <1>4 DEF ParseExists, Subs, First
  <2>2. f \in Frame /\ ReadsFrame(f)
    BY <1>4, <1>e, ClauseAssumption DEF ParseExists, Frame, ExistsFrame, ReadsFrame
  <2>3. Head(ctl.clause.spec) \in Read
    BY <1>4, <1>d, <1>e, <2>1 DEF ParseExists
  <2> HIDE DEF f
  <2> QED
    BY <1>b, <1>c, <1>h, <2>1, <2>2, <2>3 DEF Parse
<1>5. CASE ParseLogical
  <2>1. ctl' = Logical(ctl.clause.op, ctl.clause.elems) /\ stack' = stack
    BY <1>5 DEF ParseLogical
  <2>2. \A i \in DOMAIN ctl.clause.elems : ctl.clause.elems[i] # << >> =>
           First(ctl.clause.elems[i]) \in Subs(ctl.clause)
    BY <1>5 DEF ParseLogical, Subs
  <2>3. Reads(ctl.clause.elems)
    BY <1>5, <1>d, <1>e, <2>2 DEF ParseLogical, Reads
  <2> QED
    BY <1>b, <1>c, <2>1, <2>3 DEF Logical
<1>6. CASE ParseCond
  <2> DEFINE f == [fn |-> "cond", items |-> ctl.clause.parts, at |-> "if",
                   got |-> [p \in Part |-> 0], ok |-> {}]
  <2>1. ctl' = [do |-> "loop"] /\ stack' = Append(stack, f)
    BY <1>6 DEF ParseCond
  <2>2. f \in Frame
    <3>1. ctl.clause.parts \in Seq([part : Part, elem : Element])
      BY <1>6, <1>e, ClauseAssumption DEF ParseCond
    <3> QED
      BY <3>1 DEF Frame, CondFrame, Part
  <2>3. \A i \in DOMAIN ctl.clause.parts : ctl.clause.parts[i].elem # << >> =>
           First(ctl.clause.parts[i].elem) \in Subs(ctl.clause)
    BY <1>6 DEF ParseCond, Subs
  <2>4. ReadsParts(ctl.clause.parts)
    BY <1>6, <1>d, <1>e, <2>3 DEF ParseCond, ReadsParts
  <2>5. ReadsFrame(f)
    BY <2>4 DEF ReadsFrame
  <2> HIDE DEF f
  <2> QED
    BY <1>b, <1>c, <1>h, <2>1, <2>2, <2>5
<1>7. CASE LogicalLeft
  <2> DEFINE f == [fn |-> "logical", op |-> ctl.op, items |-> Tail(ctl.items),
                   at |-> "left", left |-> 0, right |-> 0]
             k == Head(Head(ctl.items))
  <2>1. ctl' = Parse(k) /\ stack' = Append(stack, f)
    BY <1>7 DEF LogicalLeft
  <2>2. ctl.items \in Seq(Element) /\ ctl.items # << >> /\ ctl.op \in Opcode /\ Reads(ctl.items)
    BY <1>7, ControlCases DEF LogicalLeft, ReadsOnly
  <2>3. k \in Read /\ Reads(Tail(ctl.items)) /\ Tail(ctl.items) \in Seq(Element)
    BY <1>7, <2>2, ReadsTail, ListParts DEF LogicalLeft
  <2>4. f \in Frame /\ ReadsFrame(f)
    BY <2>2, <2>3 DEF Frame, LogicalFrame, ReadsFrame
  <2> HIDE DEF f, k
  <2> QED
    BY <1>b, <1>c, <1>h, <2>1, <2>3, <2>4 DEF Parse
<1>8. CASE GotLeftLast \/ GotLeftNotDocument \/ GotRightFailed \/ GotNoMore \/ GotMore
             \/ GotNot \/ GotExists \/ CondComplete
  <2>1. stack # << >> /\ stack' = Below /\ ctl'.do \notin {"parse", "logical"}
    BY <1>8 DEF GotLeftLast, GotLeftNotDocument, GotRightFailed, GotNoMore, GotMore,
       GotNot, GotExists, CondComplete, Return
  <2> QED
    BY <1>c, <1>f, <2>1
<1>9. CASE GotLeft
  <2> DEFINE f == [Top EXCEPT !.at = "right", !.left = ctl.ref, !.items = Tail(@)]
             k == Head(Head(Top.items))
  <2>1. ctl' = Parse(k) /\ stack' = Append(Below, f) /\ stack # << >> /\ Top.fn = "logical"
    BY <1>9 DEF GotLeft
  <2>2. Top.items \in Seq(Element) /\ Reads(Top.items) /\ Top.items # << >> /\ Top \in LogicalFrame
    BY <1>9, <1>f DEF GotLeft
  <2>3. k \in Read /\ Reads(Tail(Top.items)) /\ Tail(Top.items) \in Seq(Element)
    BY <1>9, <2>2, ReadsTail, ListParts DEF GotLeft
  <2>4. f \in Frame /\ ReadsFrame(f)
    BY <1>9, <2>2, <2>3, ControlCases DEF GotLeft, Frame, LogicalFrame, ReadsFrame
  <2> HIDE DEF f, k
  <2> QED
    BY <1>c, <1>f, <1>h, <2>1, <2>3, <2>4 DEF Parse
<1>10. CASE GotRight
  <2> DEFINE f == [Top EXCEPT !.at = "more", !.right = ctl.ref]
  <2>1. /\ ctl' = Logical(Top.op, Top.items) /\ stack' = Append(Below, f) /\ stack # << >>
        /\ Top.fn = "logical"
    BY <1>10 DEF GotRight
  <2>2. Top.items \in Seq(Element) /\ Reads(Top.items) /\ Top \in LogicalFrame
    BY <1>f, <2>1
  <2>3. f \in Frame /\ ReadsFrame(f)
    BY <1>10, <2>2, ControlCases DEF GotRight, Frame, LogicalFrame, ReadsFrame
  <2> HIDE DEF f
  <2> QED
    BY <1>c, <1>f, <1>h, <2>1, <2>2, <2>3 DEF Logical
<1>11. CASE CondSkip
  <2> DEFINE f == [Top EXCEPT !.items = Tail(@)]
  <2>1. /\ ctl' = ctl /\ stack' = Append(Below, f) /\ stack # << >> /\ Top.fn = "cond"
        /\ ctl.do = "loop"
    BY <1>11 DEF CondSkip
  <2>2. /\ Top.items \in Seq([part : Part, elem : Element]) /\ ReadsParts(Top.items)
        /\ Top.items # << >> /\ Top \in CondFrame
    BY <1>11, <1>f DEF CondSkip
  <2>3. ReadsParts(Tail(Top.items)) /\ Tail(Top.items) \in Seq([part : Part, elem : Element])
    BY <2>2, ReadsTail, ListParts
  <2>4. f \in Frame /\ ReadsFrame(f)
    BY <2>2, <2>3 DEF Frame, CondFrame, ReadsFrame
  <2> HIDE DEF f
  <2> QED
    BY <1>c, <1>f, <1>h, <2>1, <2>4
<1>12. CASE CondPart
  <2> DEFINE f == [Top EXCEPT !.items = Tail(@), !.at = Head(Top.items).part]
             k == Head(Head(Top.items).elem)
  <2>1. ctl' = Parse(k) /\ stack' = Append(Below, f) /\ stack # << >> /\ Top.fn = "cond"
    BY <1>12 DEF CondPart
  <2>2. /\ Top.items \in Seq([part : Part, elem : Element]) /\ ReadsParts(Top.items)
        /\ Top.items # << >> /\ Top \in CondFrame
    BY <1>12, <1>f DEF CondPart
  <2>3. /\ k \in Read /\ ReadsParts(Tail(Top.items))
        /\ Tail(Top.items) \in Seq([part : Part, elem : Element])
        /\ Head(Top.items) \in [part : Part, elem : Element]
    BY <1>12, <2>2, ReadsTail, ListParts DEF CondPart
  <2>4. f \in Frame /\ ReadsFrame(f)
    BY <2>2, <2>3 DEF Frame, CondFrame, ReadsFrame
  <2> HIDE DEF f, k
  <2> QED
    BY <1>c, <1>f, <1>h, <2>1, <2>3, <2>4 DEF Parse
<1>13. CASE GotCondPart
  <2> DEFINE f == [Top EXCEPT !.got[Top.at] = ctl.ref,
                              !.ok = IF ctl.ref = 0 THEN @ ELSE @ \cup {Top.at}]
  <2>1. /\ ctl' = [do |-> "loop"] /\ stack' = Append(Below, f) /\ stack # << >>
        /\ Top.fn = "cond"
    BY <1>13 DEF GotCondPart
  <2>2. Top \in CondFrame /\ ReadsParts(Top.items) /\ stack' \in Seq(Frame)
    BY <1>a, <1>f, <2>1
  <2>3. f.fn = "cond" /\ f.items = Top.items
    BY <2>2 DEF CondFrame
  <2> HIDE DEF f
  <2>4. f \in Frame
    <3>1. Len(Below) \in Nat /\ Below \in Seq(G)
      BY <1>f, <2>1, InSeq
    <3>2. Len(Below) + 1 \in DOMAIN stack' /\ stack'[Len(Below) + 1] = f
      BY <2>1, <3>1
    <3> QED
      BY <2>2, <3>2, InSeq
  <2>5. ReadsFrame(f)
    BY <2>2, <2>3 DEF ReadsFrame
  <2> QED
    BY <1>c, <1>f, <1>h, <2>1, <2>4, <2>5
<1> QED
  BY <1>2, <1>3, <1>4, <1>5, <1>6, <1>7, <1>8, <1>9, <1>10, <1>11, <1>12, <1>13 DEF Step

\* An $exists that waits is not among the callers that pass NULL on.
LEMMA ExistsStillWaits ==
  ASSUME TypeOK, stack # << >>, Top.fn # "exists", ExistsWaits(stack)
  PROVE  ExistsWaits(Below)
<1>1. stack \in Seq(Frame) /\ Below \in Seq(Frame)
  BY TopType DEF TypeOK
<1>2. PICK k \in DOMAIN stack : stack[k].fn = "exists"
  BY DEF ExistsWaits
<1>3. k \in 1 .. Len(stack) - 1
  BY <1>1, <1>2, InSeq DEF Top
<1>4. k \in DOMAIN Below /\ Below[k] = stack[k]
  BY <1>1, <1>3, TopType, InSeq
<1> QED
  BY <1>2, <1>4 DEF ExistsWaits

\* No step loses a failure silently.
LEMMA FailsLoudlyStep ==
  ASSUME TypeOK, TypeOK', Step, ReadsOnly, FailsLoudly
  PROVE  FailsLoudly'
<1> USE DEF Parsing, Push, Pop, SetTop, Alloc, Fail, Returning, ReturningAt, Looping
<1>1. query' = query /\ Read' = Read
  BY StackMoves DEF Read
<1>2. NoSilentClause' = NoSilentClause
  BY <1>1 DEF NoSilentClause
<1> SUFFICES ASSUME NoSilentClause
             PROVE  /\ ctl'.do = "return" /\ ctl'.ref = 0 => err' \/ ExistsWaits(stack')
                    /\ ctl'.do = "failed" => err'
  BY <1>2 DEF FailsLoudly, ExistsWaits
<1>a. /\ ctl.do = "return" /\ ctl.ref = 0 => err \/ ExistsWaits(stack)
      /\ ctl.do = "failed" => err
      /\ Fresh # 0 /\ Fresh + 1 # 0
  BY DEF FailsLoudly, TypeOK, Fresh
<1>b. SetError => err' \/ ExistsWaits(stack)
  BY DEF SetError, ExistsWaits
<1>3. CASE ParseBad
  <2>1. ctl.clause.how # "silent" /\ ctl.clause.how \in {"error", "silent", "abort"}
    <3>1. ctl.clause \in Read /\ ctl.clause.kind = "bad" /\ ctl.clause \in Clause
      BY <1>3, ControlCases DEF ParseBad, ReadsOnly
    <3> QED
      BY <3>1, ClauseAssumption DEF NoSilentClause
  <2> QED
    BY <1>3, <1>b, <2>1 DEF ParseBad, Return, Aborted
<1>4. CASE LogicalEmpty \/ LogicalNotDocument
  BY <1>4, <1>b DEF LogicalEmpty, LogicalNotDocument, Return
<1>5. CASE GotLeftLast \/ GotRightFailed
  <2>1. /\ stack # << >> /\ stack' = Below /\ ctl' = ctl /\ err' = err /\ Top.fn = "logical"
        /\ ctl.do = "return"
    BY <1>5 DEF GotLeftLast, GotRightFailed
  <2> QED
    BY <1>a, <2>1, ExistsStillWaits
<1>6. CASE GotLeftNotDocument
  <2>1. stack # << >> /\ stack' = Below /\ Top.fn = "logical" /\ SetError /\ ctl' = Return(0)
    BY <1>6 DEF GotLeftNotDocument
  <2> QED
    BY <1>b, <2>1, ExistsStillWaits DEF Return
<1>7. CASE GotNot
  <2>1. /\ stack # << >> /\ stack' = Below /\ Top.fn = "not" /\ err' = err
        /\ ctl.do = "return" /\ ctl' = IF ctl.ref = 0 THEN Return(0) ELSE Return(Fresh)
    BY <1>7 DEF GotNot
  <2> QED
    BY <1>a, <2>1, ExistsStillWaits DEF Return
<1>8. CASE Finish
  <2>1. stack = << >> /\ ctl.do = "return" /\ ~ExistsWaits(stack) /\ err' = err
    BY <1>8 DEF Finish, ExistsWaits
  <2> QED
    BY <1>8, <1>a, <2>1 DEF Finish
<1>9. CASE ParseLeaf \/ ParseNot \/ ParseExistsEmpty \/ ParseExists \/ ParseLogical \/ ParseCond
             \/ LogicalLeft \/ GotLeft \/ GotRight \/ GotNoMore \/ GotMore \/ GotExists
             \/ CondSkip \/ CondPart \/ GotCondPart \/ CondComplete \/ CondIncomplete
  BY <1>9, <1>a DEF ParseLeaf, ParseNot, ParseExistsEmpty, ParseExists, ParseLogical, ParseCond,
     LogicalLeft, GotLeft, GotRight, GotNoMore, GotMore, GotExists, CondSkip, CondPart,
     GotCondPart, CondComplete, CondIncomplete, Return, Parse, Logical, Aborted
<1> QED
  BY <1>3, <1>4, <1>5, <1>6, <1>7, <1>8, <1>9 DEF Step

\* The asserts of the compiler are reached by the two sorts of clause only.
LEMMA AbortsStep ==
  ASSUME TypeOK, Step, ReadsOnly, CondsKnown
  PROVE  AbortsExplained'
<1> USE DEF Parsing, Push, Pop, SetTop, Alloc, Fail, Returning, ReturningAt, Looping
<1>1. query' = query /\ Read' = Read
  BY StackMoves DEF Read
<1>2. CASE ParseBad
  <2>1. ctl.clause \in Read /\ ctl.clause.kind = "bad"
    BY <1>2 DEF ParseBad, ReadsOnly
  <2>2. ctl'.do = "aborted" => ctl.clause.how = "abort"
    BY <1>2 DEF ParseBad, Return
  <2> QED
    BY <1>1, <2>1, <2>2 DEF AbortsExplained
<1>3. CASE CondIncomplete
  <2>1. stack # << >> /\ Top.fn = "cond" /\ Top.items = << >> /\ Top.ok # Part /\ ctl.do = "loop"
    BY <1>3 DEF CondIncomplete
  <2>2. Len(stack) \in DOMAIN stack /\ Len(stack) \in Nat \ {0}
    BY <2>1, TopType, InSeq DEF TypeOK
  <2>3. PICK c \in Read : c.kind = "cond" /\ (ValidClause[c] => SoundAbove(Len(stack) - 1))
    BY <2>1, <2>2 DEF CondsKnown, Top
  <2>4. ~SoundAbove(Len(stack) - 1)
    <3> SUFFICES ASSUME SoundAbove(Len(stack) - 1) PROVE FALSE
      OBVIOUS
    <3>1. Len(stack) \in (Len(stack) - 1) + 1 .. Len(stack)
      BY <2>2
    <3>2. SoundFrame(Top, ctl.do = "loop" /\ Len(stack) = Len(stack))
      BY <3>1 DEF SoundAbove, SoundStack, Top
    <3>3. (ctl.do = "loop" /\ Len(stack) = Len(stack)) = TRUE
      BY <2>1
    <3>4. SoundCond(Top, {}) /\ PartsLeft(Top) = {}
      BY <2>1, <3>2, <3>3 DEF SoundFrame, PartsLeft
    <3> QED
      BY <2>1, <3>4 DEF SoundCond
  <2> QED
    BY <1>1, <2>3, <2>4 DEF AbortsExplained
<1>4. CASE ~ParseBad /\ ~CondIncomplete
  <2>1. ctl.do # "aborted"
    BY DEF Step, ParseLeaf, ParseBad, ParseNot, ParseExistsEmpty, ParseExists,
       ParseLogical, ParseCond, LogicalEmpty, LogicalNotDocument, LogicalLeft, GotLeftLast,
       GotLeftNotDocument, GotLeft, GotRightFailed, GotRight, GotNoMore, GotMore, GotNot,
       GotExists, CondSkip, CondPart, GotCondPart, CondComplete, CondIncomplete, Finish
  <2>2. ctl'.do # "aborted"
    BY <1>4, <2>1 DEF Step, ParseLeaf, ParseNot, ParseExistsEmpty, ParseExists,
       ParseLogical, ParseCond, LogicalEmpty, LogicalNotDocument, LogicalLeft, GotLeftLast,
       GotLeftNotDocument, GotLeft, GotRightFailed, GotRight, GotNoMore, GotMore, GotNot,
       GotExists, CondSkip, CondPart, GotCondPart, CondComplete, Finish,
       Parse, Return, Logical
  <2> QED
    BY <2>2 DEF AbortsExplained
<1> QED
  BY <1>2, <1>3, <1>4

\* A query that is entered is read from its first clause.
LEMMA StopInit == Init => StopInv
<1> SUFFICES ASSUME Init PROVE StopInv
  OBVIOUS
<1> DEFINE es == [i \in 1 .. Len(query) |-> <<query[i]>>]
<1>1. /\ query \in Seq(Clause) /\ ctl = Logical("and", es) /\ stack = << >> /\ err = FALSE
      /\ DOMAIN query = 1 .. Len(query)
  BY QueriesAssumption, InSeq DEF Init
<1>2. ctl.do = "logical" /\ ctl.items = es
  BY <1>1 DEF Logical
<1>3. \A i \in DOMAIN es : es[i] # << >> /\ First(es[i]) = query[i] /\ i \in DOMAIN query
  BY <1>1 DEF First
<1>4. query # << >> => es # << >>
  BY <1>1
<1> HIDE DEF es
<1>5. Valid => SoundAbove(0)
  <2> SUFFICES ASSUME Valid PROVE SoundAbove(0)
    OBVIOUS
  <2>1. ValidElements(es) /\ es # << >>
    BY <1>3, <1>4 DEF Valid, ValidElements, ValidElement
  <2>2. SoundControl(ctl, stack, 0)
    BY <1>2, <2>1 DEF SoundControl
  <2>3. SoundStack(stack, ctl.do = "loop", 0)
    BY <1>1 DEF SoundStack
  <2> QED
    BY <2>2, <2>3 DEF SoundAbove
<1>6. ReadsOnly
  <2>1. Reads(es)
    BY <1>1, <1>3, ReadClosed DEF Reads
  <2> QED
    BY <1>1, <1>2, <2>1 DEF ReadsOnly
<1> QED
  BY <1>1, <1>2, <1>5, <1>6 DEF StopInv, CondsKnown, FailsLoudly, AbortsExplained

\* Every step of the compiler keeps it.
LEMMA StopNext == TypeOK /\ TypeOK' /\ StopInv /\ [Next]_vars => StopInv'
<1> SUFFICES ASSUME TypeOK, TypeOK', StopInv, [Next]_vars PROVE StopInv'
  OBVIOUS
<1>1. CASE Step
  <2>1. Valid' = Valid
    BY <1>1, StackMoves DEF Valid
  <2>2. SoundAbove(0) => SoundAbove(0)'
    <3>1. Len(stack) \in Nat /\ Len(stack') \in Nat
      BY DEF TypeOK
    <3> DEFINE b == 0
    <3>2. b \in 0 .. Len(stack) /\ b = 0 /\ b <= Len(stack')
      BY <3>1
    <3> HIDE DEF b
    <3>3. SoundAbove(b) => SoundAbove(b)'
      BY <1>1, <3>2, SoundStep
    <3> QED
      BY <3>2, <3>3
  <2> QED
    BY <1>1, <2>1, <2>2, CondsKnownStep, ReadsStep, FailsLoudlyStep, AbortsStep DEF StopInv
<1>2. CASE UNCHANGED vars
  BY <1>2 DEF vars, StopInv, Valid, SoundAbove, CondsKnown, ReadsOnly, ReadsFrame, Reads,
     ReadsParts, Read, FailsLoudly, NoSilentClause, ExistsWaits, AbortsExplained
<1> QED
  BY <1>1, <1>2 DEF Next, Stay
-----------------------------------------------------------------------------
(***************************************************************************)
(* The ops a compiler step makes.                                          *)
(***************************************************************************)
\* Every constructor fills the places of its op.
LEMMA NodeShapes ==
  /\ \A a \in Atom : Shape(LeafNode(a)) /\ Whole(LeafNode(a))
  /\ \A a \in Atom, r \in Ref : Shape(ExistsNode(a, r)) /\ Whole(ExistsNode(a, r))
  /\ \A r \in Ref : Shape(NotNode(r)) /\ (r # 0 => Whole(NotNode(r)))
  /\ \A op \in Opcode, l, r \in Ref :
       Shape(LogicalNode(op, l, r)) /\ (l # 0 /\ r # 0 => Whole(LogicalNode(op, l, r)))
  /\ \A got \in [Part -> Ref] :
       Shape(CondNode(got)) /\ ((\A p \in Part : got[p] # 0) => Whole(CondNode(got)))
<1>1. \A a \in Atom : Shape(LeafNode(a)) /\ Whole(LeafNode(a))
  BY DEF LeafNode, Shape, Whole, Opcode
<1>2. \A a \in Atom, r \in Ref : Shape(ExistsNode(a, r)) /\ Whole(ExistsNode(a, r))
  BY DEF ExistsNode, Shape, Whole, Opcode
<1>3. \A r \in Ref : Shape(NotNode(r)) /\ (r # 0 => Whole(NotNode(r)))
  BY DEF NotNode, Shape, Whole, Opcode
<1>4. \A op \in Opcode, l, r \in Ref :
       Shape(LogicalNode(op, l, r)) /\ (l # 0 /\ r # 0 => Whole(LogicalNode(op, l, r)))
  BY DEF LogicalNode, Shape, Whole, Opcode
<1>5. \A got \in [Part -> Ref] :
       Shape(CondNode(got)) /\ ((\A p \in Part : got[p] # 0) => Whole(CondNode(got)))
  BY DEF CondNode, Shape, Whole, Opcode, Part
<1> QED
  BY <1>1, <1>2, <1>3, <1>4, <1>5

\* What the callers of a valid query have got.
LEMMA SoundTop ==
  ASSUME TypeOK, SoundAbove(0)
  PROVE  /\ stack # << >> /\ Top.fn = "logical" => SoundLogical(Top)
         /\ stack # << >> /\ Top.fn = "cond" =>
              SoundCond(Top, IF ctl.do = "loop" THEN {} ELSE {Top.at})
         /\ ctl.do = "return" /\ ctl.ref = 0 =>
              stack # << >> /\ Top.fn = "logical" /\ Top.at = "more"
<1>1. ASSUME stack # << >>
      PROVE  /\ Top.fn = "logical" => SoundLogical(Top)
             /\ Top.fn = "cond" => SoundCond(Top, IF ctl.do = "loop" THEN {} ELSE {Top.at})
  <2>1. Len(stack) \in 0 + 1 .. Len(stack)
    BY <1>1, TopType
  <2>2. SoundFrame(Top, ctl.do = "loop" /\ Len(stack) = Len(stack))
    BY <2>1 DEF SoundAbove, SoundStack, Top
  <2>3. (ctl.do = "loop" /\ Len(stack) = Len(stack)) = (ctl.do = "loop")
    OBVIOUS
  <2> QED
    BY <2>2, <2>3 DEF SoundFrame
<1>2. ctl.do = "return" /\ ctl.ref = 0 => EndExpected(stack, 0)
  BY DEF SoundAbove, SoundControl
<1>3. EndExpected(stack, 0) => stack # << >> /\ Top.fn = "logical" /\ Top.at = "more"
  BY DEF EndExpected, Top
<1> QED
  BY <1>1, <1>2, <1>3

\* Ops are made at the end of the heap; of a valid query, with nothing missing.
LEMMA HeapMoves ==
  ASSUME TypeOK, Step
  PROVE  \E new \in Seq(Node) :
           /\ heap' = heap \o new
           /\ \A i \in DOMAIN new : Shape(new[i]) /\ (SoundAbove(0) => Whole(new[i]))
<1> USE DEF Parsing, Push, Pop, SetTop, Alloc, Fail, Returning, ReturningAt, Looping
<1>a. heap \in Seq(Node) /\ Fresh \in Ref /\ Fresh # 0
  BY DEF TypeOK, Fresh
<1>b. ASSUME heap' = heap
      PROVE  \E new \in Seq(Node) :
               /\ heap' = heap \o new
               /\ \A i \in DOMAIN new : Shape(new[i]) /\ (SoundAbove(0) => Whole(new[i]))
  <2>1. heap' = heap \o << >> /\ << >> \in Seq(Node) /\ DOMAIN << >> = {}
    BY <1>a, <1>b
  <2> QED
    BY <2>1
<1>c. ASSUME NEW n \in Node, heap' = Append(heap, n), Shape(n), SoundAbove(0) => Whole(n)
      PROVE  \E new \in Seq(Node) :
               /\ heap' = heap \o new
               /\ \A i \in DOMAIN new : Shape(new[i]) /\ (SoundAbove(0) => Whole(new[i]))
  <2>1. heap' = heap \o <<n>> /\ <<n>> \in Seq(Node)
    BY <1>a, <1>c
  <2>2. \A i \in DOMAIN <<n>> : <<n>>[i] = n
    OBVIOUS
  <2> QED
    BY <1>c, <2>1, <2>2
<1>t. stack # << >> =>
        /\ Top.fn = "logical" => Top.op \in Opcode /\ Top.left \in Ref /\ Top.right \in Ref
        /\ Top.fn = "exists" => Top.atom \in Atom
        /\ Top.fn = "cond" => Top.got \in [Part -> Ref]
  BY TopType, FrameCases DEF LogicalFrame, ExistsFrame, CondFrame
<1>1. CASE ParseLeaf
  <2>1. heap' = Append(heap, LeafNode(ctl.clause.atom)) /\ ctl.clause.atom \in Atom
    BY <1>1, ControlCases, ClauseAssumption DEF ParseLeaf
  <2> QED
    BY <1>c, <2>1, NodeType, NodeShapes
<1>2. CASE ParseExistsEmpty
  <2>1. heap' = Append(heap, ExistsNode(ctl.clause.atom, 0)) /\ ctl.clause.atom \in Atom
    BY <1>2, ControlCases, ClauseAssumption DEF ParseExistsEmpty
  <2> QED
    BY <1>c, <2>1, NodeType, NodeShapes
<1>3. CASE GotNoMore
  <2> DEFINE n == LogicalNode(Top.op, Top.left, Top.right)
  <2>1. heap' = Append(heap, n) /\ n \in Node /\ Shape(n)
    BY <1>3, <1>t, NodeType, NodeShapes DEF GotNoMore
  <2>2. SoundAbove(0) => Top.left # 0 /\ Top.right # 0
    BY <1>3, SoundTop DEF GotNoMore, SoundLogical
  <2>3. SoundAbove(0) => Whole(n)
    BY <1>3, <1>t, <2>2, NodeShapes DEF GotNoMore
  <2> HIDE DEF n
  <2> QED
    BY <1>c, <2>1, <2>3
<1>4. CASE GotMore
  <2> DEFINE wrap == LogicalNode(Top.op, Top.right, ctl.ref)
             root == LogicalNode(Top.op, Top.left, Fresh)
  <2>1. /\ heap' = heap \o <<wrap, root>> /\ wrap \in Node /\ root \in Node
        /\ Shape(wrap) /\ Shape(root) /\ ctl.ref # 0 /\ ctl.ref \in Ref
    BY <1>4, <1>a, <1>t, NodeType, NodeShapes, ControlCases DEF GotMore
  <2>2. SoundAbove(0) => Top.left # 0 /\ Top.right # 0
    BY <1>4, SoundTop DEF GotMore, SoundLogical
  <2>3. SoundAbove(0) => Whole(wrap) /\ Whole(root)
    BY <1>4, <1>a, <1>t, <2>1, <2>2, NodeShapes DEF GotMore
  <2> HIDE DEF wrap, root
  <2>4. <<wrap, root>> \in Seq(Node)
    BY <2>1
  <2>5. \A i \in DOMAIN <<wrap, root>> : <<wrap, root>>[i] = wrap \/ <<wrap, root>>[i] = root
    OBVIOUS
  <2> QED
    BY <2>1, <2>3, <2>4, <2>5
<1>5. CASE GotNot
  <2>1. CASE ctl.ref = 0
    BY <1>5, <1>b, <2>1 DEF GotNot
  <2>2. CASE ctl.ref # 0
    <3>1. heap' = Append(heap, NotNode(ctl.ref)) /\ ctl.ref \in Ref
      BY <1>5, <2>2, ControlCases DEF GotNot
    <3> QED
      BY <1>c, <2>2, <3>1, NodeType, NodeShapes
  <2> QED
    BY <2>1, <2>2
<1>6. CASE GotExists
  <2>1. /\ heap' = Append(heap, ExistsNode(Top.atom, ctl.ref)) /\ ctl.ref \in Ref
        /\ Top.atom \in Atom
    BY <1>6, <1>t, ControlCases DEF GotExists
  <2> QED
    BY <1>c, <2>1, NodeType, NodeShapes
<1>7. CASE CondComplete
  <2>1. /\ heap' = Append(heap, CondNode(Top.got)) /\ Top.got \in [Part -> Ref]
        /\ Top.ok = Part /\ ctl.do = "loop" /\ stack # << >> /\ Top.fn = "cond"
    BY <1>7, <1>t DEF CondComplete
  <2>2. SoundAbove(0) => \A p \in Part : Top.got[p] # 0
    BY <2>1, SoundTop DEF SoundCond
  <2> QED
    BY <1>c, <2>1, <2>2, NodeType, NodeShapes
<1>8. CASE ParseBad \/ ParseNot \/ ParseExists \/ ParseLogical \/ ParseCond
             \/ LogicalEmpty \/ LogicalNotDocument \/ LogicalLeft
             \/ GotLeftLast \/ GotLeftNotDocument \/ GotLeft \/ GotRightFailed \/ GotRight
             \/ CondSkip \/ CondPart \/ GotCondPart \/ CondIncomplete \/ Finish
  BY <1>8, <1>b DEF ParseBad, ParseNot, ParseExists, ParseLogical, ParseCond,
     LogicalEmpty, LogicalNotDocument, LogicalLeft, GotLeftLast, GotLeftNotDocument, GotLeft,
     GotRightFailed, GotRight, CondSkip, CondPart, GotCondPart, CondIncomplete, Finish
<1> QED
  BY <1>1, <1>2, <1>3, <1>4, <1>5, <1>6, <1>7, <1>8 DEF Step

\* The heap before and after.
LEMMA HeapGrows ==
  ASSUME NEW h \in Seq(Node), NEW new \in Seq(Node)
  PROVE  /\ DOMAIN h \subseteq DOMAIN (h \o new)
         /\ \A n \in DOMAIN h : (h \o new)[n] = h[n]
         /\ \A n \in DOMAIN (h \o new) :
              n \in DOMAIN h \/ \E i \in DOMAIN new : n = Len(h) + i /\ (h \o new)[n] = new[i]
<1>1. /\ Len(h) \in Nat /\ Len(new) \in Nat
      /\ DOMAIN h = 1 .. Len(h) /\ DOMAIN new = 1 .. Len(new)
      /\ DOMAIN (h \o new) = 1 .. Len(h) + Len(new)
      /\ \A n \in 1 .. Len(h) + Len(new) :
           (h \o new)[n] = IF n <= Len(h) THEN h[n] ELSE new[n - Len(h)]
  BY ConcatProperties
<1> DEFINE g == h \o new
<1> HIDE DEF g
<1>2. ASSUME NEW n \in 1 .. Len(h) + Len(new), n \notin 1 .. Len(h)
      PROVE  n - Len(h) \in 1 .. Len(new) /\ n = Len(h) + (n - Len(h))
  BY <1>1, <1>2
<1> QED
  BY <1>1, <1>2

\* A caller is pushed, the register read.
LEMMA ReachPush ==
  ASSUME NEW h \in Seq(Node), NEW s \in Seq(Frame), NEW f, Reached(h, s, 0)
  PROVE  Reached(h, Append(s, f), 0)
<1>1. DOMAIN s \subseteq DOMAIN Append(s, f) /\ \A k \in DOMAIN s : Append(s, f)[k] = s[k]
  <2>1. /\ Len(s) \in Nat /\ DOMAIN s = 1 .. Len(s)
        /\ DOMAIN Append(s, f) = 1 .. Len(s) + 1
        /\ \A k \in 1 .. Len(s) : Append(s, f)[k] = s[k]
    OBVIOUS
  <2> QED
    BY <2>1
<1> QED
  BY <1>1 DEF Reached, Has

\* The innermost caller returns, and drops nothing that the new ops do not hold.
LEMMA ReachPop ==
  ASSUME NEW h \in Seq(Node), NEW s \in Seq(Frame), NEW r, NEW new \in Seq(Node), NEW v,
         s # << >>, Reached(h, s, r),
         r \in {0, v} \/ \E i \in DOMAIN new : r \in KidsOf(new[i]),
         \A x \in Locals(s[Len(s)]) : \E i \in DOMAIN new : x \in KidsOf(new[i]),
         \A n \in DOMAIN new : n + Len(h) = v \/ \E i \in DOMAIN new : n + Len(h) \in KidsOf(new[i])
  PROVE  Reached(h \o new, Under(s), v)
<1> DEFINE g == h \o new
           t == Under(s)
<1>1. /\ DOMAIN h \subseteq DOMAIN g /\ \A n \in DOMAIN h : g[n] = h[n]
      /\ \A n \in DOMAIN g : n \in DOMAIN h \/ \E i \in DOMAIN new : n = Len(h) + i /\ g[n] = new[i]
  BY HeapGrows
<1>2. \A i \in DOMAIN new : Len(h) + i \in DOMAIN g /\ g[Len(h) + i] = new[i]
  <2> SUFFICES ASSUME NEW i \in DOMAIN new
               PROVE  Len(h) + i \in DOMAIN g /\ g[Len(h) + i] = new[i]
    OBVIOUS
  <2>1. /\ Len(h) \in Nat /\ Len(new) \in Nat /\ i \in 1 .. Len(new)
        /\ DOMAIN g = 1 .. Len(h) + Len(new)
        /\ \A n \in 1 .. Len(h) + Len(new) : g[n] = IF n <= Len(h) THEN h[n] ELSE new[n - Len(h)]
    BY ConcatProperties
  <2> HIDE DEF g
  <2>2. Len(h) + i \in 1 .. Len(h) + Len(new) /\ ~(Len(h) + i <= Len(h)) /\ (Len(h) + i) - Len(h) = i
    BY <2>1
  <2> QED
    BY <2>1, <2>2
<1>3. \A k \in DOMAIN s : k = Len(s) \/ (k \in DOMAIN t /\ t[k] = s[k])
  <2>1. /\ Len(s) \in Nat \ {0} /\ DOMAIN s = 1 .. Len(s) /\ t \in Seq(Frame)
        /\ Len(t) = Len(s) - 1 /\ \A k \in 1 .. Len(s) - 1 : t[k] = s[k]
    BY FrontType, InSeq
  <2>2. DOMAIN t = 1 .. Len(s) - 1
    BY <2>1, InSeq
  <2> HIDE DEF t
  <2> QED
    BY <2>1, <2>2
<1> HIDE DEF g, t
<1>4. \A x : (\E i \in DOMAIN new : x \in KidsOf(new[i])) => Has(g, t, v, x)
  BY <1>2 DEF Has
<1>5. ASSUME NEW n \in DOMAIN h PROVE Has(g, t, v, n)
  <2>1. Has(h, s, r, n) /\ n # 0
    BY DEF Reached
  <2>2. CASE n = r
    BY <1>4, <2>1, <2>2 DEF Has
  <2>3. CASE \E m \in DOMAIN h : n \in KidsOf(h[m])
    BY <1>1, <2>3 DEF Has
  <2>4. CASE \E k \in DOMAIN s : n \in Locals(s[k])
    <3>1. PICK k \in DOMAIN s : n \in Locals(s[k])
      BY <2>4
    <3>2. CASE k = Len(s)
      BY <1>4, <3>1, <3>2
    <3>3. CASE k \in DOMAIN t /\ t[k] = s[k]
      BY <3>1, <3>3 DEF Has
    <3> QED
      BY <1>3, <3>2, <3>3
  <2> QED
    BY <2>1, <2>2, <2>3, <2>4 DEF Has
<1>6. ASSUME NEW n \in DOMAIN g, n \notin DOMAIN h PROVE Has(g, t, v, n)
  <2>1. PICK i \in DOMAIN new : n = Len(h) + i
    BY <1>1, <1>6
  <2>2. i + Len(h) = n
    BY <2>1
  <2>3. n = v \/ \E j \in DOMAIN new : n \in KidsOf(new[j])
    BY <2>2
  <2> QED
    BY <1>4, <2>3 DEF Has
<1> QED
  BY <1>5, <1>6 DEF Reached, g, t

\* The innermost caller takes what the register holds into its locals.
LEMMA ReachSetTop ==
  ASSUME NEW h \in Seq(Node), NEW s \in Seq(Frame), NEW r, NEW f \in Frame,
         s # << >>, Reached(h, s, r), r = 0 \/ r \in Locals(f),
         Locals(s[Len(s)]) \subseteq Locals(f)
  PROVE  Reached(h, Append(Under(s), f), 0)
<1> DEFINE t == Append(Under(s), f)
<1>1. /\ Len(s) \in Nat \ {0} /\ DOMAIN s = 1 .. Len(s) /\ DOMAIN t = 1 .. Len(s)
      /\ t[Len(s)] = f /\ \A k \in 1 .. Len(s) - 1 : t[k] = s[k]
  <2>1. /\ Len(s) \in Nat \ {0} /\ DOMAIN s = 1 .. Len(s) /\ Under(s) \in Seq(Frame)
        /\ Len(Under(s)) = Len(s) - 1 /\ \A k \in 1 .. Len(s) - 1 : Under(s)[k] = s[k]
    BY FrontType, InSeq
  <2> DEFINE u == Under(s)
  <2>2. u \in Seq(Frame) /\ Len(u) = Len(s) - 1 /\ Len(u) \in Nat
    BY <2>1
  <2> HIDE DEF u
  <2>3. /\ DOMAIN Append(u, f) = 1 .. Len(u) + 1 /\ Append(u, f)[Len(u) + 1] = f
        /\ \A k \in 1 .. Len(u) : Append(u, f)[k] = u[k]
    BY <2>2
  <2>4. Len(s) \in Nat \ {0} /\ \A k \in 1 .. Len(s) - 1 : u[k] = s[k]
    BY <2>1 DEF u
  <2>5. t = Append(u, f)
    BY DEF u
  <2> HIDE DEF t
  <2>6. Len(u) + 1 = Len(s) /\ 1 .. Len(u) = 1 .. Len(s) - 1
    BY <2>2, <2>4
  <2>7. DOMAIN t = 1 .. Len(s) /\ t[Len(s)] = f /\ \A k \in 1 .. Len(s) - 1 : t[k] = u[k]
    BY <2>3, <2>5, <2>6
  <2> QED
    BY <2>1, <2>4, <2>7
<1> HIDE DEF t
<1>2. Len(s) \in DOMAIN t
  BY <1>1
<1> SUFFICES ASSUME NEW n \in DOMAIN h PROVE Has(h, t, 0, n)
  BY DEF Reached, t
<1>3. Has(h, s, r, n) /\ n # 0
  BY DEF Reached
<1>4. n \in Locals(f) => Has(h, t, 0, n)
  BY <1>1, <1>2 DEF Has
<1>5. CASE \E k \in DOMAIN s : n \in Locals(s[k])
  <2>1. PICK k \in DOMAIN s : n \in Locals(s[k])
    BY <1>5
  <2>2. CASE k = Len(s)
    BY <1>4, <2>1, <2>2
  <2>3. CASE k \in 1 .. Len(s) - 1
    <3>1. k \in DOMAIN t /\ t[k] = s[k]
      BY <1>1, <2>3
    <3> QED
      BY <2>1, <3>1 DEF Has
  <2> QED
    BY <1>1, <2>2, <2>3
<1> QED
  BY <1>3, <1>4, <1>5 DEF Has

\* An op is made of a clause that has none below.
LEMMA ReachMake ==
  ASSUME NEW h \in Seq(Node), NEW s \in Seq(Frame), NEW n \in Node, Reached(h, s, 0)
  PROVE  Reached(Append(h, n), s, Len(h) + 1)
<1> DEFINE g == Append(h, n)
<1>1. /\ Len(h) \in Nat /\ DOMAIN h = 1 .. Len(h) /\ DOMAIN g = 1 .. Len(h) + 1
      /\ \A m \in 1 .. Len(h) : g[m] = h[m]
  OBVIOUS
<1> HIDE DEF g
<1>2. \A m \in DOMAIN g : m = Len(h) + 1 \/ m \in DOMAIN h
  BY <1>1
<1>3. \A m \in DOMAIN h : m \in DOMAIN g /\ g[m] = h[m] /\ m # 0
  BY <1>1
<1> QED
  BY <1>2, <1>3 DEF Reached, Has, g

\* While a valid query compiles no op is lost.
LEMMA ReachStep ==
  ASSUME TypeOK, TypeOK', Step, SoundAbove(0), Reached(heap, stack, Held)
  PROVE  Reached(heap', stack', Held')
<1> USE DEF Parsing, Push, Pop, SetTop, Alloc, Fail, Returning, ReturningAt, Looping
<1>a. /\ stack \in Seq(Frame) /\ heap \in Seq(Node) /\ stack' \in Seq(Frame)
      /\ Len(heap) \in Nat /\ Fresh = Len(heap) + 1 /\ Fresh \in Ref /\ Fresh # 0
      /\ Below = Under(stack)
  BY DEF TypeOK, Fresh, Below, Under
<1>b. /\ ctl.do \notin {"return", "compiled"} => Held = 0
      /\ ctl.do = "return" => Held = ctl.ref
      /\ ctl'.do \notin {"return", "compiled"} => Held' = 0
      /\ ctl'.do = "return" => Held' = ctl'.ref
      /\ ctl'.do = "compiled" => Held' = ctl'.root
  BY DEF Held
<1>r. \A v : Return(v).do = "return" /\ Return(v).ref = v
  BY DEF Return
<1>t. stack # << >> =>
        /\ Top = stack[Len(stack)] /\ Top \in Frame
        /\ Top.fn = "logical" =>
             /\ Top \in LogicalFrame /\ Top.op \in Opcode /\ Top.left \in Ref /\ Top.right \in Ref
             /\ Locals(Top) = {Top.left, Top.right} \ {0}
             /\ SoundLogical(Top)
        /\ Top.fn = "exists" => Top.atom \in Atom
        /\ Top.fn = "cond" =>
             /\ Top \in CondFrame /\ Top.got \in [Part -> Ref] /\ Top.at \in Part
             /\ Locals(Top) = {Top.got[p] : p \in Part} \ {0}
             /\ SoundCond(Top, IF ctl.do = "loop" THEN {} ELSE {Top.at})
        /\ Top.fn \in {"not", "exists"} => Locals(Top) = {}
  <2>1. stack # << >> => Top \in Frame /\ Top = stack[Len(stack)]
    BY TopType DEF Top
  <2>2. Top.fn = "logical" => Locals(Top) = {Top.left, Top.right} \ {0}
    BY DEF Locals
  <2>3. Top.fn = "cond" => Locals(Top) = {Top.got[p] : p \in Part} \ {0}
    BY DEF Locals
  <2>4. Top.fn \in {"not", "exists"} => Locals(Top) = {}
    BY DEF Locals
  <2> QED
    BY <2>1, <2>2, <2>3, <2>4, SoundTop, FrameCases DEF LogicalFrame, ExistsFrame, CondFrame
<1>v. ctl.do = "return" => ctl.ref \in Ref
  BY ControlCases
<1>n. ctl.do = "return" /\ ctl.ref = 0 => stack # << >> /\ Top.fn = "logical" /\ Top.at = "more"
  BY SoundTop
\* what the actions have in common
<1>m. ASSUME NEW n \in Node, Held = 0, stack' = stack, heap' = Append(heap, n), ctl' = Return(Fresh)
      PROVE  Reached(heap', stack', Held')
  BY <1>a, <1>b, <1>r, <1>m, ReachMake
<1>p. ASSUME NEW f, Held = 0, stack' = Append(stack, f), heap' = heap, Held' = 0
      PROVE  Reached(heap', stack', Held')
  BY <1>a, <1>p, ReachPush
<1>q. ASSUME NEW n \in Node, stack # << >>, stack' = Below, heap' = Append(heap, n),
             ctl' = Return(Fresh), Held = 0 \/ Held \in KidsOf(n), Locals(Top) \subseteq KidsOf(n)
      PROVE  Reached(heap', stack', Held')
  <2> DEFINE new == <<n>>
  <2>1. heap' = heap \o new /\ new \in Seq(Node) /\ DOMAIN new = {1} /\ new[1] = n
    <3>1. heap' = Append(heap, n)
      BY <1>q
    <3> QED
      BY <1>a, <3>1
  <2>2. \A x \in KidsOf(n) : \E i \in DOMAIN new : x \in KidsOf(new[i])
    BY <2>1
  <2>3. \A i \in DOMAIN new : i + Len(heap) = Fresh
    BY <1>a, <2>1
  <2>4. Locals(stack[Len(stack)]) = Locals(Top)
    BY <1>q, <1>t
  <2> HIDE DEF new
  <2>5. Reached(heap \o new, Under(stack), Fresh)
    BY <1>a, <1>q, <2>1, <2>2, <2>3, <2>4, ReachPop
  <2> QED
    BY <1>a, <1>b, <1>r, <1>q, <2>1, <2>5
<1>s. ASSUME NEW f, stack # << >>, stack' = Append(Below, f), heap' = heap, Held' = 0,
             Held = 0 \/ Held \in Locals(f), Locals(Top) \subseteq Locals(f)
      PROVE  Reached(heap', stack', Held')
  <2>1. f \in Frame
    <3>1. Below \in Seq(Frame)
      BY <1>s, TopType
    <3>2. stack'[Len(stack')] = f /\ Len(stack') \in 1 .. Len(stack')
      BY <1>s, <3>1
    <3> QED
      BY <1>a, <3>2, ElementOfSeq
  <2>2. Locals(stack[Len(stack)]) = Locals(Top)
    BY <1>s, <1>t
  <2>3. Reached(heap, Append(Under(stack), f), 0)
    BY <1>a, <1>s, <2>1, <2>2, ReachSetTop
  <2> QED
    BY <1>a, <1>s, <2>3
<1>u. ASSUME stack' = stack, heap' = heap, Held' = Held
      PROVE  Reached(heap', stack', Held')
  BY <1>u
<1>1. CASE ParseLeaf
  <2>1. /\ heap' = Append(heap, LeafNode(ctl.clause.atom)) /\ ctl.clause.atom \in Atom
        /\ ctl' = Return(Fresh) /\ stack' = stack /\ ctl.do = "parse"
    BY <1>1, ControlCases, ClauseAssumption DEF ParseLeaf
  <2> QED
    BY <1>b, <1>m, <2>1, NodeType
<1>2. CASE ParseBad
  BY <1>2, ControlCases, ValidBelow DEF ParseBad, SoundAbove, SoundControl
<1>3. CASE ParseNot
  BY <1>3, <1>b, <1>p DEF ParseNot, Parse
<1>4. CASE ParseExistsEmpty
  <2>1. /\ heap' = Append(heap, ExistsNode(ctl.clause.atom, 0)) /\ ctl.clause.atom \in Atom
        /\ ctl' = Return(Fresh) /\ stack' = stack /\ ctl.do = "parse"
    BY <1>4, ControlCases, ClauseAssumption DEF ParseExistsEmpty
  <2> QED
    BY <1>b, <1>m, <2>1, NodeType
<1>5. CASE ParseExists
  BY <1>5, <1>b, <1>p DEF ParseExists, Parse
<1>6. CASE ParseLogical
  BY <1>6, <1>b, <1>u DEF ParseLogical, Logical
<1>7. CASE ParseCond
  BY <1>7, <1>b, <1>p DEF ParseCond
<1>8. CASE LogicalEmpty
  BY <1>8, <1>b, <1>r, <1>u DEF LogicalEmpty
<1>9. CASE LogicalNotDocument
  <2>1. ctl.items \in Seq(Element) /\ ctl.items # << >> /\ ValidElements(ctl.items)
    BY <1>9, ControlCases DEF LogicalNotDocument, SoundAbove, SoundControl
  <2> QED
    BY <1>9, <2>1, ValidTail DEF LogicalNotDocument
<1>10. CASE LogicalLeft
  BY <1>10, <1>b, <1>p DEF LogicalLeft, Parse
<1>11. CASE GotLeftLast
  <2>1. /\ stack' = Below /\ stack # << >> /\ heap' = heap /\ ctl' = ctl
        /\ ctl.do = "return" /\ Top.fn = "logical" /\ Top.at = "left"
    BY <1>11 DEF GotLeftLast
  <2>2. Locals(Top) = {}
    BY <1>t, <2>1 DEF SoundLogical
  <2> DEFINE new == << >>
  <2>3. new \in Seq(Node) /\ DOMAIN new = {} /\ heap \o new = heap
    BY <1>a
  <2>4. Locals(stack[Len(stack)]) = {}
    BY <1>t, <2>1, <2>2
  <2> HIDE DEF new
  <2>5. Reached(heap \o new, Under(stack), Held)
    BY <1>a, <2>1, <2>3, <2>4, ReachPop
  <2> QED
    BY <1>a, <1>b, <2>1, <2>3, <2>5
<1>12. CASE GotLeftNotDocument
  <2>1. Top.items \in Seq(Element) /\ Top.items # << >> /\ ValidElements(Top.items)
    BY <1>12, <1>t DEF GotLeftNotDocument, SoundLogical, LogicalFrame
  <2> QED
    BY <1>12, <2>1, ValidTail DEF GotLeftNotDocument
<1>13. CASE GotLeft
  <2> DEFINE f == [Top EXCEPT !.at = "right", !.left = ctl.ref, !.items = Tail(@)]
  <2>1. /\ stack' = Append(Below, f) /\ stack # << >> /\ heap' = heap /\ ctl'.do = "parse"
        /\ ctl.do = "return" /\ Top.fn = "logical" /\ Top.at = "left" /\ ctl.ref # 0
    BY <1>13 DEF GotLeft, Parse
  <2>2. f.fn = "logical" /\ f.left = ctl.ref /\ f.right = Top.right
    BY <1>t, <2>1 DEF LogicalFrame
  <2>3. Locals(f) = {ctl.ref, Top.right} \ {0} /\ Locals(Top) = {Top.right} \ {0}
    BY <1>t, <2>1, <2>2 DEF Locals, SoundLogical
  <2> HIDE DEF f
  <2> QED
    BY <1>b, <1>s, <2>1, <2>3
<1>14. CASE GotRightFailed
  BY <1>14, <1>n DEF GotRightFailed
<1>15. CASE GotRight
  <2> DEFINE f == [Top EXCEPT !.at = "more", !.right = ctl.ref]
  <2>1. /\ stack' = Append(Below, f) /\ stack # << >> /\ heap' = heap /\ ctl'.do = "logical"
        /\ ctl.do = "return" /\ Top.fn = "logical" /\ Top.at = "right" /\ ctl.ref # 0
    BY <1>15 DEF GotRight, Logical
  <2>2. f.fn = "logical" /\ f.right = ctl.ref /\ f.left = Top.left
    BY <1>t, <2>1 DEF LogicalFrame
  <2>3. Locals(f) = {Top.left, ctl.ref} \ {0} /\ Locals(Top) = {Top.left} \ {0}
    BY <1>t, <2>1, <2>2 DEF Locals, SoundLogical
  <2> HIDE DEF f
  <2> QED
    BY <1>b, <1>s, <2>1, <2>3
<1>16. CASE GotNoMore
  <2> DEFINE n == LogicalNode(Top.op, Top.left, Top.right)
  <2>1. /\ heap' = Append(heap, n) /\ stack' = Below /\ stack # << >> /\ ctl' = Return(Fresh)
        /\ ctl.do = "return" /\ ctl.ref = 0 /\ Top.fn = "logical"
    BY <1>16 DEF GotNoMore
  <2>2. n \in Node /\ KidsOf(n) = Locals(Top)
    <3>1. /\ Top.op \in Opcode /\ Top.left \in Ref /\ Top.right \in Ref
          /\ Locals(Top) = {Top.left, Top.right} \ {0}
      BY <1>t, <2>1
    <3> QED
      BY <3>1, NodeType, KidsOfNodes
  <2> HIDE DEF n
  <2> QED
    BY <1>b, <1>q, <2>1, <2>2
<1>17. CASE GotMore
  <2> DEFINE wrap == LogicalNode(Top.op, Top.right, ctl.ref)
             root == LogicalNode(Top.op, Top.left, Fresh)
             new == <<wrap, root>>
  <2>1. /\ heap' = heap \o new /\ stack' = Below /\ stack # << >> /\ ctl' = Return(Fresh + 1)
        /\ ctl.do = "return" /\ ctl.ref # 0 /\ Top.fn = "logical"
    BY <1>17 DEF GotMore
  <2>2. /\ wrap \in Node /\ root \in Node
        /\ KidsOf(wrap) = {Top.right, ctl.ref} \ {0} /\ KidsOf(root) = {Top.left, Fresh} \ {0}
    BY <1>a, <1>t, <1>v, <2>1, NodeType, KidsOfNodes
  <2> HIDE DEF wrap, root
  <2>3. new \in Seq(Node) /\ DOMAIN new = {1, 2} /\ new[1] = wrap /\ new[2] = root
    BY <2>2
  <2> HIDE DEF new
  <2>4. Held = ctl.ref /\ \E i \in DOMAIN new : Held \in KidsOf(new[i])
    BY <1>b, <2>1, <2>2, <2>3
  <2>5. \A x \in Locals(stack[Len(stack)]) : \E i \in DOMAIN new : x \in KidsOf(new[i])
    BY <1>t, <2>1, <2>2, <2>3
  <2>6. \A n \in DOMAIN new :
          n + Len(heap) = Fresh + 1 \/ \E i \in DOMAIN new : n + Len(heap) \in KidsOf(new[i])
    <3>1. 1 + Len(heap) = Fresh /\ 2 + Len(heap) = Fresh + 1
      BY <1>a
    <3>2. Fresh \in KidsOf(new[2])
      BY <1>a, <2>2, <2>3
    <3> QED
      BY <2>3, <3>1, <3>2
  <2>7. Reached(heap \o new, Under(stack), Fresh + 1)
    BY <1>a, <2>1, <2>3, <2>4, <2>5, <2>6, ReachPop
  <2> QED
    BY <1>a, <1>b, <1>r, <2>1, <2>7
<1>18. CASE GotNot
  <2>1. /\ stack' = Below /\ stack # << >> /\ ctl.do = "return" /\ Top.fn = "not"
        /\ ctl.ref # 0 /\ heap' = Append(heap, NotNode(ctl.ref)) /\ ctl' = Return(Fresh)
    BY <1>18, <1>n DEF GotNot
  <2> QED
    BY <1>b, <1>q, <1>t, <1>v, <2>1, NodeType, KidsOfNodes
<1>19. CASE GotExists
  <2>1. /\ stack' = Below /\ stack # << >> /\ ctl.do = "return" /\ Top.fn = "exists"
        /\ heap' = Append(heap, ExistsNode(Top.atom, ctl.ref)) /\ ctl' = Return(Fresh)
    BY <1>19 DEF GotExists
  <2> QED
    BY <1>b, <1>q, <1>t, <1>v, <2>1, NodeType, KidsOfNodes
<1>20. CASE CondSkip
  <2>1. /\ stack # << >> /\ Top.fn = "cond" /\ ctl.do = "loop" /\ Top.items # << >>
        /\ Head(Top.items).elem = << >>
    BY <1>20 DEF CondSkip
  <2>2. Top.items \in Seq([part : Part, elem : Element])
    BY <1>t, <2>1 DEF CondFrame
  <2>3. 1 \in DOMAIN Top.items /\ Head(Top.items) = Top.items[1]
    BY <2>1, <2>2, ListParts
  <2> QED
    BY <1>t, <2>1, <2>3 DEF SoundCond, ValidElement
<1>21. CASE CondPart
  <2> DEFINE f == [Top EXCEPT !.items = Tail(@), !.at = Head(Top.items).part]
  <2>1. /\ stack' = Append(Below, f) /\ stack # << >> /\ heap' = heap /\ ctl'.do = "parse"
        /\ ctl.do = "loop" /\ Top.fn = "cond"
    BY <1>21 DEF CondPart, Parse
  <2>2. f.fn = "cond" /\ f.got = Top.got
    BY <1>t, <2>1 DEF CondFrame
  <2>3. Locals(f) = Locals(Top)
    BY <1>t, <2>1, <2>2 DEF Locals
  <2> HIDE DEF f
  <2> QED
    BY <1>b, <1>s, <2>1, <2>3
<1>22. CASE GotCondPart
  <2> DEFINE f == [Top EXCEPT !.got[Top.at] = ctl.ref,
                              !.ok = IF ctl.ref = 0 THEN @ ELSE @ \cup {Top.at}]
  <2>1. /\ stack' = Append(Below, f) /\ stack # << >> /\ heap' = heap /\ ctl'.do = "loop"
        /\ ctl.do = "return" /\ Top.fn = "cond"
    BY <1>22 DEF GotCondPart
  <2>2. f.fn = "cond" /\ f.got = [Top.got EXCEPT ![Top.at] = ctl.ref]
    BY <1>t, <2>1 DEF CondFrame
  <2>3. Top.got[Top.at] = 0
    <3>1. SoundCond(Top, {Top.at})
      BY <1>t, <2>1
    <3>2. Top.at \notin Top.ok /\ Top.at \in Part
      BY <1>t, <2>1, <3>1 DEF SoundCond
    <3> QED
      BY <3>1, <3>2 DEF SoundCond
  <2>4. /\ Locals(f) = {f.got[p] : p \in Part} \ {0}
        /\ f.got[Top.at] = ctl.ref /\ \A p \in Part : p # Top.at => f.got[p] = Top.got[p]
    <3>1. Locals(f) = {f.got[p] : p \in Part} \ {0}
      BY <2>2 DEF Locals
    <3> HIDE DEF f
    <3> QED
      BY <1>t, <2>1, <2>2, <3>1
  <2> HIDE DEF f
  <2>5. Locals(Top) \subseteq Locals(f) /\ (Held = 0 \/ Held \in Locals(f))
    <3>1. \A x \in Locals(Top) : x \in Locals(f)
      BY <1>t, <2>1, <2>3, <2>4
    <3>2. Held = ctl.ref /\ (ctl.ref # 0 => ctl.ref \in Locals(f))
      BY <1>b, <1>t, <2>1, <2>4
    <3> QED
      BY <3>1, <3>2
  <2> QED
    BY <1>b, <1>s, <2>1, <2>5
<1>23. CASE CondComplete
  <2>1. /\ heap' = Append(heap, CondNode(Top.got)) /\ stack' = Below /\ stack # << >>
        /\ ctl' = Return(Fresh) /\ ctl.do = "loop" /\ Top.fn = "cond"
    BY <1>23 DEF CondComplete
  <2> QED
    BY <1>b, <1>q, <1>t, <2>1, NodeType, KidsOfNodes
<1>24. CASE CondIncomplete
  <2>1. stack # << >> /\ Top.fn = "cond" /\ ctl.do = "loop" /\ Top.items = << >> /\ Top.ok # Part
    BY <1>24 DEF CondIncomplete
  <2>2. PartsLeft(Top) = {}
    BY <2>1 DEF PartsLeft
  <2> QED
    BY <1>t, <2>1, <2>2 DEF SoundCond
<1>25. CASE Finish
  <2>1. /\ ctl.do = "return" /\ stack = << >> /\ UNCHANGED <<stack, heap>> /\ ctl.ref # 0
        /\ ctl' = [do |-> "compiled", root |-> ctl.ref]
    BY <1>25, <1>n DEF Finish
  <2> QED
    BY <1>b, <1>u, <2>1
<1> QED
  BY <1>1, <1>2, <1>3, <1>4, <1>5, <1>6, <1>7, <1>8, <1>9, <1>10, <1>11, <1>12,
     <1>13, <1>14, <1>15, <1>16, <1>17, <1>18, <1>19, <1>20, <1>21, <1>22, <1>23,
     <1>24, <1>25 DEF Step
-----------------------------------------------------------------------------
(***************************************************************************)
(* The invariant of a query's whole life.                                  *)
(***************************************************************************)
\* Every op keeps its shape, and those of a valid query are whole and reached.
LEMMA NodesStep ==
  ASSUME TypeOK, TypeOK', Step, StopInv, NodesInv
  PROVE  NodesInv'
<1>1. query' = query /\ Valid' = Valid
  BY StackMoves DEF Valid
<1>2. PICK new \in Seq(Node) :
         /\ heap' = heap \o new
         /\ \A i \in DOMAIN new : Shape(new[i]) /\ (SoundAbove(0) => Whole(new[i]))
  BY HeapMoves
<1>3. heap \in Seq(Node) /\ (Valid => SoundAbove(0))
  BY DEF TypeOK, StopInv
<1>4. \A n \in DOMAIN heap' :
        \/ n \in DOMAIN heap /\ heap'[n] = heap[n]
        \/ \E i \in DOMAIN new : heap'[n] = new[i]
  BY <1>2, <1>3, HeapGrows
<1>5. \A n \in DOMAIN heap' : Shape(heap'[n])
  BY <1>2, <1>4 DEF NodesInv
<1>6. Valid => \A n \in DOMAIN heap' : Whole(heap'[n])
  BY <1>2, <1>3, <1>4 DEF NodesInv
<1>7. Valid => Reached(heap', stack', Held')
  BY <1>3, ReachStep DEF NodesInv
<1> QED
  BY <1>1, <1>5, <1>6, <1>7 DEF NodesInv

\* A kid that is there is an op of the heap, and a whole op has all its kids.
LEMMA KidThere ==
  ASSUME TypeOK, OneOwner, NodesInv, NEW n \in DOMAIN heap
  PROVE  /\ heap[n] \in Node /\ heap[n].kids \in Seq(Ref)
         /\ \A i \in DOMAIN heap[n].kids : heap[n].kids[i] # 0 => heap[n].kids[i] \in 1 .. n - 1
         /\ \A i \in DOMAIN heap[n].kids : heap[n].kids[i] # 0 => heap[n].kids[i] \in DOMAIN heap
         /\ Valid /\ heap[n].tag # "exists" =>
              \A i \in DOMAIN heap[n].kids : heap[n].kids[i] # 0
         /\ heap[n].tag \in {"exists", "not"} => DOMAIN heap[n].kids = {1}
         /\ heap[n].tag \in Opcode => DOMAIN heap[n].kids = {1, 2}
         /\ heap[n].tag = "cond" => DOMAIN heap[n].kids = {1, 2, 3}
<1>1. heap \in Seq(Node) /\ Len(heap) \in Nat /\ DOMAIN heap = 1 .. Len(heap) /\ n \in Nat
  BY DEF TypeOK
<1>2. heap[n] \in Node
  BY <1>1
<1>3. heap[n].kids \in Seq(Nat)
  BY <1>2 DEF Node
<1>4. Grounded(heap, stack, Held)
  BY DEF OneOwner
<1>5. \A i \in DOMAIN heap[n].kids : heap[n].kids[i] # 0 => heap[n].kids[i] \in 1 .. n - 1
  BY <1>1, <1>4 DEF Grounded, KidsOf
<1>6. \A x \in 1 .. n - 1 : x \in DOMAIN heap
  BY <1>1
<1>7. Shape(heap[n])
  BY DEF NodesInv
<1>8. DOMAIN heap[n].kids = 1 .. Len(heap[n].kids)
  BY <1>3
<1>9. /\ heap[n].tag \in {"exists", "not"} => Len(heap[n].kids) = 1
      /\ heap[n].tag \in Opcode => Len(heap[n].kids) = 2
      /\ heap[n].tag = "cond" => Len(heap[n].kids) = 3
  BY <1>7 DEF Shape, Opcode
<1>10. Valid /\ heap[n].tag # "exists" => \A i \in DOMAIN heap[n].kids : heap[n].kids[i] # 0
  BY DEF NodesInv, Whole
<1>11. 1 .. 1 = {1} /\ 1 .. 2 = {1, 2} /\ 1 .. 3 = {1, 2, 3}
  OBVIOUS
<1>12. /\ heap[n].tag \in {"exists", "not"} => DOMAIN heap[n].kids = {1}
       /\ heap[n].tag \in Opcode => DOMAIN heap[n].kids = {1, 2}
       /\ heap[n].tag = "cond" => DOMAIN heap[n].kids = {1, 2, 3}
  BY <1>8, <1>9, <1>11
<1> QED
  BY <1>2, <1>3, <1>5, <1>6, <1>10, <1>12

\* A match of a valid query goes from op to op.
LEMMA MatchStep ==
  ASSUME MeaningInv, UseNext, Valid, ~Compile
  PROVE  MatchInWalk'
<1>a. /\ TypeOK /\ OneOwner /\ NodesInv /\ MatchInWalk /\ Walking
      /\ heap \in Seq(Node) /\ (ctl.do = "compiled" => ctl.root \in DOMAIN heap)
  BY CompiledTree DEF MeaningInv, UseInv, CompileInv, Inv, MatchInv, TypeOK, Tree
<1>w. act.do \in {"match", "value"} => walk \in Seq(Visit)
  BY <1>a DEF MatchInWalk
<1>v. heap' = heap => Visit' = Visit
  BY DEF Visit
<1>1. CASE StartMatch
  <2>1. /\ act' = Match(ctl.root) /\ ctl.do = "compiled" /\ walk' = walk /\ heap' = heap
        /\ act.do \in {"idle", "result"}
    BY <1>1 DEF StartMatch
  <2>2. walk' = << >> /\ << >> \in Seq(Visit)
    BY <1>a, <2>1 DEF Walking
  <2> QED
    BY <1>a, <2>1, <2>2 DEF MatchInWalk, Match, Visit
<1>2. CASE MatchLeaf
  <2>1. act'.do = "value" /\ act.do = "match" /\ walk' = walk /\ heap' = heap
    BY <1>2 DEF MatchLeaf, Matching, Value
  <2> QED
    BY <1>w, <2>1 DEF MatchInWalk, Visit
<1>3. CASE MatchExists
  <2> DEFINE n == act.node
             spec == heap[n].kids[1]
             c == [node |-> n, at |-> 1]
  <2>1. /\ act.do = "match" /\ heap[n].tag = "exists" /\ heap' = heap
        /\ \/ spec # 0 /\ walk' = Append(walk, c) /\ act' = Match(spec)
           \/ walk' = walk /\ act'.do = "value"
    BY <1>3 DEF MatchExists, Matching, Value, Tag, Kids, Enter
  <2>2. n \in DOMAIN heap
    BY <1>a, <2>1 DEF MatchInWalk
  <2>3. spec # 0 => spec \in DOMAIN heap
    BY <1>a, <2>1, <2>2, KidThere
  <2>4. c \in Visit
    BY <2>2 DEF Visit
  <2> HIDE DEF c, n
  <2>5. Append(walk, c) \in Seq(Visit) /\ walk \in Seq(Visit)
    BY <1>w, <2>1, <2>4
  <2>6. act'.do = "match" => act'.node \in DOMAIN heap
    BY <2>1, <2>3 DEF Match
  <2>7. act'.do # "aborted" /\ walk' \in Seq(Visit)
    BY <2>1, <2>5 DEF Match
  <2> QED
    BY <1>v, <2>1, <2>6, <2>7 DEF MatchInWalk
<1>4. CASE MatchFirst
  <2> DEFINE n == act.node
             kid == heap[n].kids[1]
             c == [node |-> n, at |-> 1]
  <2>1. /\ act.do = "match" /\ heap[n].tag \in {"not", "cond"} \cup Opcode /\ heap' = heap
        /\ walk' = Append(walk, c) /\ act' = Match(kid)
    BY <1>4 DEF MatchFirst, Matching, Tag, Kids, Enter
  <2>2. n \in DOMAIN heap
    BY <1>a, <2>1 DEF MatchInWalk
  <2>3. heap[n].tag # "exists" /\ 1 \in DOMAIN heap[n].kids
    BY <1>a, <2>1, <2>2, KidThere DEF Opcode
  <2>4. kid \in DOMAIN heap
    BY <1>a, <2>2, <2>3, KidThere
  <2>5. c \in Visit
    BY <2>2 DEF Visit
  <2> HIDE DEF c, n
  <2>6. Append(walk, c) \in Seq(Visit)
    BY <1>w, <2>1, <2>5
  <2> QED
    BY <2>1, <2>4, <2>6 DEF MatchInWalk, Match, Visit
<1>5. CASE MatchNull
  <2>1. act.do = "match" /\ act.node = 0
    BY <1>5 DEF MatchNull
  <2>2. 0 \notin DOMAIN heap
    BY <1>a
  <2> QED
    BY <1>a, <2>1, <2>2 DEF MatchInWalk
<1>6. CASE Evaluate
  <2> DEFINE n == Last0.node
             k == NextKid(n, Last0.at, act.value)
             c == [node |-> n, at |-> k]
  <2>1. /\ act.do = "value" /\ walk # << >> /\ heap' = heap
        /\ \/ k # 0 /\ walk' = Append(Callers, c) /\ act' = Match(heap[n].kids[k])
           \/ walk' = Callers /\ act'.do = "value"
    BY <1>6 DEF Evaluate, Kids, Value
  <2>2. Last0 \in Visit /\ Callers \in Seq(Visit)
    BY <1>w, <2>1, FrontOfSeq DEF Last0, Callers
  <2>3. n \in DOMAIN heap
    BY <2>2 DEF Visit
  <2>4. k \in {0, 2, 3} /\ (k # 0 => heap[n].tag \in {"cond"} \cup Opcode)
        /\ (k = 3 => heap[n].tag = "cond")
    BY DEF NextKid, Tag, Opcode
  <2> HIDE DEF n
  <2>5. k # 0 => k \in DOMAIN heap[n].kids /\ heap[n].tag # "exists"
    <3> HIDE DEF k
    <3> QED
      BY <1>a, <2>3, <2>4, KidThere DEF Opcode
  <2> HIDE DEF k
  <2>6. k # 0 => heap[n].kids[k] \in DOMAIN heap
    BY <1>a, <2>3, <2>5, KidThere
  <2>7. k # 0 => c \in Visit
    BY <2>3, <2>4 DEF Visit
  <2> HIDE DEF c
  <2>8. k # 0 => Append(Callers, c) \in Seq(Visit)
    BY <2>2, <2>7
  <2>9. act'.do = "match" => act'.node \in DOMAIN heap
    BY <2>1, <2>6 DEF Match
  <2>10. act'.do # "aborted" /\ walk' \in Seq(Visit)
    BY <2>1, <2>2, <2>8 DEF Match
  <2> QED
    BY <1>v, <2>1, <2>9, <2>10 DEF MatchInWalk
<1>7. CASE MatchReturn
  BY <1>7 DEF MatchReturn, MatchInWalk
<1>8. CASE StartDestroy
  BY <1>8 DEF StartDestroy, MatchInWalk, Free
<1>9. CASE FreeNode
  BY <1>9 DEF FreeNode, Descend, MatchInWalk, Free
<1>10. CASE FreedKid
  BY <1>10 DEF FreedKid, Descend, MatchInWalk, Free
<1>11. CASE Destroyed
  BY <1>11 DEF Destroyed, MatchInWalk
<1> QED
  BY <1>1, <1>2, <1>3, <1>4, <1>5, <1>6, <1>7, <1>8, <1>9, <1>10, <1>11 DEF UseNext

\* It holds when mongoc_matcher_new is called.
LEMMA MeaningInit == UseInit => MeaningInv
<1> SUFFICES ASSUME UseInit PROVE MeaningInv
  OBVIOUS
<1>1. UseInv /\ StopInv
  BY UseInitInv, StopInit DEF UseInit
<1>2. heap = << >> /\ DOMAIN << >> = {}
  BY DEF UseInit, Init
<1>3. NodesInv
  BY <1>2 DEF NodesInv, Reached
<1>4. MatchInv
  BY DEF UseInit, Idle, MatchInv, MatchInWalk
<1> QED
  BY <1>1, <1>3, <1>4 DEF MeaningInv

\* Every step of compiling, matching and destroying keeps it.
LEMMA MeaningNext == MeaningInv /\ [UseNext]_allVars => MeaningInv'
<1> SUFFICES ASSUME MeaningInv, [UseNext]_allVars PROVE MeaningInv'
  OBVIOUS
<1>a. UseInv /\ StopInv /\ NodesInv /\ MatchInv /\ Walking /\ CompileInv /\ TypeOK
  BY DEF MeaningInv, UseInv, CompileInv, Inv
<1>b. UseInv' /\ TypeOK'
  BY <1>a, UseNextInv DEF UseInv, CompileInv, Inv
<1>c. ASSUME UNCHANGED vars PROVE StopInv' /\ NodesInv' /\ Valid' = Valid
  <2>1. StopInv'
    BY <1>a, <1>b, <1>c, StopNext
  <2>2. NodesInv' /\ Valid' = Valid
    BY <1>a, <1>c DEF vars, NodesInv, Valid, Held
  <2> QED
    BY <2>1, <2>2
<1>d. ASSUME UNCHANGED useVars, act.do = "idle" PROVE MatchInv'
  BY <1>d DEF useVars, MatchInv, MatchInWalk
<1>1. CASE Compile /\ Step
  <2>1. ctl.do # "compiled"
    BY <1>1 DEF Step, ParseLeaf, ParseBad, ParseNot, ParseExistsEmpty, ParseExists,
       ParseLogical, ParseCond, LogicalEmpty, LogicalNotDocument, LogicalLeft, GotLeftLast,
       GotLeftNotDocument, GotLeft, GotRightFailed, GotRight, GotNoMore, GotMore, GotNot,
       GotExists, CondSkip, CondPart, GotCondPart, CondComplete, CondIncomplete, Finish,
       Parsing, Returning, ReturningAt, Looping
  <2>2. MatchInv'
    BY <1>1, <1>a, <1>d, <2>1 DEF Compile, Walking
  <2>3. StopInv' /\ NodesInv'
    BY <1>1, <1>a, <1>b, StopNext, NodesStep DEF Next
  <2> QED
    BY <1>b, <2>2, <2>3 DEF MeaningInv
<1>2. CASE (Compile /\ ~Step) \/ UNCHANGED allVars
  <2>1. UNCHANGED vars /\ UNCHANGED useVars
    BY <1>2 DEF Compile, Next, Stay, allVars, vars, useVars
  <2>2. MatchInv'
    <3>1. heap' = heap
      BY <2>1 DEF vars
    <3> QED
      BY <1>a, <1>c, <2>1, <3>1 DEF useVars, MatchInv, MatchInWalk, Visit
  <2> QED
    BY <1>b, <1>c, <2>1, <2>2 DEF MeaningInv
<1>3. CASE UseNext /\ ~Compile
  <2>1. UNCHANGED vars
    BY <1>3 DEF UseNext, StartMatch, MatchLeaf, MatchExists, MatchFirst, MatchNull,
       Evaluate, MatchReturn, StartDestroy, FreeNode, FreedKid, Destroyed, vars
  <2>2. MatchInv'
    BY <1>3, <1>c, <2>1, MatchStep DEF MatchInv
  <2> QED
    BY <1>b, <1>c, <2>1, <2>2 DEF MeaningInv
<1> QED
  BY <1>1, <1>2, <1>3
-----------------------------------------------------------------------------
(***************************************************************************)
(* What follows from it.                                                   *)
(***************************************************************************)
\* mongoc_matcher_new returns a matcher for every valid query.
THEOREM ValidQueriesCompile == UseSpec => []ValidCompiles
<1>1. MeaningInv => ValidCompiles
  BY DEF MeaningInv, StopInv, SoundAbove, SoundControl, ValidCompiles, Ended
<1> QED
  BY <1>1, MeaningInit, MeaningNext, PTL DEF UseSpec

\* No way out of mongoc_matcher_new or mongoc_matcher_match is silent or fatal
\* without a reason in the query.
THEOREM StopsHaveReasons == UseSpec => []StopsExplained
<1>1. MeaningInv => FailureReported
  BY DEF MeaningInv, StopInv, FailsLoudly, NoSilentClause, FailureReported
<1>2. MeaningInv => AbortsExplained /\ MatchReturns
  BY DEF MeaningInv, StopInv, MatchInv, MatchInWalk, MatchReturns
<1>3. MeaningInv => StopsExplained
  BY <1>1, <1>2 DEF StopsExplained
<1> QED
  BY <1>3, MeaningInit, MeaningNext, PTL DEF UseSpec

\* What the places are that Owners collects.
LEMMA OwnerIs ==
  ASSUME NEW n, NEW o \in Owners(n)
  PROVE  \/ \E m \in 1 .. Len(heap), i \in 1 .. 3 :
              o = <<"kid", m, i>> /\ i <= Len(heap[m].kids) /\ heap[m].kids[i] = n
         \/ \E k \in DOMAIN stack :
              o = <<"left", k, 0>> /\ stack[k].fn = "logical" /\ stack[k].left = n
         \/ \E k \in DOMAIN stack :
              o = <<"right", k, 0>> /\ stack[k].fn = "logical" /\ stack[k].right = n
         \/ \E k \in DOMAIN stack, p \in Part :
              o = <<"part", k, p>> /\ stack[k].fn = "cond" /\ stack[k].got[p] = n
         \/ o = <<"held", 0, 0>> /\ Held = n
<1>1. CASE o \in {<<"kid", p[1], p[2]>> : p \in
                   {q \in (1 .. Len(heap)) \X (1 .. 3) :
                      q[2] <= Len(Kids(q[1])) /\ Kids(q[1])[q[2]] = n}}
  BY <1>1 DEF Kids
<1>2. CASE o \in {<<"left", k, 0>> : k \in
                   {k \in DOMAIN stack : stack[k].fn = "logical" /\ stack[k].left = n}}
  BY <1>2
<1>3. CASE o \in {<<"right", k, 0>> : k \in
                   {k \in DOMAIN stack : stack[k].fn = "logical" /\ stack[k].right = n}}
  BY <1>3
<1>4. CASE o \in {<<"part", p[1], p[2]>> : p \in
                   {q \in (DOMAIN stack) \X Part :
                      stack[q[1]].fn = "cond" /\ stack[q[1]].got[q[2]] = n}}
  BY <1>4
<1>5. CASE o \in (IF Held = n THEN {<<"held", 0, 0>>} ELSE {})
  BY <1>5
<1> QED
  BY <1>1, <1>2, <1>3, <1>4, <1>5 DEF Owners

\* An op that is reached has an owner.
LEMMA OwnerExists ==
  ASSUME TypeOK, OneOwner, NodesInv, NEW n \in DOMAIN heap, Has(heap, stack, Held, n)
  PROVE  Owners(n) # {}
<1>1. CASE Held = n
  <2>1. <<"held", 0, 0>> \in Owners(n)
    BY <1>1 DEF Owners
  <2> QED
    BY <2>1
<1>2. CASE \E m \in DOMAIN heap : n \in KidsOf(heap[m])
  <2>1. PICK m \in DOMAIN heap : n \in KidsOf(heap[m])
    BY <1>2
  <2>2. PICK i \in DOMAIN heap[m].kids : heap[m].kids[i] = n
    BY <2>1 DEF KidsOf
  <2>3. /\ heap \in Seq(Node) /\ m \in 1 .. Len(heap) /\ heap[m].kids \in Seq(Ref)
        /\ Shape(heap[m])
    BY KidThere DEF TypeOK, NodesInv
  <2>4. heap[m] \in Node /\ Len(heap[m].kids) \in 0 .. 3
    BY <2>3 DEF Shape, Node, Opcode
  <2>5. i \in 1 .. 3 /\ i <= Len(heap[m].kids)
    BY <2>3, <2>4
  <2>6. <<m, i>> \in {q \in (1 .. Len(heap)) \X (1 .. 3) :
                        q[2] <= Len(Kids(q[1])) /\ Kids(q[1])[q[2]] = n}
    BY <2>2, <2>3, <2>5 DEF Kids
  <2>7. <<"kid", m, i>> \in Owners(n)
    BY <2>6 DEF Owners
  <2> QED
    BY <2>7
<1>3. CASE \E k \in DOMAIN stack : n \in Locals(stack[k])
  <2>1. PICK k \in DOMAIN stack : n \in Locals(stack[k])
    BY <1>3
  <2>2. \/ stack[k].fn = "logical" /\ (stack[k].left = n \/ stack[k].right = n)
        \/ stack[k].fn = "cond" /\ \E p \in Part : stack[k].got[p] = n
    BY <2>1 DEF Locals
  <2>3. CASE stack[k].fn = "logical" /\ stack[k].left = n
    <3>1. <<"left", k, 0>> \in Owners(n)
      BY <2>3 DEF Owners
    <3> QED
      BY <3>1
  <2>4. CASE stack[k].fn = "logical" /\ stack[k].right = n
    <3>1. <<"right", k, 0>> \in Owners(n)
      BY <2>4 DEF Owners
    <3> QED
      BY <3>1
  <2>5. CASE stack[k].fn = "cond" /\ \E p \in Part : stack[k].got[p] = n
    <3>1. PICK p \in Part : stack[k].got[p] = n
      BY <2>5
    <3>2. <<k, p>> \in {q \in (DOMAIN stack) \X Part :
                          stack[q[1]].fn = "cond" /\ stack[q[1]].got[q[2]] = n}
      BY <2>5, <3>1
    <3>3. <<"part", k, p>> \in Owners(n)
      BY <3>2 DEF Owners
    <3> QED
      BY <3>3
  <2> QED
    BY <2>2, <2>3, <2>4, <2>5
<1> QED
  BY <1>1, <1>2, <1>3 DEF Has

\* No op has two.
LEMMA OwnerUnique ==
  ASSUME TypeOK, OneOwner, NEW n \in DOMAIN heap, NEW o \in Owners(n), NEW u \in Owners(n)
  PROVE  o = u
<1>1. /\ heap \in Seq(Node) /\ DOMAIN heap = 1 .. Len(heap) /\ n # 0
      /\ stack \in Seq(Frame) /\ DOMAIN stack = 1 .. Len(stack)
      /\ Apart(heap, stack, Held)
  BY DEF TypeOK, OneOwner
<1>2. \A m \in 1 .. Len(heap), i \in 1 .. 3 :
        i <= Len(heap[m].kids) /\ heap[m].kids[i] = n =>
          i \in DOMAIN heap[m].kids /\ n \in KidsOf(heap[m])
  <2> SUFFICES ASSUME NEW m \in 1 .. Len(heap), NEW i \in 1 .. 3,
                      i <= Len(heap[m].kids), heap[m].kids[i] = n
               PROVE  i \in DOMAIN heap[m].kids /\ n \in KidsOf(heap[m])
    OBVIOUS
  <2>1. heap[m].kids \in Seq(Ref)
    BY <1>1 DEF Node
  <2>2. i \in DOMAIN heap[m].kids
    BY <2>1
  <2> QED
    BY <1>1, <2>2 DEF KidsOf
<1>3. \A k \in DOMAIN stack :
        /\ stack[k].fn = "logical" /\ (stack[k].left = n \/ stack[k].right = n)
             => n \in Locals(stack[k])
        /\ stack[k].fn = "cond" /\ (\E p \in Part : stack[k].got[p] = n)
             => n \in Locals(stack[k])
  BY <1>1 DEF Locals
<1> DEFINE InHeap(x, m, i) ==
             x = <<"kid", m, i>> /\ i \in DOMAIN heap[m].kids /\ heap[m].kids[i] = n
           InStack(x, k) ==
             \/ x = <<"left", k, 0>> /\ stack[k].fn = "logical" /\ stack[k].left = n
             \/ x = <<"right", k, 0>> /\ stack[k].fn = "logical" /\ stack[k].right = n
             \/ \E p \in Part : x = <<"part", k, p>> /\ stack[k].fn = "cond" /\ stack[k].got[p] = n
           Place(x) ==
             \/ \E m \in DOMAIN heap : n \in KidsOf(heap[m]) /\ \E i \in 1 .. 3 : InHeap(x, m, i)
             \/ \E k \in DOMAIN stack : n \in Locals(stack[k]) /\ InStack(x, k)
             \/ x = <<"held", 0, 0>> /\ n = Held
<1>4. Place(o) /\ Place(u)
  <2>1. ASSUME NEW x \in Owners(n) PROVE Place(x)
    BY <1>1, <1>2, <1>3, OwnerIs
  <2> QED
    BY <2>1
<1>5. ASSUME NEW m \in DOMAIN heap, NEW l \in DOMAIN heap,
             n \in KidsOf(heap[m]), n \in KidsOf(heap[l]),
             NEW i \in 1 .. 3, NEW j \in 1 .. 3, InHeap(o, m, i), InHeap(u, l, j)
      PROVE  o = u
  <2>1. m = l
    BY <1>1, <1>5 DEF Apart
  <2>2. i = j
    BY <1>1, <1>5, <2>1 DEF Apart, NoTwin
  <2> QED
    BY <1>5, <2>1, <2>2
<1>6. ASSUME NEW k \in DOMAIN stack, NEW l \in DOMAIN stack,
             n \in Locals(stack[k]), n \in Locals(stack[l]), InStack(o, k), InStack(u, l)
      PROVE  o = u
  <2>1. k = l
    BY <1>1, <1>6 DEF Apart
  <2>2. NoTwinLocals(stack[k])
    BY <1>1 DEF Apart
  <2>3. CASE stack[k].fn = "logical"
    BY <1>1, <1>6, <2>1, <2>2, <2>3 DEF NoTwinLocals
  <2>4. CASE stack[k].fn = "cond"
    BY <1>1, <1>6, <2>1, <2>2, <2>4 DEF NoTwinLocals
  <2> QED
    BY <1>6, <2>3, <2>4
<1>7. /\ \A m \in DOMAIN heap : n \in KidsOf(heap[m]) => n # Held
      /\ \A k \in DOMAIN stack : n \in Locals(stack[k]) => n # Held
      /\ \A m \in DOMAIN heap, k \in DOMAIN stack :
           ~(n \in KidsOf(heap[m]) /\ n \in Locals(stack[k]))
  BY <1>1 DEF Apart
<1> HIDE DEF InHeap, InStack
<1> QED
  BY <1>4, <1>5, <1>6, <1>7

\* While a valid query compiles, is used and goes away, every op has one place
\* that points to it: none is lost.
THEOREM NoneLeaks == UseSpec => []NothingLeaks
<1>1. MeaningInv => NothingLeaks
  <2> SUFFICES ASSUME MeaningInv, Valid, NEW n \in 1 .. Len(heap)
               PROVE  \E o \in Owners(n) : Owners(n) = {o}
    BY DEF NothingLeaks
  <2>1. TypeOK /\ OneOwner /\ NodesInv
    BY DEF MeaningInv, UseInv, CompileInv, Inv
  <2>2. n \in DOMAIN heap
    BY <2>1 DEF TypeOK
  <2>3. Has(heap, stack, Held, n)
    BY <2>1, <2>2 DEF NodesInv, Reached
  <2>4. PICK o : o \in Owners(n)
    BY <2>1, <2>2, <2>3, OwnerExists
  <2>5. \A u \in Owners(n) : u = o
    BY <2>1, <2>2, <2>4, OwnerUnique
  <2> QED
    BY <2>4, <2>5
<1> QED
  BY <1>1, MeaningInit, MeaningNext, PTL DEF UseSpec

\* The walk that frees the root has freed every op of a valid query.
LEMMA AllFreed ==
  ASSUME MeaningInv, Valid, act.do = "destroyed"
  PROVE  1 .. Len(heap) \subseteq ToSet(freed)
<1>1. /\ TypeOK /\ OneOwner /\ NodesInv /\ InOrder(heap, freed) /\ ctl.root \in ToSet(freed)
      /\ ctl.do = "compiled" /\ stack = << >> /\ Held = ctl.root
  BY DEF MeaningInv, UseInv, CompileInv, Inv, Walking, Compiled, Reading, Held
<1>2. heap \in Seq(Node) /\ Len(heap) \in Nat /\ DOMAIN heap = 1 .. Len(heap)
  BY <1>1 DEF TypeOK
<1> DEFINE Kept == 1 .. Len(heap) \ ToSet(freed)
           T == {Len(heap) - n : n \in Kept}
<1> SUFFICES ASSUME Kept # {} PROVE FALSE
  OBVIOUS
<1>3. T \subseteq Nat /\ T # {}
  BY <1>2
<1>4. PICK x \in T : \A y \in T : x <= y
  <2> HIDE DEF T
  <2> QED
    BY <1>3, Least
<1>5. PICK n \in Kept : x = Len(heap) - n
  BY <1>4
<1>6. \A m \in Kept : m <= n
  <2> SUFFICES ASSUME NEW m \in Kept PROVE m <= n
    OBVIOUS
  <2>1. x <= Len(heap) - m
    BY <1>4
  <2>2. m \in Nat /\ n \in Nat
    OBVIOUS
  <2> HIDE DEF T, Kept
  <2> QED
    BY <1>2, <1>5, <2>1, <2>2
<1>7. n \in DOMAIN heap /\ Has(heap, stack, Held, n) /\ n # Held
  BY <1>1, <1>2, <1>5 DEF NodesInv, Reached
<1>8. PICK m \in DOMAIN heap : n \in KidsOf(heap[m])
  <2>1. DOMAIN stack = {}
    BY <1>1
  <2> QED
    BY <1>7, <2>1 DEF Has
<1>9. PICK k \in DOMAIN heap[m].kids : heap[m].kids[k] = n /\ n # 0
  BY <1>8 DEF KidsOf
<1>10. n \in 1 .. m - 1 /\ m \in 1 .. Len(heap)
  BY <1>1, <1>2, <1>9, KidThere
<1>11. m \in ToSet(freed)
  <2>1. ~(m <= n) /\ m \in 1 .. Len(heap)
    BY <1>10
  <2> QED
    BY <1>6, <2>1
<1>12. PICK i \in DOMAIN freed : freed[i] = m
  BY <1>11 DEF ToSet
<1>13. PICK j \in 1 .. i - 1 : freed[j] = n
  BY <1>1, <1>9, <1>12 DEF InOrder
<1>14. j \in DOMAIN freed
  <2>1. freed \in Seq(1 .. Len(heap))
    BY <1>1 DEF InOrder
  <2>2. DOMAIN freed = 1 .. Len(freed) /\ Len(freed) \in Nat
    BY <2>1
  <2> QED
    BY <2>2
<1> QED
  BY <1>13, <1>14 DEF ToSet

\* _mongoc_matcher_op_destroy frees every op of a valid query, each once and
\* after what it points to, and nothing is read after it was freed.
THEOREM DestroySafe == UseSpec => []DestroyIsSafe
<1>1. MeaningInv => DestroyFreesAll
  <2> SUFFICES ASSUME MeaningInv, Valid, act.do = "destroyed"
               PROVE  IsInjective(freed) /\ ToSet(freed) = 1 .. Len(heap)
    BY DEF DestroyFreesAll
  <2>1. InOrder(heap, freed)
    BY DEF MeaningInv, UseInv, Walking
  <2>2. freed \in Seq(1 .. Len(heap)) /\ IsInjective(freed)
    BY <2>1 DEF InOrder
  <2>3. ToSet(freed) \subseteq 1 .. Len(heap)
    BY <2>2 DEF ToSet
  <2> QED
    BY <2>2, <2>3, AllFreed
<1>2. UseSpec => []DestroyFreesAll
  BY <1>1, MeaningInit, MeaningNext, PTL DEF UseSpec
<1>3. DestroyFreesAll /\ NoUseAfterFree /\ ChildrenFirst => DestroyIsSafe
  BY DEF DestroyIsSafe
<1> QED
  BY <1>2, <1>3, NoneUsedAfterFree, KidsFreedFirst, PTL

-----------------------------------------------------------------------------
(***************************************************************************)
(* Part 3.  What a query means.                                            *)
(***************************************************************************)

\* The clauses that the elements of a list begin with.
LEMMA FirstsAre ==
  ASSUME NEW S, NEW es \in Seq(Element), \A i \in DOMAIN es : First(es[i]) \in S
  PROVE  /\ Firsts(es) \in Seq(S) /\ Len(Firsts(es)) = Len(es)
         /\ DOMAIN Firsts(es) = DOMAIN es
         /\ \A i \in DOMAIN es : Firsts(es)[i] = First(es[i])
         /\ es # << >> => Firsts(Tail(es)) = Tail(Firsts(es))
<1>1. Len(es) \in Nat /\ DOMAIN es = 1 .. Len(es)
  OBVIOUS
<1>2. /\ Firsts(es) \in Seq(S) /\ Len(Firsts(es)) = Len(es)
      /\ DOMAIN Firsts(es) = DOMAIN es
      /\ \A i \in DOMAIN es : Firsts(es)[i] = First(es[i])
  BY <1>1 DEF Firsts
<1>3. ASSUME es # << >> PROVE Firsts(Tail(es)) = Tail(Firsts(es))
  <2>1. /\ Tail(es) \in Seq(Element) /\ Len(Tail(es)) = Len(es) - 1
        /\ \A i \in DOMAIN Tail(es) : i + 1 \in DOMAIN es /\ Tail(es)[i] = es[i + 1]
    BY <1>3, ListParts
  <2>2. Firsts(es) # << >>
    BY <1>1, <1>2, <1>3
  <2>3. /\ Tail(Firsts(es)) \in Seq(S) /\ Len(Tail(Firsts(es))) = Len(es) - 1
        /\ \A i \in DOMAIN Tail(Firsts(es)) : Tail(Firsts(es))[i] = Firsts(es)[i + 1]
    BY <1>2, <2>2, ListParts
  <2>4. DOMAIN Tail(es) = 1 .. Len(es) - 1 /\ DOMAIN Tail(Firsts(es)) = 1 .. Len(es) - 1
    BY <2>1, <2>3
  <2>5. Tail(Firsts(es)) = [i \in 1 .. Len(es) - 1 |-> Tail(Firsts(es))[i]]
    <3> DEFINE t == Tail(Firsts(es))
    <3>1. t \in Seq(S) /\ DOMAIN t = 1 .. Len(es) - 1
      BY <2>3, <2>4
    <3> HIDE DEF t
    <3>2. t = [i \in 1 .. Len(es) - 1 |-> t[i]]
      BY <3>1
    <3> QED
      BY <3>2 DEF t
  <2>6. \A i \in 1 .. Len(es) - 1 : Tail(Firsts(es))[i] = First(Tail(es)[i])
    BY <1>2, <2>1, <2>3, <2>4
  <2> QED
    BY <2>4, <2>5, <2>6 DEF Firsts
<1> QED
  BY <1>2, <1>3

\* Where a valid clause has its sub-clauses.
LEMMA SubClauses ==
  ASSUME NEW c \in ValidClauses
  PROVE  /\ c \in Clause /\ Subs(c) \subseteq ValidClauses
         /\ c.kind \in {"leaf", "not", "exists", "logical", "cond"}
         /\ c.kind \in {"leaf", "exists"} => c.atom \in Atom
         /\ c.kind = "not" => c.kid \in Subs(c)
         /\ c.kind = "exists" /\ c.spec # << >> => First(c.spec) \in Subs(c)
         /\ c.kind = "logical" =>
              /\ c.op \in Opcode /\ c.elems \in Seq(Element) /\ c.elems # << >>
              /\ \A i \in DOMAIN c.elems : First(c.elems[i]) \in Subs(c)
         /\ c.kind = "cond" => \A p \in Part : ThePart(c, p) \in Subs(c)
<1>1. c \in Clause /\ ValidClause[c]
  BY DEF ValidClauses
<1>2. WellFormed(c) /\ \A k \in Subs(c) : ValidClause[k]
  BY <1>1, ValidClauseIs
<1>3. Subs(c) \subseteq ValidClauses
  BY <1>1, <1>2, SubsAreClauses DEF ValidClauses
<1>4. c.kind \in {"leaf", "not", "exists", "logical", "cond"}
  BY <1>1, <1>2, ClauseAssumption DEF WellFormed, CompareKinds
<1>5. c.kind \in {"leaf", "exists"} => c.atom \in Atom
  BY <1>1, ClauseAssumption
<1>6. c.kind = "not" => c.kid \in Subs(c)
  BY DEF Subs
<1>7. c.kind = "exists" /\ c.spec # << >> => First(c.spec) \in Subs(c)
  BY DEF Subs
<1>8. c.kind = "logical" =>
        /\ c.op \in Opcode /\ c.elems \in Seq(Element) /\ c.elems # << >>
        /\ \A i \in DOMAIN c.elems : First(c.elems[i]) \in Subs(c)
  BY <1>1, <1>2, ClauseAssumption DEF WellFormed, Subs
<1>9. ASSUME c.kind = "cond", NEW p \in Part PROVE ThePart(c, p) \in Subs(c)
  <2>1. PartsOf(c, p) # {} /\ \A i \in DOMAIN c.parts : c.parts[i].elem # << >>
    BY <1>2, <1>9 DEF WellFormed
  <2>2. \A i \in PartsOf(c, p) : First(c.parts[i].elem) \in Subs(c)
    BY <1>9, <2>1 DEF PartsOf, Subs
  <2> QED
    BY <2>1, <2>2 DEF ThePart
<1> QED
  BY <1>1, <1>3, <1>4, <1>5, <1>6, <1>7, <1>8, <1>9
-----------------------------------------------------------------------------
(***************************************************************************)
(* What a list asks.                                                       *)
(***************************************************************************)
\* An empty list is asked nothing of; of another, the rest after the first
\* clause, if that did not settle it.
LEMMA UpToUnfold ==
  ASSUME NEW S, NEW cs \in Seq(S), NEW d, NEW stop
  PROVE  /\ UpTo(cs, d, stop) \in Seq(S)
         /\ cs = << >> => UpTo(cs, d, stop) = << >>
         /\ cs # << >> =>
              UpTo(cs, d, stop) =
                <<cs[1]>> \o (IF Holds[cs[1]][d] = stop THEN << >>
                              ELSE UpTo(Tail(cs), d, stop))
<1> DEFINE Settled(l) == {i \in DOMAIN l : Holds[l[i]][d] = stop}
           Cut(l) == IF Settled(l) = {} THEN Len(l) ELSE Min(Settled(l))
<1>1. \A l : UpTo(l, d, stop) = SubSeq(l, 1, Cut(l))
  BY DEF UpTo
<1>2. ASSUME NEW l \in Seq(S)
      PROVE  /\ Cut(l) \in 0 .. Len(l) /\ Len(l) \in Nat
             /\ UpTo(l, d, stop) \in Seq(S) /\ Len(UpTo(l, d, stop)) = Cut(l)
             /\ \A i \in 1 .. Cut(l) : UpTo(l, d, stop)[i] = l[i]
  <2>1. Len(l) \in Nat /\ DOMAIN l = 1 .. Len(l) /\ \A i \in 1 .. Len(l) : l[i] \in S
    BY InSeq
  <2>2. Cut(l) \in 0 .. Len(l)
    <3>1. Settled(l) \subseteq 1 .. Len(l)
      BY <2>1
    <3> HIDE DEF Settled
    <3>2. CASE Settled(l) = {}
      BY <2>1, <3>2
    <3>3. CASE Settled(l) # {}
      <4>1. Min(Settled(l)) \in Settled(l)
        BY <2>1, <3>1, <3>3, MinIsLeast
      <4> QED
        BY <3>1, <3>3, <4>1
    <3> QED
      BY <3>2, <3>3
  <2> DEFINE n == Cut(l)
  <2>3. n \in 0 .. Len(l)
    BY <2>2
  <2> HIDE DEF n, Cut
  <2>4. SubSeq(l, 1, n) \in Seq(S) /\ Len(SubSeq(l, 1, n)) = n
    BY <2>1, <2>3
  <2>5. \A i \in 1 .. n : SubSeq(l, 1, n)[i] = l[i]
    BY <2>1, <2>3
  <2> QED
    BY <1>1, <2>1, <2>3, <2>4, <2>5 DEF n
<1>3. ASSUME cs = << >> PROVE UpTo(cs, d, stop) = << >>
  <2>0. Cut(cs) \in 0 .. Len(cs) /\ Len(cs) = 0
    BY <1>2, <1>3
  <2> HIDE DEF Cut
  <2>1. Len(UpTo(cs, d, stop)) = Cut(cs) /\ UpTo(cs, d, stop) \in Seq(S)
    BY <1>2
  <2> QED
    BY <2>0, <2>1, EmptySeq
<1>4. ASSUME cs # << >>
      PROVE  UpTo(cs, d, stop) =
               <<cs[1]>> \o (IF Holds[cs[1]][d] = stop THEN << >>
                             ELSE UpTo(Tail(cs), d, stop))
  <2> DEFINE t == Tail(cs)
             rest == IF Holds[cs[1]][d] = stop THEN << >> ELSE UpTo(t, d, stop)
             n == IF Holds[cs[1]][d] = stop THEN 0 ELSE Cut(t)
  <2>1. /\ t \in Seq(S) /\ Len(t) = Len(cs) - 1 /\ cs[1] \in S
        /\ DOMAIN cs = 1 .. Len(cs) /\ DOMAIN t = 1 .. Len(t)
        /\ Len(cs) \in Nat \ {0} /\ Len(t) \in Nat
        /\ \A i \in DOMAIN t : t[i] = cs[i + 1]
    BY <1>4, ListParts, InSeq, EmptySeq
  <2>2. rest \in Seq(S) /\ Len(rest) = n /\ n \in 0 .. Len(t)
        /\ \A i \in 1 .. n : rest[i] = t[i]
    <3> HIDE DEF Cut, t
    <3>1. CASE Holds[cs[1]][d] = stop
      BY <2>1, <3>1
    <3>2. CASE Holds[cs[1]][d] # stop
      BY <1>2, <2>1, <3>2
    <3> QED
      BY <3>1, <3>2
  <2>3. Cut(cs) = n + 1
    <3>1. CASE Holds[cs[1]][d] = stop
      <4>1. 1 \in Settled(cs) /\ Settled(cs) \subseteq Nat /\ \A i \in Settled(cs) : 1 <= i
        BY <2>1, <3>1
      <4> HIDE DEF Settled
      <4>2. Min(Settled(cs)) \in Settled(cs) /\ Min(Settled(cs)) <= 1
        BY <4>1, MinIsLeast
      <4>3. Min(Settled(cs)) = 1
        BY <4>1, <4>2
      <4> QED
        BY <3>1, <4>1, <4>3
    <3>2. CASE Holds[cs[1]][d] # stop
      <4>1. /\ Settled(cs) \subseteq Nat /\ Settled(t) \subseteq Nat
            /\ \A i \in Settled(cs) : i - 1 \in Settled(t)
            /\ \A i \in Settled(t) : i + 1 \in Settled(cs)
        <5>1. \A i \in Settled(cs) : i \in 1 .. Len(cs) /\ i # 1 /\ i - 1 \in 1 .. Len(t) /\ (i - 1) + 1 = i
          BY <2>1, <3>2
        <5>2. \A i \in Settled(cs) : t[i - 1] = cs[i]
          BY <2>1, <5>1
        <5>3. \A i \in Settled(t) : i \in 1 .. Len(t) /\ i + 1 \in 1 .. Len(cs) /\ t[i] = cs[i + 1]
          BY <2>1
        <5> QED
          BY <2>1, <5>1, <5>2, <5>3
      <4> HIDE DEF Settled, t
      <4>2. CASE Settled(t) = {}
        BY <2>1, <3>2, <4>1, <4>2
      <4>3. CASE Settled(t) # {}
        <5>1. Settled(cs) # {}
          BY <4>1, <4>3
        <5>2. /\ Min(Settled(t)) \in Settled(t) /\ \A i \in Settled(t) : Min(Settled(t)) <= i
              /\ Min(Settled(cs)) \in Settled(cs) /\ \A i \in Settled(cs) : Min(Settled(cs)) <= i
          BY <4>1, <4>3, <5>1, MinIsLeast
        <5>3. Min(Settled(cs)) <= Min(Settled(t)) + 1 /\ Min(Settled(t)) <= Min(Settled(cs)) - 1
          BY <4>1, <5>2
        <5>4. Min(Settled(cs)) = Min(Settled(t)) + 1
          BY <4>1, <5>2, <5>3
        <5> QED
          BY <3>2, <4>3, <5>1, <5>4
      <4> QED
        BY <4>2, <4>3
    <3> QED
      BY <3>1, <3>2
  <2> DEFINE u == UpTo(cs, d, stop)
  <2>4. u \in Seq(S) /\ Len(u) = n + 1 /\ \A i \in 1 .. n + 1 : u[i] = cs[i]
    BY <1>2, <2>3
  <2> HIDE DEF u, rest, n, t, Cut
  <2>5. <<cs[1]>> \in Seq(S) /\ Len(<<cs[1]>>) = 1
    BY <2>1
  <2> DEFINE v == <<cs[1]>> \o rest
  <2>6. /\ v \in Seq(S) /\ Len(v) = 1 + n
        /\ \A i \in 1 .. 1 + n : v[i] = IF i <= 1 THEN <<cs[1]>>[i] ELSE rest[i - 1]
    BY <2>2, <2>5, ConcatProperties
  <2> HIDE DEF v
  <2>7. ASSUME NEW i \in 1 .. n + 1 PROVE v[i] = u[i]
    <3>1. CASE i = 1
      BY <2>2, <2>4, <2>6, <3>1
    <3>2. CASE i # 1
      <4>1. i - 1 \in 1 .. n /\ i - 1 \in 1 .. Len(t) /\ (i - 1) + 1 = i /\ ~(i <= 1)
        BY <2>1, <2>2, <3>2
      <4>2. v[i] = rest[i - 1]
        BY <2>2, <2>6, <4>1
      <4>3. rest[i - 1] = t[i - 1]
        BY <2>2, <4>1
      <4>4. t[i - 1] = cs[i]
        BY <2>1, <4>1
      <4> QED
        BY <2>4, <4>2, <4>3, <4>4
    <3> QED
      BY <3>1, <3>2
  <2>8. u = v
    BY <2>2, <2>4, <2>6, <2>7, SeqEqual
  <2> QED
    BY <2>8 DEF u, v, rest, t
<1> QED
  BY <1>2, <1>3, <1>4

\* The same of what is asked, whatever the clauses ask each by itself.
AskedInTurn(cs, d, stop, f) ==
  /\ ListAsks(cs, d, stop, f) \in Seq(Atom)
  /\ cs = << >> => ListAsks(cs, d, stop, f) = << >>
  /\ cs # << >> =>
       ListAsks(cs, d, stop, f) =
         f[cs[1]][d] \o (IF Holds[cs[1]][d] = stop THEN << >>
                         ELSE ListAsks(Tail(cs), d, stop, f))

\* A list asks its first clause and, unless that settles it, the rest.
LEMMA ListAsksUnfold ==
  ASSUME NEW S, NEW cs \in Seq(S), NEW d, NEW stop, NEW f,
         \A c \in S : f[c][d] \in Seq(Atom)
  PROVE  AskedInTurn(cs, d, stop, f)
<1> DEFINE Asking(l) == [i \in DOMAIN l |-> f[l[i]][d]]
<1>1. ASSUME NEW l \in Seq(S)
      PROVE  Asking(l) \in Seq(Seq(Atom)) /\ Len(Asking(l)) = Len(l)
  <2>1. Len(l) \in Nat /\ DOMAIN l = 1 .. Len(l) /\ \A i \in DOMAIN l : l[i] \in S
    BY InSeq
  <2> QED
    BY <2>1
<1>2. \A l : ListAsks(l, d, stop, f) = FlattenSeq(Asking(UpTo(l, d, stop)))
  BY DEF ListAsks
<1>3. \A l \in Seq(S) : ListAsks(l, d, stop, f) \in Seq(Atom)
  <2> SUFFICES ASSUME NEW l \in Seq(S) PROVE FlattenSeq(Asking(UpTo(l, d, stop))) \in Seq(Atom)
    BY <1>2
  <2>1. Asking(UpTo(l, d, stop)) \in Seq(Seq(Atom))
    BY <1>1, UpToUnfold
  <2> HIDE DEF Asking
  <2>2. << >> \in Seq(Atom)
    OBVIOUS
  <2> QED
    BY <2>1, <2>2, FlattenCons
<1>u. /\ cs = << >> => UpTo(cs, d, stop) = << >>
      /\ cs # << >> =>
           UpTo(cs, d, stop) =
             <<cs[1]>> \o (IF Holds[cs[1]][d] = stop THEN << >>
                           ELSE UpTo(Tail(cs), d, stop))
  BY UpToUnfold
<1>4. ASSUME cs = << >> PROVE ListAsks(cs, d, stop, f) = << >>
  <2>1. UpTo(cs, d, stop) = << >>
    BY <1>4, <1>u
  <2>2. Asking(<< >>) = << >> /\ FlattenSeq(<< >>) = << >>
    BY DEF FlattenSeq
  <2> HIDE DEF Asking
  <2>3. ListAsks(cs, d, stop, f) = FlattenSeq(Asking(UpTo(cs, d, stop)))
    BY <1>2
  <2> QED
    BY <2>1, <2>2, <2>3
<1>5. ASSUME cs # << >>
      PROVE  ListAsks(cs, d, stop, f) =
               f[cs[1]][d] \o (IF Holds[cs[1]][d] = stop THEN << >>
                               ELSE ListAsks(Tail(cs), d, stop, f))
  <2> DEFINE rest == IF Holds[cs[1]][d] = stop THEN << >> ELSE UpTo(Tail(cs), d, stop)
             x == f[cs[1]][d]
  <2>1. cs[1] \in S /\ Tail(cs) \in Seq(S)
    BY <1>5, ListParts
  <2>2. UpTo(cs, d, stop) = <<cs[1]>> \o rest
    BY <1>5, <1>u
  <2>3. rest \in Seq(S)
    <3>1. << >> \in Seq(S)
      OBVIOUS
    <3> QED
      BY <2>1, <3>1, UpToUnfold
  <2>4. x \in Seq(Atom) /\ Asking(rest) \in Seq(Seq(Atom)) /\ Len(Asking(rest)) = Len(rest)
    BY <1>1, <2>1, <2>3
  <2>5. Asking(<<cs[1]>> \o rest) = <<x>> \o Asking(rest)
    <3> HIDE DEF rest
    <3> DEFINE u == <<cs[1]>> \o rest
    <3>0. <<cs[1]>> \in Seq(S) /\ Len(<<cs[1]>>) = 1
      BY <2>1
    <3>1. /\ u \in Seq(S) /\ Len(u) = 1 + Len(rest) /\ Len(rest) \in Nat
          /\ \A i \in 1 .. 1 + Len(rest) : u[i] = IF i <= 1 THEN <<cs[1]>>[i] ELSE rest[i - 1]
      BY <2>3, <3>0, ConcatProperties, InSeq
    <3> HIDE DEF u
    <3>2. Asking(u) \in Seq(Seq(Atom)) /\ Len(Asking(u)) = 1 + Len(rest)
      BY <1>1, <3>1
    <3> DEFINE a == Asking(rest)
               v == <<x>> \o a
    <3>3. a \in Seq(Seq(Atom)) /\ Len(a) = Len(rest) /\ \A i \in 1 .. Len(rest) : a[i] = f[rest[i]][d]
      BY <2>4, <2>3, InSeq
    <3>4. \A i \in 1 .. 1 + Len(rest) : Asking(u)[i] = f[u[i]][d]
      BY <3>1, InSeq
    <3> HIDE DEF Asking, a, x
    <3>5. <<x>> \in Seq(Seq(Atom)) /\ Len(<<x>>) = 1
      BY <2>4
    <3>6. /\ v \in Seq(Seq(Atom)) /\ Len(v) = 1 + Len(rest)
          /\ \A i \in 1 .. 1 + Len(rest) : v[i] = IF i <= 1 THEN <<x>>[i] ELSE a[i - 1]
      BY <3>3, <3>5, ConcatProperties
    <3> HIDE DEF v
    <3>7. ASSUME NEW i \in 1 .. 1 + Len(rest) PROVE Asking(u)[i] = v[i]
      <4>1. CASE i = 1
        <5>1. u[i] = cs[1] /\ v[i] = x
          BY <3>1, <3>6, <4>1
        <5> QED
          BY <3>4, <5>1 DEF x
      <4>2. CASE i # 1
        <5>1. i - 1 \in 1 .. Len(rest) /\ ~(i <= 1)
          BY <3>1, <4>2
        <5>2. u[i] = rest[i - 1] /\ v[i] = a[i - 1]
          BY <3>1, <3>6, <5>1
        <5>3. a[i - 1] = f[rest[i - 1]][d]
          BY <3>3, <5>1
        <5> QED
          BY <3>4, <5>2, <5>3
      <4> QED
        BY <4>1, <4>2
    <3> DEFINE w == Asking(u)
    <3>8. /\ w \in Seq(Seq(Atom)) /\ v \in Seq(Seq(Atom)) /\ Len(w) = Len(v)
          /\ \A i \in 1 .. Len(w) : w[i] = v[i]
      BY <3>2, <3>6, <3>7
    <3> HIDE DEF w
    <3>9. w = v
      BY <3>8, SeqEqual
    <3> QED
      BY <3>9 DEF u, v, w, a
  <2>6. FlattenSeq(<<x>> \o Asking(rest)) = x \o FlattenSeq(Asking(rest))
    <3> HIDE DEF x, Asking, rest
    <3> QED
      BY <2>4, FlattenCons
  <2>7. ListAsks(cs, d, stop, f) = x \o FlattenSeq(Asking(rest))
    <3> HIDE DEF x, Asking, rest
    <3> QED
      BY <1>2, <2>2, <2>5, <2>6
  <2>8. CASE Holds[cs[1]][d] = stop
    <3>1. Asking(<< >>) = << >> /\ FlattenSeq(<< >>) = << >>
      BY DEF FlattenSeq
    <3>2. rest = << >>
      BY <2>8
    <3> HIDE DEF Asking, rest, x
    <3>3. FlattenSeq(Asking(rest)) = << >>
      BY <3>1, <3>2
    <3>4. ListAsks(cs, d, stop, f) = x \o << >>
      BY <2>7, <3>3
    <3> QED
      BY <2>8, <3>4 DEF x
  <2>9. CASE Holds[cs[1]][d] # stop
    <3>1. FlattenSeq(Asking(rest)) = ListAsks(Tail(cs), d, stop, f)
      BY <1>2, <2>9
    <3> HIDE DEF Asking, rest, x
    <3>2. ListAsks(cs, d, stop, f) = x \o ListAsks(Tail(cs), d, stop, f)
      BY <2>7, <3>1
    <3> QED
      BY <2>9, <3>2 DEF x
  <2> QED
    BY <2>8, <2>9
<1> QED
  BY <1>3, <1>4, <1>5 DEF AskedInTurn

\* What a list asks depends on what its clauses ask alone.
LEMMA ListAsksLocal ==
  ASSUME NEW S, NEW cs \in Seq(S), NEW d, NEW stop, NEW f, NEW g,
         \A c \in S : f[c] = g[c]
  PROVE  ListAsks(cs, d, stop, f) = ListAsks(cs, d, stop, g)
<1> DEFINE u == UpTo(cs, d, stop)
<1>1. \A i \in DOMAIN u : u[i] \in S
  BY UpToUnfold, InSeq
<1>2. \A i \in DOMAIN u : f[u[i]][d] = g[u[i]][d]
  BY <1>1
<1> HIDE DEF u
<1>3. [i \in DOMAIN u |-> f[u[i]][d]] = [i \in DOMAIN u |-> g[u[i]][d]]
  BY <1>2
<1> QED
  BY <1>3 DEF ListAsks, u
-----------------------------------------------------------------------------
(***************************************************************************)
(* Holds and Asks, unfolded once.                                          *)
(***************************************************************************)
\* What a clause says depends on what its sub-clauses say alone.
LEMMA SaysLocal ==
  ASSUME NEW c \in ValidClauses, NEW d \in Document, NEW f, NEW g,
         \A k \in Subs(c) : f[k] = g[k]
  PROVE  Says(c, d, f) = Says(c, d, g)
<1>1. CASE c.kind = "leaf"
  BY <1>1 DEF Says
<1>2. CASE c.kind = "not"
  BY <1>2, SubClauses DEF Says
<1>3. CASE c.kind = "exists"
  BY <1>3, SubClauses DEF Says
<1>4. CASE c.kind = "logical"
  <2>1. \A i \in DOMAIN c.elems : f[First(c.elems[i])] = g[First(c.elems[i])]
    BY <1>4, SubClauses
  <2>2. \A b : (\E i \in DOMAIN c.elems : f[First(c.elems[i])][d] = b)
                 = (\E i \in DOMAIN c.elems : g[First(c.elems[i])][d] = b)
    BY <2>1
  <2> QED
    BY <1>4, <2>2 DEF Says
<1>5. CASE c.kind = "cond"
  <2>1. \A p \in Part : f[ThePart(c, p)] = g[ThePart(c, p)]
    BY <1>5, SubClauses
  <2> QED
    BY <1>5, <2>1 DEF Says, Part
<1> QED
  BY <1>1, <1>2, <1>3, <1>4, <1>5, SubClauses

\* A clause is true or false.
LEMMA SaysType ==
  ASSUME NEW c \in ValidClauses, NEW d \in Document, NEW f,
         \A k \in Subs(c) : f[k] \in [Document -> BOOLEAN]
  PROVE  Says(c, d, f) \in BOOLEAN
<1>1. CASE c.kind = "leaf"
  BY <1>1, SubClauses DEF Says, Document
<1>2. CASE c.kind = "not"
  BY <1>2, SubClauses DEF Says
<1>3. CASE c.kind = "exists"
  BY <1>3, SubClauses DEF Says, Document
<1>4. CASE c.kind = "logical"
  BY <1>4 DEF Says
<1>5. CASE c.kind = "cond"
  <2>1. \A p \in Part : f[ThePart(c, p)] \in [Document -> BOOLEAN]
    BY <1>5, SubClauses
  <2> QED
    BY <1>5, <2>1 DEF Says, Part
<1> QED
  BY <1>1, <1>2, <1>3, <1>4, <1>5, SubClauses

\* A recursion over the valid clauses: B[c] gives the value at c from those at
\* its sub-clauses.
Into(T, B) == \A c \in ValidClauses : \A g \in [Subs(c) -> T] : B[c][g] \in T

Solves(f, B) == \A c \in ValidClauses : f[c] = B[c][[k \in Subs(c) |-> f[k]]]

\* Every such recursion has a solution.
LEMMA ClauseRecursion ==
  ASSUME NEW T, NEW B, Into(T, B)
  PROVE  \E f \in [ValidClauses -> T] : Solves(f, B)
<1> DEFINE depth == [c \in ValidClauses |-> Depth[c]]
           K == [c \in ValidClauses |-> Subs(c)]
<1>1. Recursive(ValidClauses, T, depth, K, B)
  <2>1. depth \in [ValidClauses -> Nat]
    BY SubClauses, DepthAssumption
  <2>2. K \in [ValidClauses -> SUBSET ValidClauses]
    BY SubClauses
  <2>3. \A c \in ValidClauses : \A k \in K[c] : depth[k] < depth[c]
    BY SubClauses, DepthAssumption
  <2>4. \A c \in ValidClauses : \A g \in [K[c] -> T] : B[c][g] \in T
    BY DEF Into
  <2> HIDE DEF depth, K
  <2> QED
    BY <2>1, <2>2, <2>3, <2>4 DEF Recursive
<1>2. PICK f \in [ValidClauses -> T] : \A c \in ValidClauses : f[c] = B[c][[k \in K[c] |-> f[k]]]
  <2> HIDE DEF depth, K
  <2> QED
    BY <1>1, RecursionExists
<1>3. Solves(f, B)
  BY <1>2 DEF Solves
<1> QED
  BY <1>3

\* What a set of valid clauses has, if no valid clause is the first to lack it.
LEMMA ClauseInduction ==
  ASSUME NEW P, P \subseteq ValidClauses,
         \A c \in ValidClauses : Subs(c) \subseteq P => c \in P
  PROVE  P = ValidClauses
<1> DEFINE depth == [c \in ValidClauses |-> Depth[c]]
<1>1. depth \in [ValidClauses -> Nat]
  BY SubClauses, DepthAssumption
<1>2. \A c \in ValidClauses : (\A k \in ValidClauses : depth[k] < depth[c] => k \in P) => c \in P
  <2> SUFFICES ASSUME NEW c \in ValidClauses,
                      \A k \in ValidClauses : depth[k] < depth[c] => k \in P
               PROVE  Subs(c) \subseteq P
    OBVIOUS
  <2>1. \A k \in Subs(c) : k \in ValidClauses /\ depth[k] < depth[c]
    BY SubClauses, DepthAssumption
  <2> QED
    BY <2>1
<1> HIDE DEF depth
<1> QED
  BY <1>1, <1>2, Shallowest

\* What each clause says of each document.
LEMMA HoldsIs ==
  /\ Holds \in [ValidClauses -> [Document -> BOOLEAN]]
  /\ \A c \in ValidClauses, d \in Document : Holds[c][d] = Says(c, d, Holds)
<1> DEFINE T == [Document -> BOOLEAN]
           B == [c \in ValidClauses |->
                   [g \in [Subs(c) -> T] |-> [d \in Document |-> Says(c, d, g)]]]
<1>1. Into(T, B)
  <2> SUFFICES ASSUME NEW c \in ValidClauses, NEW g \in [Subs(c) -> T], NEW d \in Document
               PROVE  Says(c, d, g) \in BOOLEAN
    BY DEF Into
  <2> QED
    BY SaysType
<1>2. PICK f \in [ValidClauses -> T] : Solves(f, B)
  <2> HIDE DEF T, B
  <2> QED
    BY <1>1, ClauseRecursion
<1>3. ASSUME NEW c \in ValidClauses PROVE f[c] = [d \in Document |-> Says(c, d, f)]
  <2> DEFINE g == [k \in Subs(c) |-> f[k]]
  <2>1. g \in [Subs(c) -> T] /\ \A k \in Subs(c) : g[k] = f[k]
    BY SubClauses
  <2>2. f[c] = B[c][g]
    BY <1>2 DEF Solves
  <2> HIDE DEF g
  <2>3. B[c][g] = [d \in Document |-> Says(c, d, g)]
    BY <2>1
  <2>4. \A d \in Document : Says(c, d, g) = Says(c, d, f)
    BY <2>1, SaysLocal
  <2> QED
    BY <2>2, <2>3, <2>4
<1>4. f = [c \in ValidClauses |-> [d \in Document |-> Says(c, d, f)]]
  BY <1>3
<1>5. Holds = [c \in ValidClauses |-> [d \in Document |-> Says(c, d, Holds)]]
  BY <1>4 DEF Holds
<1> DEFINE P == {c \in ValidClauses : Holds[c] \in T}
<1>6. ASSUME NEW c \in ValidClauses, Subs(c) \subseteq P PROVE c \in P
  <2>1. \A k \in Subs(c) : Holds[k] \in [Document -> BOOLEAN]
    BY <1>6
  <2>2. \A d \in Document : Says(c, d, Holds) \in BOOLEAN
    BY <2>1, SaysType
  <2> QED
    BY <1>5, <2>2
<1>7. P = ValidClauses
  <2>1. P \subseteq ValidClauses /\ \A c \in ValidClauses : Subs(c) \subseteq P => c \in P
    BY <1>6
  <2> HIDE DEF P
  <2> QED
    BY <2>1, ClauseInduction
<1>8. DOMAIN Holds = ValidClauses /\ Holds = [c \in ValidClauses |-> Holds[c]]
  BY <1>5
<1>9. Holds \in [ValidClauses -> [Document -> BOOLEAN]]
  BY <1>7, <1>8
<1>10. \A c \in ValidClauses, d \in Document : Holds[c][d] = Says(c, d, Holds)
  BY <1>5
<1> QED
  BY <1>9, <1>10

\* What a clause asks depends on what its sub-clauses ask alone.
LEMMA AsksLocal ==
  ASSUME NEW c \in ValidClauses, NEW d \in Document, NEW f, NEW g,
         \A k \in Subs(c) : f[k] = g[k]
  PROVE  AsksOf(c, d, f) = AsksOf(c, d, g)
<1>1. CASE c.kind = "leaf"
  BY <1>1 DEF AsksOf
<1>2. CASE c.kind = "not"
  BY <1>2, SubClauses DEF AsksOf
<1>3. CASE c.kind = "exists"
  BY <1>3, SubClauses DEF AsksOf
<1>4. CASE c.kind = "logical"
  <2>1. Firsts(c.elems) \in Seq(Subs(c))
    BY <1>4, SubClauses, FirstsAre
  <2>2. ListAsks(Firsts(c.elems), d, c.op # "and", f) = ListAsks(Firsts(c.elems), d, c.op # "and", g)
    BY <2>1, ListAsksLocal
  <2> QED
    BY <1>4, <2>2 DEF AsksOf
<1>5. CASE c.kind = "cond"
  <2>1. \A p \in Part : f[ThePart(c, p)] = g[ThePart(c, p)]
    BY <1>5, SubClauses
  <2>2. f[ThePart(c, "if")] = g[ThePart(c, "if")] /\ f[ThePart(c, "then")] = g[ThePart(c, "then")]
        /\ f[ThePart(c, "else")] = g[ThePart(c, "else")]
    BY <2>1 DEF Part
  <2> QED
    BY <1>5, <2>2 DEF AsksOf
<1> QED
  BY <1>1, <1>2, <1>3, <1>4, <1>5, SubClauses

\* A clause asks atoms.
LEMMA AsksType ==
  ASSUME NEW c \in ValidClauses, NEW d \in Document, NEW f,
         \A k \in Subs(c) : f[k] \in [Document -> Seq(Atom)]
  PROVE  AsksOf(c, d, f) \in Seq(Atom)
<1>1. CASE c.kind = "leaf"
  <2>1. c.atom \in Atom
    BY <1>1, SubClauses
  <2> QED
    BY <1>1, <2>1 DEF AsksOf
<1>2. CASE c.kind = "not"
  BY <1>2, SubClauses DEF AsksOf
<1>3. CASE c.kind = "exists"
  <2>1. <<c.atom>> \in Seq(Atom) /\ << >> \in Seq(Atom)
    BY <1>3, SubClauses
  <2>2. c.spec # << >> => f[First(c.spec)][d] \in Seq(Atom)
    BY <1>3, SubClauses
  <2>3. (IF c.spec # << >> /\ d[c.atom] THEN f[First(c.spec)][d] ELSE << >>) \in Seq(Atom)
    BY <2>1, <2>2
  <2> QED
    BY <1>3, <2>1, <2>3, ConcatProperties DEF AsksOf
<1>4. CASE c.kind = "logical"
  <2>1. Firsts(c.elems) \in Seq(Subs(c))
    BY <1>4, SubClauses, FirstsAre
  <2>2. \A k \in Subs(c) : f[k][d] \in Seq(Atom)
    OBVIOUS
  <2>3. AskedInTurn(Firsts(c.elems), d, c.op # "and", f)
    BY <2>1, <2>2, ListAsksUnfold
  <2> QED
    BY <1>4, <2>3 DEF AsksOf, AskedInTurn
<1>5. CASE c.kind = "cond"
  <2>1. \A p \in Part : f[ThePart(c, p)][d] \in Seq(Atom)
    BY <1>5, SubClauses
  <2>2. f[ThePart(c, "if")][d] \in Seq(Atom)
        /\ f[ThePart(c, IF Holds[ThePart(c, "if")][d] THEN "then" ELSE "else")][d] \in Seq(Atom)
    BY <2>1 DEF Part
  <2> QED
    BY <1>5, <2>2, ConcatProperties DEF AsksOf
<1> QED
  BY <1>1, <1>2, <1>3, <1>4, <1>5, SubClauses

\* What each clause asks of each document.
LEMMA AsksIs ==
  /\ Asks \in [ValidClauses -> [Document -> Seq(Atom)]]
  /\ \A c \in ValidClauses, d \in Document : Asks[c][d] = AsksOf(c, d, Asks)
<1> DEFINE T == [Document -> Seq(Atom)]
           B == [c \in ValidClauses |->
                   [g \in [Subs(c) -> T] |-> [d \in Document |-> AsksOf(c, d, g)]]]
<1>1. Into(T, B)
  <2> SUFFICES ASSUME NEW c \in ValidClauses, NEW g \in [Subs(c) -> T], NEW d \in Document
               PROVE  AsksOf(c, d, g) \in Seq(Atom)
    BY DEF Into
  <2> QED
    BY AsksType
<1>2. PICK f \in [ValidClauses -> T] : Solves(f, B)
  <2> HIDE DEF T, B
  <2> QED
    BY <1>1, ClauseRecursion
<1>3. ASSUME NEW c \in ValidClauses PROVE f[c] = [d \in Document |-> AsksOf(c, d, f)]
  <2> DEFINE g == [k \in Subs(c) |-> f[k]]
  <2>1. g \in [Subs(c) -> T] /\ \A k \in Subs(c) : g[k] = f[k]
    BY SubClauses
  <2>2. f[c] = B[c][g]
    BY <1>2 DEF Solves
  <2> HIDE DEF g
  <2>3. B[c][g] = [d \in Document |-> AsksOf(c, d, g)]
    BY <2>1
  <2>4. \A d \in Document : AsksOf(c, d, g) = AsksOf(c, d, f)
    BY <2>1, AsksLocal
  <2> QED
    BY <2>2, <2>3, <2>4
<1>4. f = [c \in ValidClauses |-> [d \in Document |-> AsksOf(c, d, f)]]
  BY <1>3
<1>5. Asks = [c \in ValidClauses |-> [d \in Document |-> AsksOf(c, d, Asks)]]
  BY <1>4 DEF Asks
<1> DEFINE P == {c \in ValidClauses : Asks[c] \in T}
<1>6. ASSUME NEW c \in ValidClauses, Subs(c) \subseteq P PROVE c \in P
  <2>1. \A k \in Subs(c) : Asks[k] \in [Document -> Seq(Atom)]
    BY <1>6
  <2>2. \A d \in Document : AsksOf(c, d, Asks) \in Seq(Atom)
    BY <2>1, AsksType
  <2> QED
    BY <1>5, <2>2
<1>7. P = ValidClauses
  <2>1. P \subseteq ValidClauses /\ \A c \in ValidClauses : Subs(c) \subseteq P => c \in P
    BY <1>6
  <2> HIDE DEF P
  <2> QED
    BY <2>1, ClauseInduction
<1>8. DOMAIN Asks = ValidClauses /\ Asks = [c \in ValidClauses |-> Asks[c]]
  BY <1>5
<1>9. Asks \in [ValidClauses -> [Document -> Seq(Atom)]]
  BY <1>7, <1>8
<1>10. \A c \in ValidClauses, d \in Document : Asks[c][d] = AsksOf(c, d, Asks)
  <2>1. \A c \in ValidClauses : Asks[c] = [d \in Document |-> AsksOf(c, d, Asks)]
    BY <1>5
  <2> QED
    BY <2>1
<1> QED
  BY <1>9, <1>10
-----------------------------------------------------------------------------
(***************************************************************************)
(* What a clause or an op comes to on a document d: whether it holds, and  *)
(* the atoms it asks to find out.  End is what NULL comes to.              *)
(***************************************************************************)
Outcome == BOOLEAN \X Seq(Atom)
End     == << >>

OnLeaf(d, a) == <<d[a], <<a>>>>
OnNot(x)     == <<~x[1], x[2]>>

OnExists(d, a, x) ==
  IF x = End THEN OnLeaf(d, a)
  ELSE IF d[a] THEN <<x[1], <<a>> \o x[2]>> ELSE <<TRUE, <<a>>>>

OnCond(x, y, z) ==
  IF x[1] THEN <<y[1], x[2] \o y[2]>> ELSE <<z[1], x[2] \o z[2]>>

Join(op, x, y) ==
  << CASE op = "and" -> x[1] /\ y[1]
       [] op = "or"  -> x[1] \/ y[1]
       [] op = "nor" -> ~(x[1] \/ y[1]),
     IF x[1] = (op = "and") THEN x[2] \o y[2] ELSE x[2] >>

JoinEnd(op, x, y) == IF y = End THEN x ELSE Join(op, x, y)

OfClause(d, c) == <<Holds[c][d], Asks[c][d]>>

\* Whether a list of clauses holds, and what it comes to: a single one is taken
\* as it is.
ListHolds(d, op, cs) ==
  LET some(b) == \E i \in DOMAIN cs : Holds[cs[i]][d] = b
  IN  IF op = "and" THEN ~some(FALSE) ELSE some(TRUE) = (op = "or")

OfList(d, op, cs) ==
  IF cs = << >> THEN End
  ELSE IF Len(cs) = 1 THEN OfClause(d, cs[1])
  ELSE <<ListHolds(d, op, cs), ListAsks(cs, d, op # "and", Asks)>>

\* The lists whose meaning the folding keeps.
Foldable(op, n) == op = "nor" => n <= 2

\* A pair of its members.
LEMMA PairOf ==
  /\ \A x \in Outcome : x[1] \in BOOLEAN /\ x[2] \in Seq(Atom) /\ x = <<x[1], x[2]>> /\ x # End
  /\ \A b \in BOOLEAN, s \in Seq(Atom) :
       <<b, s>> \in Outcome /\ <<b, s>>[1] = b /\ <<b, s>>[2] = s
  BY DEF Outcome, End

\* Each of the above is an outcome.
LEMMA OutcomeType ==
  ASSUME NEW d \in Document
  PROVE  /\ \A a \in Atom : OnLeaf(d, a) \in Outcome
         /\ \A x \in Outcome : OnNot(x) \in Outcome
         /\ \A a \in Atom, x \in Outcome \cup {End} : OnExists(d, a, x) \in Outcome
         /\ \A x, y, z \in Outcome : OnCond(x, y, z) \in Outcome
         /\ \A op \in Opcode, x, y \in Outcome : Join(op, x, y) \in Outcome
         /\ \A c \in ValidClauses : OfClause(d, c) \in Outcome
<1>0. \A a \in Atom : d[a] \in BOOLEAN /\ <<a>> \in Seq(Atom)
  BY DEF Document
<1>1. \A a \in Atom : OnLeaf(d, a) \in Outcome
  BY <1>0, PairOf DEF OnLeaf
<1>2. \A x \in Outcome : OnNot(x) \in Outcome
  BY PairOf DEF OnNot
<1>3. ASSUME NEW a \in Atom, NEW x \in Outcome \cup {End} PROVE OnExists(d, a, x) \in Outcome
  <2>1. CASE x = End
    BY <1>1, <2>1 DEF OnExists
  <2>2. CASE x # End
    <3>1. x[1] \in BOOLEAN /\ x[2] \in Seq(Atom)
      BY <2>2, PairOf
    <3>2. <<a>> \o x[2] \in Seq(Atom)
      BY <1>0, <3>1, ConcatProperties
    <3>3. <<x[1], <<a>> \o x[2]>> \in Outcome /\ <<TRUE, <<a>>>> \in Outcome
      BY <1>0, <3>1, <3>2, PairOf
    <3> QED
      BY <2>2, <3>3 DEF OnExists
  <2> QED
    BY <2>1, <2>2
<1>4. ASSUME NEW x \in Outcome, NEW y \in Outcome, NEW z \in Outcome
      PROVE  OnCond(x, y, z) \in Outcome
  <2>1. y[1] \in BOOLEAN /\ z[1] \in BOOLEAN
        /\ x[2] \in Seq(Atom) /\ y[2] \in Seq(Atom) /\ z[2] \in Seq(Atom)
    BY PairOf
  <2>2. x[2] \o y[2] \in Seq(Atom) /\ x[2] \o z[2] \in Seq(Atom)
    BY <2>1, ConcatProperties
  <2>3. <<y[1], x[2] \o y[2]>> \in Outcome /\ <<z[1], x[2] \o z[2]>> \in Outcome
    BY <2>1, <2>2, PairOf
  <2> QED
    BY <2>3 DEF OnCond
<1>5. ASSUME NEW op \in Opcode, NEW x \in Outcome, NEW y \in Outcome
      PROVE  Join(op, x, y) \in Outcome
  <2>1. x[1] \in BOOLEAN /\ y[1] \in BOOLEAN /\ x[2] \in Seq(Atom) /\ y[2] \in Seq(Atom)
    BY PairOf
  <2>2. x[2] \o y[2] \in Seq(Atom)
    BY <2>1, ConcatProperties
  <2> DEFINE b == CASE op = "and" -> x[1] /\ y[1]
                    [] op = "or"  -> x[1] \/ y[1]
                    [] op = "nor" -> ~(x[1] \/ y[1])
             s == IF x[1] = (op = "and") THEN x[2] \o y[2] ELSE x[2]
  <2>3. b \in BOOLEAN
    BY <2>1 DEF Opcode
  <2>4. s \in Seq(Atom)
    BY <2>1, <2>2
  <2>5. Join(op, x, y) = <<b, s>>
    BY DEF Join
  <2> HIDE DEF b, s
  <2> QED
    BY <2>3, <2>4, <2>5, PairOf
<1>6. \A c \in ValidClauses : OfClause(d, c) \in Outcome
  BY HoldsIs, AsksIs, PairOf DEF OfClause
<1> QED
  BY <1>1, <1>2, <1>3, <1>4, <1>5, <1>6

\* What a list of clauses asks, unfolded once.
LEMMA AskedByList ==
  ASSUME NEW d \in Document, NEW cs \in Seq(ValidClauses), NEW stop
  PROVE  AskedInTurn(cs, d, stop, Asks)
  BY AsksIs, ListAsksUnfold

\* Whether a list holds is decided by its first clause and the rest.
HoldsInTurn(d, op, cs, t, x) ==
  LET h == IF Len(t) = 1 THEN Holds[t[1]][d] ELSE ListHolds(d, op, t)
  IN  /\ x \in BOOLEAN /\ h \in BOOLEAN
      /\ ListHolds(d, op, cs) = CASE op = "and" -> x /\ h
                                  [] op = "or"  -> x \/ h
                                  [] op = "nor" -> ~(x \/ h)

\* This is what parse_logical folds a list by.
LEMMA ListHoldsUnfold ==
  ASSUME NEW d \in Document, NEW op \in Opcode, NEW cs \in Seq(ValidClauses),
         Len(cs) > 1, Foldable(op, Len(cs)), NEW t, t = Tail(cs),
         NEW x, x = Holds[cs[1]][d]
  PROVE  HoldsInTurn(d, op, cs, t, x)
<1> DEFINE h == IF Len(t) = 1 THEN Holds[t[1]][d] ELSE ListHolds(d, op, t)
<1>1. /\ Len(cs) \in Nat /\ DOMAIN cs = 1 .. Len(cs) /\ cs # << >>
      /\ \A i \in DOMAIN cs : cs[i] \in ValidClauses
  BY InSeq
<1>2. /\ t \in Seq(ValidClauses) /\ Len(t) = Len(cs) - 1
      /\ \A i \in DOMAIN t : t[i] = cs[i + 1]
  BY <1>1, ListParts
<1>3. DOMAIN t = 1 .. Len(t) /\ \A i \in DOMAIN t : t[i] \in ValidClauses
  BY <1>2, InSeq
<1>4. /\ \A i \in DOMAIN cs : Holds[cs[i]][d] \in BOOLEAN
      /\ \A i \in DOMAIN t : Holds[t[i]][d] \in BOOLEAN
  BY <1>1, <1>3, HoldsIs
<1> DEFINE Some(l, b) == \E i \in DOMAIN l : Holds[l[i]][d] = b
<1>5. \A l : ListHolds(d, op, l) = IF op = "and" THEN ~Some(l, FALSE) ELSE Some(l, TRUE) = (op = "or")
  BY DEF ListHolds
<1>6. \A l, b : Some(l, b) \in BOOLEAN
  OBVIOUS
<1>7. ASSUME NEW b PROVE Some(cs, b) = (Holds[cs[1]][d] = b \/ Some(t, b))
  <2>1. ASSUME NEW i \in DOMAIN cs, Holds[cs[i]][d] = b
        PROVE  Holds[cs[1]][d] = b \/ Some(t, b)
    <3>1. CASE i = 1
      BY <2>1, <3>1
    <3>2. CASE i # 1
      <4>1. i - 1 \in DOMAIN t /\ (i - 1) + 1 = i
        BY <1>1, <1>2, <1>3, <3>2
      <4>2. t[i - 1] = cs[i]
        BY <1>2, <4>1
      <4> QED
        BY <2>1, <4>1, <4>2
    <3> QED
      BY <3>1, <3>2
  <2>2. ASSUME NEW i \in DOMAIN t, Holds[t[i]][d] = b PROVE Some(cs, b)
    <3>1. i + 1 \in DOMAIN cs /\ t[i] = cs[i + 1]
      BY <1>1, <1>2, <1>3
    <3> QED
      BY <2>2, <3>1
  <2>3. 1 \in DOMAIN cs
    BY <1>1
  <2> QED
    BY <2>1, <2>2, <2>3
<1>8. Len(t) = 1 => \A b : Some(t, b) = (Holds[t[1]][d] = b)
  <2> SUFFICES ASSUME Len(t) = 1, NEW b PROVE Some(t, b) <=> Holds[t[1]][d] = b
    OBVIOUS
  <2>1. DOMAIN t = {1}
    BY <1>3
  <2> QED
    BY <2>1
<1> HIDE DEF Some
<1>9. x \in BOOLEAN /\ h \in BOOLEAN
  <2>1. ListHolds(d, op, t) \in BOOLEAN
    <3>1. CASE op = "and"
      BY <1>5, <1>6, <3>1
    <3>2. CASE op # "and"
      BY <1>5, <1>6, <3>2
    <3> QED
      BY <3>1, <3>2
  <2>2. 1 \in DOMAIN cs /\ (Len(t) = 1 => 1 \in DOMAIN t)
    BY <1>1, <1>3
  <2> QED
    BY <1>4, <2>1, <2>2
<1>h. h = IF Len(t) = 1 THEN Holds[t[1]][d] ELSE ListHolds(d, op, t)
  OBVIOUS
<1> HIDE DEF h
<1>10. ASSUME op = "and" PROVE ListHolds(d, op, cs) = (x /\ h)
  <2>1. ListHolds(d, op, cs) = ~(x = FALSE \/ Some(t, FALSE))
    BY <1>5, <1>7, <1>10
  <2>2. h = ~Some(t, FALSE)
    <3>1. CASE Len(t) = 1
      <4>1. Some(t, FALSE) = (h = FALSE)
        BY <1>8, <1>h, <3>1
      <4> QED
        BY <1>9, <4>1
    <3>2. CASE Len(t) # 1
      <4>1. h = ~Some(t, FALSE)
        BY <1>5, <1>10, <1>h, <3>2
      <4> QED
        BY <4>1
    <3> QED
      BY <3>1, <3>2
  <2> QED
    BY <1>6, <1>9, <1>10, <2>1, <2>2
<1>11. ASSUME op = "or" PROVE ListHolds(d, op, cs) = (x \/ h)
  <2>1. ListHolds(d, op, cs) = (x = TRUE \/ Some(t, TRUE))
    BY <1>5, <1>7, <1>11
  <2>2. h = Some(t, TRUE)
    <3>1. CASE Len(t) = 1
      <4>1. Some(t, TRUE) = (h = TRUE)
        BY <1>8, <1>h, <3>1
      <4> QED
        BY <1>9, <4>1
    <3>2. CASE Len(t) # 1
      <4>1. h = (Some(t, TRUE) = TRUE)
        BY <1>5, <1>11, <1>h, <3>2
      <4> QED
        BY <1>6, <4>1
    <3> QED
      BY <3>1, <3>2
  <2> QED
    BY <1>6, <1>9, <1>11, <2>1, <2>2
<1>12. ASSUME op = "nor" PROVE ListHolds(d, op, cs) = ~(x \/ h)
  <2>1. ListHolds(d, op, cs) = ~(x = TRUE \/ Some(t, TRUE))
    BY <1>5, <1>7, <1>12
  <2>2. Len(t) = 1
    BY <1>1, <1>2, <1>12 DEF Foldable
  <2>3. h = Some(t, TRUE)
    BY <1>6, <1>8, <1>9, <1>h, <2>2
  <2> QED
    BY <1>6, <1>9, <1>12, <2>1, <2>3
<1>13. ListHolds(d, op, cs) = CASE op = "and" -> x /\ h
                                [] op = "or"  -> x \/ h
                                [] op = "nor" -> ~(x \/ h)
  BY <1>10, <1>11, <1>12 DEF Opcode
<1> QED
  BY <1>9, <1>13 DEF HoldsInTurn, h

\* A list is its first clause joined with the rest.
LEMMA OfListUnfold ==
  ASSUME NEW d \in Document, NEW op \in Opcode, NEW cs \in Seq(ValidClauses), cs # << >>,
         Foldable(op, Len(cs))
  PROVE  /\ OfList(d, op, cs) = JoinEnd(op, OfClause(d, cs[1]), OfList(d, op, Tail(cs)))
         /\ OfClause(d, cs[1]) \in Outcome
<1> DEFINE t == Tail(cs)
           x == OfClause(d, cs[1])
           stop == IF op = "and" THEN FALSE ELSE TRUE
<1>1. /\ Len(cs) \in Nat \ {0} /\ cs[1] \in ValidClauses
      /\ t \in Seq(ValidClauses) /\ Len(t) = Len(cs) - 1
  BY ListParts, InSeq, EmptySeq
<1>2. /\ Holds[cs[1]][d] \in BOOLEAN /\ Asks[cs[1]][d] \in Seq(Atom)
      /\ x \in Outcome /\ x[1] = Holds[cs[1]][d] /\ x[2] = Asks[cs[1]][d]
  BY <1>1, HoldsIs, AsksIs, PairOf DEF OfClause
<1>3. /\ (op # "and") = stop
      /\ (Holds[cs[1]][d] = stop) = (x[1] # (op = "and"))
  BY <1>2
<1>4. ListAsks(cs, d, stop, Asks) =
        Asks[cs[1]][d] \o (IF Holds[cs[1]][d] = stop THEN << >> ELSE ListAsks(t, d, stop, Asks))
  <2> HIDE DEF stop
  <2>1. AskedInTurn(cs, d, stop, Asks)
    BY AskedByList
  <2> QED
    BY <2>1 DEF AskedInTurn
<1> HIDE DEF t, stop
<1>5. CASE Len(cs) = 1
  <2>1. t = << >>
    BY <1>1, <1>5, EmptySeq
  <2>2. OfList(d, op, t) = End
    BY <2>1 DEF OfList
  <2>3. OfList(d, op, cs) = x
    BY <1>5 DEF OfList
  <2> HIDE DEF x
  <2> QED
    BY <1>2, <2>2, <2>3 DEF JoinEnd, t, x
<1>6. CASE Len(cs) # 1
  <2> HIDE DEF x
  <2>1. Len(t) \in Nat \ {0} /\ t # << >> /\ Len(cs) > 1
    BY <1>1, <1>6
  <2> DEFINE y == OfList(d, op, t)
             h == IF Len(t) = 1 THEN Holds[t[1]][d] ELSE ListHolds(d, op, t)
             a == ListAsks(t, d, stop, Asks)
             z == ListHolds(d, op, cs)
  <2>2. /\ x[1] \in BOOLEAN /\ h \in BOOLEAN
        /\ z = CASE op = "and" -> x[1] /\ h
                 [] op = "or"  -> x[1] \/ h
                 [] op = "nor" -> ~(x[1] \/ h)
    <3>1. t = Tail(cs)
      BY DEF t
    <3> DEFINE b == x[1]
    <3>2. b = Holds[cs[1]][d]
      BY <1>2
    <3> HIDE DEF b, h, z
    <3>3. HoldsInTurn(d, op, cs, t, b)
      BY <2>1, <3>1, <3>2, ListHoldsUnfold
    <3> QED
      BY <3>3 DEF b, h, z, HoldsInTurn
  <2>3. AskedInTurn(t, d, stop, Asks) /\ a \in Seq(Atom)
    BY <1>1, AskedByList DEF AskedInTurn
  <2>4. y = <<h, a>>
    <3>1. CASE Len(t) = 1
      <4>1. a = Asks[t[1]][d] \o (IF Holds[t[1]][d] = stop THEN << >>
                                  ELSE ListAsks(Tail(t), d, stop, Asks))
        BY <2>1, <2>3 DEF AskedInTurn
      <4>2. Tail(t) \in Seq(ValidClauses) /\ Tail(t) = << >>
        <5>1. Tail(t) \in Seq(ValidClauses) /\ Len(Tail(t)) = 0
          BY <1>1, <2>1, <3>1, ListParts
        <5> QED
          BY <5>1, EmptySeq
      <4>3. ListAsks(Tail(t), d, stop, Asks) = << >>
        BY <4>2, AskedByList DEF AskedInTurn
      <4>4. Asks[t[1]][d] \in Seq(Atom)
        BY <1>1, <2>1, ListParts, AsksIs
      <4>5. a = Asks[t[1]][d]
        <5>1. Asks[t[1]][d] \o << >> = Asks[t[1]][d]
          BY <4>4, ConcatEmptySeq
        <5> HIDE DEF a
        <5> QED
          BY <4>1, <4>3, <5>1
      <4> HIDE DEF a
      <4> QED
        BY <2>1, <3>1, <4>5 DEF OfList, OfClause
    <3>2. CASE Len(t) # 1
      <4>1. y = <<ListHolds(d, op, t), ListAsks(t, d, op # "and", Asks)>>
        BY <2>1, <3>2 DEF OfList
      <4>2. ListAsks(t, d, op # "and", Asks) = a
        BY <1>3
      <4> HIDE DEF a, y
      <4> QED
        BY <3>2, <4>1, <4>2
    <3> QED
      BY <3>1, <3>2
  <2>5. OfList(d, op, cs) = <<z, ListAsks(cs, d, stop, Asks)>>
    <3>1. OfList(d, op, cs) = <<z, ListAsks(cs, d, op # "and", Asks)>>
      BY <1>6 DEF OfList
    <3>2. ListAsks(cs, d, op # "and", Asks) = ListAsks(cs, d, stop, Asks)
      BY <1>3
    <3> HIDE DEF z
    <3> QED
      BY <3>1, <3>2
  <2> HIDE DEF y, h, a, z
  <2>6. y[1] = h /\ y[2] = a /\ y # End
    BY <2>2, <2>3, <2>4, PairOf
  <2>7. ListAsks(cs, d, stop, Asks) = IF x[1] = (op = "and") THEN x[2] \o a ELSE x[2]
    <3>1. Asks[cs[1]][d] \o << >> = Asks[cs[1]][d]
      BY <1>2, ConcatEmptySeq
    <3> QED
      BY <1>2, <1>3, <1>4, <3>1 DEF a
  <2>8. OfList(d, op, cs) = JoinEnd(op, x, y)
    BY <2>2, <2>5, <2>6, <2>7 DEF Join, JoinEnd
  <2> QED
    BY <1>2, <2>8 DEF x, y, t
<1> QED
  BY <1>5, <1>6

\* A list that is not a $nor of one clause comes to what it says and asks.
LEMMA OfListIs ==
  ASSUME NEW d \in Document, NEW op \in Opcode, NEW cs \in Seq(ValidClauses), cs # << >>,
         op = "nor" => Len(cs) # 1
  PROVE  OfList(d, op, cs) = <<ListHolds(d, op, cs), ListAsks(cs, d, op # "and", Asks)>>
<1>1. Len(cs) \in Nat \ {0} /\ DOMAIN cs = 1 .. Len(cs) /\ cs[1] \in ValidClauses
  BY ListParts, InSeq, EmptySeq
<1>2. CASE Len(cs) # 1
  BY <1>2 DEF OfList
<1>3. CASE Len(cs) = 1
  <2> DEFINE stop == op # "and"
             a == ListAsks(cs, d, stop, Asks)
  <2>1. a = Asks[cs[1]][d]
    <3>1. AskedInTurn(cs, d, stop, Asks)
      BY AskedByList
    <3>2. Tail(cs) \in Seq(ValidClauses) /\ Tail(cs) = << >>
      <4>1. Tail(cs) \in Seq(ValidClauses) /\ Len(Tail(cs)) = 0
        BY <1>1, <1>3, ListParts
      <4> QED
        BY <4>1, EmptySeq
    <3>3. AskedInTurn(Tail(cs), d, stop, Asks)
      BY <3>2, AskedByList
    <3>4. Asks[cs[1]][d] \in Seq(Atom)
      BY <1>1, AsksIs
    <3>5. Asks[cs[1]][d] \o << >> = Asks[cs[1]][d]
      BY <3>4, ConcatEmptySeq
    <3> HIDE DEF stop
    <3>6. ListAsks(Tail(cs), d, stop, Asks) = << >>
      BY <3>2, <3>3 DEF AskedInTurn
    <3> QED
      BY <3>1, <3>5, <3>6 DEF AskedInTurn
  <2>2. ListHolds(d, op, cs) = Holds[cs[1]][d]
    <3>1. Holds[cs[1]][d] \in BOOLEAN /\ DOMAIN cs = {1}
      BY <1>1, <1>3, HoldsIs
    <3>2. CASE op = "and"
      BY <3>1, <3>2 DEF ListHolds
    <3>3. CASE op = "or"
      BY <3>1, <3>3 DEF ListHolds
    <3> QED
      BY <1>3, <3>2, <3>3 DEF Opcode
  <2> HIDE DEF a
  <2> QED
    BY <1>1, <1>3, <2>1, <2>2 DEF OfList, OfClause, a
<1> QED
  BY <1>2, <1>3

\* What a clause comes to, from what its sub-clauses come to.
LEMMA OfClauseIs ==
  ASSUME NEW d \in Document, NEW c \in ValidClauses, NorIsPair(c)
  PROVE  /\ c.kind = "leaf" => OfClause(d, c) = OnLeaf(d, c.atom)
         /\ c.kind = "not" => OfClause(d, c) = OnNot(OfClause(d, c.kid))
         /\ c.kind = "exists" =>
              OfClause(d, c) = OnExists(d, c.atom, IF c.spec = << >> THEN End
                                                   ELSE OfClause(d, First(c.spec)))
         /\ c.kind = "logical" => OfClause(d, c) = OfList(d, c.op, Firsts(c.elems))
         /\ c.kind = "cond" =>
              OfClause(d, c) = OnCond(OfClause(d, ThePart(c, "if")),
                                      OfClause(d, ThePart(c, "then")),
                                      OfClause(d, ThePart(c, "else")))
<1>1. OfClause(d, c) = <<Says(c, d, Holds), AsksOf(c, d, Asks)>>
  BY HoldsIs, AsksIs DEF OfClause
<1>2. \A k \in Subs(c) :
        /\ OfClause(d, k) \in Outcome /\ OfClause(d, k) # End
        /\ OfClause(d, k)[1] = Holds[k][d] /\ OfClause(d, k)[2] = Asks[k][d]
        /\ Holds[k][d] \in BOOLEAN /\ Asks[k][d] \in Seq(Atom)
  <2> SUFFICES ASSUME NEW k \in Subs(c)
               PROVE  /\ OfClause(d, k) \in Outcome /\ OfClause(d, k) # End
                      /\ OfClause(d, k)[1] = Holds[k][d] /\ OfClause(d, k)[2] = Asks[k][d]
                      /\ Holds[k][d] \in BOOLEAN /\ Asks[k][d] \in Seq(Atom)
    OBVIOUS
  <2>1. Holds[k][d] \in BOOLEAN /\ Asks[k][d] \in Seq(Atom)
    BY SubClauses, HoldsIs, AsksIs
  <2> QED
    BY <2>1, PairOf DEF OfClause
<1>3. ASSUME c.kind = "leaf" PROVE OfClause(d, c) = OnLeaf(d, c.atom)
  BY <1>1, <1>3 DEF Says, AsksOf, OnLeaf
<1>4. ASSUME c.kind = "not" PROVE OfClause(d, c) = OnNot(OfClause(d, c.kid))
  <2>1. c.kid \in Subs(c)
    BY <1>4, SubClauses
  <2>2. Says(c, d, Holds) = ~Holds[c.kid][d] /\ AsksOf(c, d, Asks) = Asks[c.kid][d]
    BY <1>4 DEF Says, AsksOf
  <2> QED
    BY <1>1, <1>2, <2>1, <2>2 DEF OnNot
<1>5. ASSUME c.kind = "exists"
      PROVE  OfClause(d, c) = OnExists(d, c.atom, IF c.spec = << >> THEN End
                                                  ELSE OfClause(d, First(c.spec)))
  <2>0. d[c.atom] \in BOOLEAN /\ <<c.atom>> \in Seq(Atom) /\ <<c.atom>> \o << >> = <<c.atom>>
    <3>1. c.atom \in Atom
      BY <1>5, SubClauses
    <3> QED
      BY <3>1 DEF Document
  <2>1. CASE c.spec = << >>
    <3>1. Says(c, d, Holds) = d[c.atom] /\ AsksOf(c, d, Asks) = <<c.atom>>
      BY <1>5, <2>0, <2>1 DEF Says, AsksOf
    <3> QED
      BY <1>1, <2>1, <3>1 DEF OnExists, OnLeaf
  <2>2. CASE c.spec # << >>
    <3> DEFINE k == First(c.spec)
               x == OfClause(d, k)
    <3>1. k \in Subs(c)
      BY <1>5, <2>2, SubClauses
    <3> HIDE DEF k
    <3>2. x # End /\ x[1] = Holds[k][d] /\ x[2] = Asks[k][d] /\ Holds[k][d] \in BOOLEAN
      BY <1>2, <3>1
    <3> HIDE DEF x
    <3>3. Says(c, d, Holds) = (d[c.atom] => Holds[k][d])
      BY <1>5, <2>2 DEF Says, k
    <3>4. AsksOf(c, d, Asks) = <<c.atom>> \o (IF d[c.atom] THEN Asks[k][d] ELSE << >>)
      BY <1>5, <2>2 DEF AsksOf, k
    <3>5. OnExists(d, c.atom, x) = IF d[c.atom] THEN <<x[1], <<c.atom>> \o x[2]>> ELSE <<TRUE, <<c.atom>>>>
      BY <3>2 DEF OnExists
    <3>6. CASE d[c.atom]
      <4>1. Says(c, d, Holds) = x[1] /\ AsksOf(c, d, Asks) = <<c.atom>> \o x[2]
        BY <3>2, <3>3, <3>4, <3>6
      <4> QED
        BY <1>1, <2>2, <3>5, <3>6, <4>1 DEF x, k
    <3>7. CASE ~d[c.atom]
      <4>1. Says(c, d, Holds) = TRUE /\ AsksOf(c, d, Asks) = <<c.atom>>
        BY <2>0, <3>2, <3>3, <3>4, <3>7
      <4> QED
        BY <1>1, <2>2, <3>5, <3>7, <4>1 DEF x, k
    <3> QED
      BY <3>6, <3>7
  <2> QED
    BY <2>1, <2>2
<1>6. ASSUME c.kind = "logical" PROVE OfClause(d, c) = OfList(d, c.op, Firsts(c.elems))
  <2>1. /\ c.op \in Opcode /\ c.elems \in Seq(Element) /\ c.elems # << >>
        /\ \A i \in DOMAIN c.elems : First(c.elems[i]) \in ValidClauses
    BY <1>6, SubClauses
  <2> DEFINE cs == Firsts(c.elems)
  <2>2. /\ cs \in Seq(ValidClauses) /\ Len(cs) = Len(c.elems) /\ DOMAIN cs = DOMAIN c.elems
        /\ \A i \in DOMAIN c.elems : cs[i] = First(c.elems[i])
    BY <2>1, FirstsAre
  <2> HIDE DEF cs
  <2>3. cs # << >> /\ (c.op = "nor" => Len(cs) # 1)
    <3>1. Len(c.elems) # 0
      BY <2>1, EmptySeq
    <3>2. c.op = "nor" => Len(c.elems) = 2
      BY <1>6 DEF NorIsPair
    <3>3. cs # << >>
      BY <2>2, <3>1, EmptySeq
    <3> QED
      BY <2>2, <3>2, <3>3
  <2>4. OfList(d, c.op, cs) = <<ListHolds(d, c.op, cs), ListAsks(cs, d, c.op # "and", Asks)>>
    BY <2>1, <2>2, <2>3, OfListIs
  <2>5. Says(c, d, Holds) = ListHolds(d, c.op, cs)
    <3>1. \A b : (\E i \in DOMAIN c.elems : Holds[First(c.elems[i])][d] = b)
                   = (\E i \in DOMAIN cs : Holds[cs[i]][d] = b)
      BY <2>2
    <3> QED
      BY <1>6, <3>1 DEF Says, ListHolds
  <2>6. AsksOf(c, d, Asks) = ListAsks(cs, d, c.op # "and", Asks)
    BY <1>6 DEF AsksOf, cs
  <2> QED
    BY <1>1, <2>4, <2>5, <2>6 DEF cs
<1>7. ASSUME c.kind = "cond"
      PROVE  OfClause(d, c) = OnCond(OfClause(d, ThePart(c, "if")),
                                     OfClause(d, ThePart(c, "then")),
                                     OfClause(d, ThePart(c, "else")))
  <2> DEFINE i == ThePart(c, "if")
             t == ThePart(c, "then")
             e == ThePart(c, "else")
  <2>1. i \in Subs(c) /\ t \in Subs(c) /\ e \in Subs(c)
    BY <1>7, SubClauses DEF Part
  <2>2. Says(c, d, Holds) = IF Holds[i][d] THEN Holds[t][d] ELSE Holds[e][d]
    BY <1>7 DEF Says
  <2>3. AsksOf(c, d, Asks) = IF Holds[i][d] THEN Asks[i][d] \o Asks[t][d]
                             ELSE Asks[i][d] \o Asks[e][d]
    BY <1>7 DEF AsksOf
  <2> HIDE DEF i, t, e
  <2>4. OfClause(d, c) = OnCond(OfClause(d, i), OfClause(d, t), OfClause(d, e))
    BY <1>1, <1>2, <2>1, <2>2, <2>3 DEF OnCond
  <2> QED
    BY <2>4 DEF i, t, e
<1> QED
  BY <1>3, <1>4, <1>5, <1>6, <1>7

\* A query comes to what the properties compare the answers with.
LEMMA OfQuery ==
  ASSUME NEW d \in Document, query \in Seq(Clause), Valid
  PROVE  /\ query \in Seq(ValidClauses) /\ query # << >>
         /\ OfList(d, "and", query) = <<Meaning(d), Asked(d)>>
         /\ OfList(d, "and", query) \in Outcome
<1>1. /\ query \in Seq(ValidClauses) /\ query # << >> /\ DOMAIN query = 1 .. Len(query)
      /\ \A i \in DOMAIN query : query[i] \in ValidClauses
  <2>1. Len(query) \in Nat /\ DOMAIN query = 1 .. Len(query) /\ query # << >>
        /\ \A i \in DOMAIN query : query[i] \in Clause /\ ValidClause[query[i]]
    BY InSeq DEF Valid
  <2>2. \A i \in DOMAIN query : query[i] \in ValidClauses
    BY <2>1 DEF ValidClauses
  <2> QED
    BY <2>1, <2>2, IsASeq
<1>2. OfList(d, "and", query) = <<ListHolds(d, "and", query), ListAsks(query, d, "and" # "and", Asks)>>
  BY <1>1, OfListIs DEF Opcode
<1>3. ListHolds(d, "and", query) = Meaning(d)
  <2>1. \A i \in DOMAIN query : Holds[query[i]][d] \in BOOLEAN
    BY <1>1, HoldsIs
  <2> QED
    BY <2>1 DEF ListHolds, Meaning
<1>4. ListAsks(query, d, "and" # "and", Asks) = Asked(d)
  <2>1. ("and" # "and") = FALSE
    OBVIOUS
  <2> QED
    BY <2>1 DEF Asked
<1>5. Meaning(d) \in BOOLEAN /\ Asked(d) \in Seq(Atom)
  <2>1. AskedInTurn(query, d, FALSE, Asks)
    BY <1>1, AskedByList
  <2> QED
    BY <2>1 DEF AskedInTurn, Asked, Meaning
<1> QED
  BY <1>1, <1>2, <1>3, <1>4, <1>5, PairOf
-----------------------------------------------------------------------------
(***************************************************************************)
(* What the ops of a heap come to on a document d.                         *)
(***************************************************************************)
Result == Outcome \cup {End}

OfRef(val, r) == IF r = 0 THEN End ELSE val[r]

NodeOutcome(n, d, val) ==
  CASE n.tag = "leaf"   -> OnLeaf(d, n.atom)
    [] n.tag = "exists" -> OnExists(d, n.atom, OfRef(val, n.kids[1]))
    [] n.tag = "not"    -> OnNot(val[n.kids[1]])
    [] n.tag = "cond"   -> OnCond(val[n.kids[1]], val[n.kids[2]], val[n.kids[3]])
    [] OTHER            -> Join(n.tag, val[n.kids[1]], val[n.kids[2]])

Consistent(h, d, val) ==
  \A n \in DOMAIN h : val[n] \in Outcome /\ val[n] = NodeOutcome(h[n], d, val)

\* What the new ops come to does not change what the old ones come to.
LEMMA ConsistentBefore ==
  ASSUME NEW h \in Seq(Node), NEW new \in Seq(Node), NEW d, NEW val,
         Consistent(h \o new, d, val)
  PROVE  Consistent(h, d, val)
<1> DEFINE g == h \o new
<1>1. DOMAIN h \subseteq DOMAIN g /\ \A n \in DOMAIN h : g[n] = h[n]
  BY HeapGrows
<1>2. \A n \in DOMAIN g : val[n] \in Outcome /\ val[n] = NodeOutcome(g[n], d, val)
  BY DEF Consistent
<1> HIDE DEF g
<1> QED
  BY <1>1, <1>2 DEF Consistent

\* What an op just made comes to.
LEMMA ConsistentNew ==
  ASSUME NEW h \in Seq(Node), NEW n \in Node, NEW d, NEW val,
         Consistent(Append(h, n), d, val)
  PROVE  /\ val[Len(h) + 1] \in Outcome
         /\ val[Len(h) + 1] = NodeOutcome(n, d, val)
<1> DEFINE g == Append(h, n)
<1>1. Len(h) + 1 \in DOMAIN g /\ g[Len(h) + 1] = n
  OBVIOUS
<1>2. \A m \in DOMAIN g : val[m] \in Outcome /\ val[m] = NodeOutcome(g[m], d, val)
  BY DEF Consistent
<1> HIDE DEF g
<1> QED
  BY <1>1, <1>2

\* The outcomes of each kind of op.
LEMMA NodeOutcomes ==
  ASSUME NEW d, NEW val
  PROVE  /\ \A a \in Atom : NodeOutcome(LeafNode(a), d, val) = OnLeaf(d, a)
         /\ \A a \in Atom, r \in Ref :
              NodeOutcome(ExistsNode(a, r), d, val) = OnExists(d, a, OfRef(val, r))
         /\ \A r \in Ref : NodeOutcome(NotNode(r), d, val) = OnNot(val[r])
         /\ \A op \in Opcode, l, r \in Ref :
              NodeOutcome(LogicalNode(op, l, r), d, val) = Join(op, val[l], val[r])
         /\ \A got : NodeOutcome(CondNode(got), d, val) =
              OnCond(val[got["if"]], val[got["then"]], val[got["else"]])
  BY DEF NodeOutcome, LeafNode, ExistsNode, NotNode, LogicalNode, CondNode, Opcode

\* The ops of a valid query come to something: they nest finitely deep.
LEMMA OutcomesExist ==
  ASSUME TypeOK, OneOwner, NodesInv, Valid, NEW d \in Document
  PROVE  \E val : Consistent(heap, d, val)
<1> DEFINE C == 1 .. Len(heap)
           depth == [n \in C |-> n]
           K == [n \in C |-> KidsOf(heap[n])]
           B == [n \in C |-> [g \in [K[n] -> Outcome] |-> NodeOutcome(heap[n], d, g)]]
<1>0. DOMAIN heap = C /\ Len(heap) \in Nat
  BY DEF TypeOK
<1>1. ASSUME NEW n \in C
      PROVE  /\ KidsOf(heap[n]) \subseteq 1 .. n - 1
             /\ KidsOf(heap[n]) \subseteq C
    BY <1>0 DEF OneOwner, Grounded
<1>2. ASSUME NEW n \in C, NEW g, \A k \in KidsOf(heap[n]) : g[k] \in Outcome
      PROVE  NodeOutcome(heap[n], d, g) \in Outcome
  <2> DEFINE m == heap[n]
  <2>1. /\ m \in Node
        /\ m.tag # "exists" => \A i \in DOMAIN m.kids : m.kids[i] # 0
        /\ m.tag \in {"exists", "not"} => DOMAIN m.kids = {1}
        /\ m.tag \in Opcode => DOMAIN m.kids = {1, 2}
        /\ m.tag = "cond" => DOMAIN m.kids = {1, 2, 3}
    BY <1>0, KidThere
  <2> HIDE DEF m
  <2>2. /\ m.tag \in {"leaf", "exists", "not", "cond"} \cup Opcode
        /\ m.tag \in {"leaf", "exists"} => m.atom \in Atom
    BY <2>1 DEF Node, Opcode
  <2>3. \A i \in DOMAIN m.kids : m.kids[i] # 0 => g[m.kids[i]] \in Outcome
    BY <1>2 DEF KidsOf, m
  <2>4. CASE m.tag = "leaf"
    BY <2>2, <2>4, OutcomeType DEF NodeOutcome, m
  <2>5. CASE m.tag = "exists"
    <3>1. OfRef(g, m.kids[1]) \in Outcome \cup {End}
      BY <2>1, <2>3, <2>5 DEF OfRef
    <3> QED
      BY <2>2, <2>5, <3>1, OutcomeType DEF NodeOutcome, m
  <2>6. CASE m.tag = "not"
    <3>1. g[m.kids[1]] \in Outcome
      BY <2>1, <2>3, <2>6
    <3> QED
      BY <2>6, <3>1, OutcomeType DEF NodeOutcome, m
  <2>7. CASE m.tag = "cond"
    <3>1. g[m.kids[1]] \in Outcome /\ g[m.kids[2]] \in Outcome /\ g[m.kids[3]] \in Outcome
      BY <2>1, <2>3, <2>7
    <3> QED
      BY <2>7, <3>1, OutcomeType DEF NodeOutcome, m
  <2>8. CASE m.tag \in Opcode
    <3>1. g[m.kids[1]] \in Outcome /\ g[m.kids[2]] \in Outcome
      BY <2>1, <2>3, <2>8 DEF Opcode
    <3>2. NodeOutcome(m, d, g) = Join(m.tag, g[m.kids[1]], g[m.kids[2]])
      BY <2>8 DEF NodeOutcome, Opcode
    <3> QED
      BY <2>8, <3>1, <3>2, OutcomeType DEF m
  <2> QED
    BY <2>2, <2>4, <2>5, <2>6, <2>7, <2>8
<1>3. Recursive(C, Outcome, depth, K, B)
  <2>1. depth \in [C -> Nat] /\ K \in [C -> SUBSET C]
    BY <1>0, <1>1
  <2>2. \A n \in C : \A k \in K[n] : depth[k] < depth[n]
    <3> SUFFICES ASSUME NEW n \in C, NEW k \in KidsOf(heap[n]) PROVE k \in C /\ k < n
      OBVIOUS
    <3> QED
      BY <1>0, <1>1
  <2>3. \A n \in C : \A g \in [K[n] -> Outcome] : B[n][g] \in Outcome
    <3> SUFFICES ASSUME NEW n \in C, NEW g \in [KidsOf(heap[n]) -> Outcome]
                 PROVE  NodeOutcome(heap[n], d, g) \in Outcome
      OBVIOUS
    <3> QED
      BY <1>2
  <2> HIDE DEF C, K, B, depth
  <2> QED
    BY <2>1, <2>2, <2>3 DEF Recursive
<1>4. PICK val \in [C -> Outcome] : \A n \in C : val[n] = B[n][[k \in K[n] |-> val[k]]]
  <2> HIDE DEF C, K, B, depth
  <2> QED
    BY <1>3, RecursionExists
<1>5. ASSUME NEW n \in C PROVE val[n] = NodeOutcome(heap[n], d, val)
  <2> DEFINE g == [k \in K[n] |-> val[k]]
             m == heap[n]
  <2>1. g \in [K[n] -> Outcome] /\ \A k \in KidsOf(m) : g[k] = val[k]
    BY <1>1
  <2>2. val[n] = B[n][g]
    BY <1>4
  <2> HIDE DEF g
  <2>3. B[n][g] = NodeOutcome(m, d, g)
    BY <2>1
  <2>4. /\ m \in Node
        /\ m.tag # "exists" => \A i \in DOMAIN m.kids : m.kids[i] # 0
        /\ m.tag \in {"exists", "not"} => DOMAIN m.kids = {1}
        /\ m.tag \in Opcode => DOMAIN m.kids = {1, 2}
        /\ m.tag = "cond" => DOMAIN m.kids = {1, 2, 3}
    BY <1>0, KidThere
  <2> HIDE DEF m
  <2>5. \A i \in DOMAIN m.kids : m.kids[i] # 0 => g[m.kids[i]] = val[m.kids[i]]
    BY <2>1 DEF KidsOf
  <2>6. m.tag \in {"leaf", "exists", "not", "cond"} \cup Opcode
    BY <2>4 DEF Node
  <2>7. NodeOutcome(m, d, g) = NodeOutcome(m, d, val)
    <3>1. CASE m.tag = "leaf"
      BY <3>1 DEF NodeOutcome
    <3>2. CASE m.tag = "exists"
      <4>1. OfRef(g, m.kids[1]) = OfRef(val, m.kids[1])
        BY <2>4, <2>5, <3>2 DEF OfRef
      <4> QED
        BY <3>2, <4>1 DEF NodeOutcome
    <3>3. CASE m.tag = "not"
      <4>1. g[m.kids[1]] = val[m.kids[1]]
        BY <2>4, <2>5, <3>3
      <4> QED
        BY <3>3, <4>1 DEF NodeOutcome
    <3>4. CASE m.tag = "cond"
      <4>1. /\ g[m.kids[1]] = val[m.kids[1]] /\ g[m.kids[2]] = val[m.kids[2]]
            /\ g[m.kids[3]] = val[m.kids[3]]
        BY <2>4, <2>5, <3>4
      <4> QED
        BY <3>4, <4>1 DEF NodeOutcome
    <3>5. CASE m.tag \in Opcode
      <4>1. g[m.kids[1]] = val[m.kids[1]] /\ g[m.kids[2]] = val[m.kids[2]]
        BY <2>4, <2>5, <3>5 DEF Opcode
      <4> QED
        BY <3>5, <4>1 DEF NodeOutcome, Opcode
    <3> QED
      BY <2>6, <3>1, <3>2, <3>3, <3>4, <3>5
  <2> QED
    BY <2>2, <2>3, <2>7 DEF m
<1>6. \A n \in C : val[n] \in Outcome
  BY <1>4
<1> QED
  BY <1>0, <1>5, <1>6 DEF Consistent
-----------------------------------------------------------------------------
(***************************************************************************)
(* Compiling.  Caller f, given an op that comes to x, goes on to return    *)
(* one that comes to y.                                                    *)
(***************************************************************************)
LinkLogical(f, d, val, x, y) ==
  LET rest == OfList(d, f.op, Firsts(f.items))
      left == OfRef(val, f.left)
  IN  /\ f.at = "left" => /\ y = JoinEnd(f.op, x, rest)
                          /\ f.op = "nor" => Len(f.items) <= 1
      /\ f.at = "right" => /\ y = Join(f.op, left, JoinEnd(f.op, x, rest))
                           /\ f.op = "nor" => Len(f.items) = 0
      /\ f.at = "more" =>
           y = Join(f.op, left, JoinEnd(f.op, OfRef(val, f.right), x))

\* pm is what the parts of the $cond should come to.
LinkCond(f, looping, d, val, x, y) ==
  \E pm \in [Part -> Outcome] :
    /\ y = OnCond(pm["if"], pm["then"], pm["else"])
    /\ \A p \in f.ok : pm[p] = OfRef(val, f.got[p])
    /\ \A i \in DOMAIN f.items : pm[f.items[i].part] = OfClause(d, First(f.items[i].elem))
    /\ ~looping => x = pm[f.at]

Link(f, looping, d, val, x, y) ==
  /\ f.fn = "logical" => LinkLogical(f, d, val, x, y)
  /\ f.fn = "not" => y = OnNot(x)
  /\ f.fn = "exists" => y = OnExists(d, f.atom, x)
  /\ f.fn = "cond" => LinkCond(f, looping, d, val, x, y)

\* If the innermost caller of s gets x, the outermost returns root.
Leads(s, looping, d, val, x, root) ==
  \E want \in [Nat -> Result] :
    /\ want[1] = root /\ want[Len(s) + 1] = x
    /\ \A k \in DOMAIN s : Link(s[k], looping /\ k = Len(s), d, val, want[k + 1], want[k])

\* The register is about to come to x.
Promises(c, d, val, x) ==
  /\ c.do = "parse" => x = OfClause(d, c.clause)
  /\ c.do = "logical" =>
       x = OfList(d, c.op, Firsts(c.items)) /\ Foldable(c.op, Len(c.items))
  /\ c.do = "return" => x = OfRef(val, c.ref)
  /\ c.do = "compiled" => x = OfRef(val, c.root)

\* A caller is pushed.
LEMMA LeadsPush ==
  ASSUME NEW s \in Seq(Frame), NEW f, NEW looping \in BOOLEAN, NEW d, NEW val,
         NEW x \in Result, NEW y, NEW root,
         Leads(s, FALSE, d, val, y, root), Link(f, looping, d, val, x, y)
  PROVE  Leads(Append(s, f), looping, d, val, x, root)
<1> DEFINE t == Append(s, f)
<1>1. /\ Len(t) = Len(s) + 1 /\ Len(s) \in Nat
      /\ DOMAIN t = 1 .. Len(s) + 1 /\ DOMAIN s = 1 .. Len(s)
      /\ \A k \in 1 .. Len(s) : t[k] = s[k]
      /\ t[Len(s) + 1] = f
  BY AppendProperties
<1> HIDE DEF t
<1>2. PICK want \in [Nat -> Result] :
        /\ want[1] = root /\ want[Len(s) + 1] = y
        /\ \A k \in DOMAIN s : Link(s[k], FALSE /\ k = Len(s), d, val, want[k + 1], want[k])
  BY DEF Leads
<1> DEFINE next == [want EXCEPT ![Len(s) + 2] = x]
<1>3. /\ next \in [Nat -> Result] /\ next[1] = root /\ next[Len(s) + 1] = y
      /\ next[Len(s) + 2] = x
      /\ \A k \in 1 .. Len(s) : next[k] = want[k] /\ next[k + 1] = want[k + 1]
  BY <1>1, <1>2
<1> HIDE DEF next
<1>4. ASSUME NEW k \in DOMAIN t
      PROVE  Link(t[k], looping /\ k = Len(t), d, val, next[k + 1], next[k])
  <2>1. CASE k = Len(s) + 1
    <3>1. (looping /\ k = Len(t)) = looping /\ k + 1 = Len(s) + 2
      BY <1>1, <2>1
    <3> QED
      BY <1>1, <1>3, <2>1, <3>1
  <2>2. CASE k # Len(s) + 1
    <3>1. k \in 1 .. Len(s)
      BY <1>1, <2>2
    <3>2. (looping /\ k = Len(t)) = FALSE /\ (FALSE /\ k = Len(s)) = FALSE
      BY <1>1, <2>2
    <3>3. Link(s[k], FALSE /\ k = Len(s), d, val, want[k + 1], want[k])
      BY <1>1, <1>2, <3>1
    <3> QED
      BY <1>1, <1>3, <3>1, <3>2, <3>3
  <2> QED
    BY <2>1, <2>2
<1>5. Len(t) + 1 = Len(s) + 2
  BY <1>1
<1>6. next[Len(t) + 1] = x
  BY <1>3, <1>5
<1>7. Leads(t, looping, d, val, x, root)
  BY <1>3, <1>4, <1>6 DEF Leads
<1> QED
  BY <1>7 DEF t

\* The innermost caller is about to return.
LEMMA LeadsPop ==
  ASSUME NEW s \in Seq(Frame), s # << >>, NEW looping \in BOOLEAN, NEW d, NEW val,
         NEW x, NEW root, Leads(s, looping, d, val, x, root)
  PROVE  \E y \in Result : /\ Link(s[Len(s)], looping, d, val, x, y)
                           /\ Leads(Under(s), FALSE, d, val, y, root)
<1>1. /\ Len(s) \in Nat \ {0} /\ Len(Under(s)) = Len(s) - 1 /\ DOMAIN s = 1 .. Len(s)
      /\ Under(s) \in Seq(Frame)
      /\ \A k \in 1 .. Len(s) - 1 : Under(s)[k] = s[k]
  BY FrontType
<1>2. PICK want \in [Nat -> Result] :
        /\ want[1] = root /\ want[Len(s) + 1] = x
        /\ \A k \in DOMAIN s : Link(s[k], looping /\ k = Len(s), d, val, want[k + 1], want[k])
  BY DEF Leads
<1>3. (looping /\ Len(s) = Len(s)) = looping /\ Len(s) \in DOMAIN s
  BY <1>1
<1>4. Link(s[Len(s)], looping, d, val, x, want[Len(s)]) /\ want[Len(s)] \in Result
  BY <1>1, <1>2, <1>3
<1> DEFINE u == Under(s)
<1>5. DOMAIN u = 1 .. Len(s) - 1
  BY <1>1
<1>6. ASSUME NEW k \in DOMAIN u
      PROVE  Link(u[k], FALSE /\ k = Len(u), d, val, want[k + 1], want[k])
  <2>1. k \in 1 .. Len(s) - 1 /\ k \in DOMAIN s /\ k # Len(s)
    BY <1>1, <1>5
  <2>2. (looping /\ k = Len(s)) = FALSE /\ (FALSE /\ k = Len(u)) = FALSE
    BY <2>1
  <2>3. Link(s[k], looping /\ k = Len(s), d, val, want[k + 1], want[k])
    BY <1>2, <2>1
  <2> QED
    BY <1>1, <2>1, <2>2, <2>3
<1>7. want[1] = root /\ want[Len(u) + 1] = want[Len(s)]
  BY <1>1, <1>2
<1> HIDE DEF u
<1>8. Leads(u, FALSE, d, val, want[Len(s)], root)
  BY <1>6, <1>7 DEF Leads
<1> QED
  BY <1>4, <1>8 DEF u

\* With no caller left, the register is what mongoc_matcher_new returns.
LEMMA LeadsHome ==
  ASSUME NEW looping \in BOOLEAN, NEW d, NEW val, NEW x, NEW root,
         Leads(<< >>, looping, d, val, x, root)
  PROVE  x = root
  BY DEF Leads

\* Every $nor the parser reads in a faithful query is a pair.
LEMMA NorsRead ==
  ASSUME query \in Seq(Clause), Faithful
  PROVE  \A c \in Read : NorIsPair(c)
<1> DEFINE P == {c \in Clause : NorsArePairs[c] => \A x \in Within[c] : NorIsPair(x)}
<1>1. ASSUME NEW c \in Clause, \A k \in Clause : Depth[k] < Depth[c] => k \in P
      PROVE  c \in P
  <2> SUFFICES ASSUME NorsArePairs[c], NEW x \in Within[c] PROVE NorIsPair(x)
    OBVIOUS
  <2>1. NorIsPair(c) /\ \A k \in Subs(c) : NorsArePairs[k]
    BY NorsArePairsIs
  <2>2. \A k \in Subs(c) : k \in P
    BY <1>1, SubsAreClauses, DepthAssumption
  <2>3. x = c \/ \E k \in Subs(c) : x \in Within[k]
    BY WithinIs
  <2> QED
    BY <2>1, <2>2, <2>3
<1>2. P = Clause
  <2>1. P \subseteq Clause /\ Depth \in [Clause -> Nat]
    BY DepthAssumption
  <2>2. \A c \in Clause : (\A k \in Clause : Depth[k] < Depth[c] => k \in P) => c \in P
    BY <1>1
  <2> HIDE DEF P
  <2> QED
    BY <2>1, <2>2, Shallowest
<1>3. \A i \in DOMAIN query : query[i] \in Clause /\ NorsArePairs[query[i]]
  BY InSeq DEF Faithful
<1> QED
  BY <1>2, <1>3 DEF Read

\* A list comes to something, if it has clauses.
LEMMA OfListType ==
  ASSUME NEW d \in Document, NEW op \in Opcode, NEW cs \in Seq(ValidClauses)
  PROVE  /\ cs = << >> => OfList(d, op, cs) = End
         /\ cs # << >> => OfList(d, op, cs) \in Outcome
<1>1. cs = << >> => OfList(d, op, cs) = End
  BY DEF OfList
<1>2. ASSUME cs # << >> PROVE OfList(d, op, cs) \in Outcome
  <2>1. CASE Len(cs) = 1
    <3>1. OfClause(d, cs[1]) \in Outcome
      BY <1>2, ListParts, OutcomeType
    <3> QED
      BY <1>2, <2>1, <3>1 DEF OfList
  <2>2. CASE Len(cs) # 1
    <3>1. ListHolds(d, op, cs) \in BOOLEAN
      BY DEF ListHolds
    <3>2. ListAsks(cs, d, op # "and", Asks) \in Seq(Atom)
      BY AskedByList DEF AskedInTurn
    <3> QED
      BY <1>2, <2>2, <3>1, <3>2, PairOf DEF OfList
  <2> QED
    BY <2>1, <2>2
<1> QED
  BY <1>1, <1>2

\* The list the parser has before it.
LEMMA OfElements ==
  ASSUME NEW d \in Document, NEW op \in Opcode, NEW es \in Seq(Element), ValidElements(es)
  PROVE  /\ es = << >> => OfList(d, op, Firsts(es)) = End
         /\ es # << >> =>
              /\ Head(Head(es)) \in ValidClauses /\ Head(es) # << >>
              /\ OfClause(d, Head(Head(es))) \in Outcome
              /\ Tail(es) \in Seq(Element) /\ Len(Tail(es)) = Len(es) - 1
              /\ OfList(d, op, Firsts(es)) \in Outcome
              /\ Foldable(op, Len(es)) =>
                   OfList(d, op, Firsts(es)) =
                     JoinEnd(op, OfClause(d, Head(Head(es))), OfList(d, op, Firsts(Tail(es))))
<1>1. \A i \in DOMAIN es : First(es[i]) \in ValidClauses /\ es[i] # << >>
  <2> SUFFICES ASSUME NEW i \in DOMAIN es
               PROVE  First(es[i]) \in ValidClauses /\ es[i] # << >>
    OBVIOUS
  <2>1. es[i] \in Seq(Clause) /\ es[i] # << >> /\ ValidClause[First(es[i])]
    BY InSeq DEF ValidElements, ValidElement, Element
  <2>2. First(es[i]) \in Clause
    BY <2>1, ListParts DEF First
  <2> QED
    BY <2>1, <2>2 DEF ValidClauses
<1>2. /\ Firsts(es) \in Seq(ValidClauses) /\ Len(Firsts(es)) = Len(es)
      /\ \A i \in DOMAIN es : Firsts(es)[i] = First(es[i])
      /\ es # << >> => Firsts(Tail(es)) = Tail(Firsts(es))
  BY <1>1, FirstsAre
<1>3. ASSUME es = << >> PROVE OfList(d, op, Firsts(es)) = End
  <2>1. Firsts(es) = << >>
    BY <1>2, <1>3, EmptySeq
  <2> QED
    BY <2>1 DEF OfList
<1>4. ASSUME es # << >>
      PROVE  /\ Head(Head(es)) \in ValidClauses /\ Head(es) # << >>
             /\ OfClause(d, Head(Head(es))) \in Outcome
             /\ Tail(es) \in Seq(Element) /\ Len(Tail(es)) = Len(es) - 1
             /\ OfList(d, op, Firsts(es)) \in Outcome
             /\ Foldable(op, Len(es)) =>
                  OfList(d, op, Firsts(es)) =
                    JoinEnd(op, OfClause(d, Head(Head(es))), OfList(d, op, Firsts(Tail(es))))
  <2>1. 1 \in DOMAIN es /\ Head(es) = es[1] /\ Tail(es) \in Seq(Element)
        /\ Len(Tail(es)) = Len(es) - 1
    BY <1>4, ListParts
  <2>2. Head(Head(es)) \in ValidClauses /\ Head(es) # << >> /\ Firsts(es)[1] = Head(Head(es))
    BY <1>1, <1>2, <2>1 DEF First
  <2>3. Firsts(es) # << >>
    <3>1. Len(es) \in Nat /\ 1 \in 1 .. Len(es)
      BY <2>1
    <3> QED
      BY <1>2, <3>1, EmptySeq
  <2>4. OfClause(d, Head(Head(es))) \in Outcome
    BY <2>2, OutcomeType
  <2>5. OfList(d, op, Firsts(es)) \in Outcome
    BY <1>2, <2>3, OfListType
  <2>6. ASSUME Foldable(op, Len(es))
        PROVE  OfList(d, op, Firsts(es)) =
                 JoinEnd(op, OfClause(d, Head(Head(es))), OfList(d, op, Firsts(Tail(es))))
    <3>1. Foldable(op, Len(Firsts(es)))
      BY <1>2, <2>6
    <3>2. OfList(d, op, Firsts(es)) =
            JoinEnd(op, OfClause(d, Firsts(es)[1]), OfList(d, op, Tail(Firsts(es))))
      BY <1>2, <2>3, <3>1, OfListUnfold
    <3> QED
      BY <1>2, <1>4, <2>2, <3>2
  <2> QED
    BY <2>1, <2>2, <2>4, <2>5, <2>6
<1> QED
  BY <1>3, <1>4

\* The callers s wait for what the register c comes to.
Answering(s, c, d, val, root) ==
  \E x \in Result : Leads(s, c.do = "loop", d, val, x, root) /\ Promises(c, d, val, x)

\* What each kind of register has to come to.
LEMMA RegisterAnswers ==
  ASSUME NEW s, NEW d \in Document, NEW val, NEW x \in Result, NEW root
  PROVE  /\ \A r : Leads(s, FALSE, d, val, x, root) /\ x = OfRef(val, r)
                     => Answering(s, Return(r), d, val, root)
         /\ \A c : Leads(s, FALSE, d, val, x, root) /\ x = OfClause(d, c)
                     => Answering(s, Parse(c), d, val, root)
         /\ \A op, es : Leads(s, FALSE, d, val, x, root) /\ x = OfList(d, op, Firsts(es))
                          /\ Foldable(op, Len(es))
                     => Answering(s, Logical(op, es), d, val, root)
         /\ Leads(s, TRUE, d, val, x, root) => Answering(s, [do |-> "loop"], d, val, root)
<1>1. ASSUME NEW r, Leads(s, FALSE, d, val, x, root), x = OfRef(val, r)
      PROVE  Answering(s, Return(r), d, val, root)
  <2>1. (Return(r).do = "loop") = FALSE /\ Promises(Return(r), d, val, x)
    BY <1>1 DEF Return, Promises
  <2> QED
    BY <1>1, <2>1 DEF Answering
<1>2. ASSUME NEW c, Leads(s, FALSE, d, val, x, root), x = OfClause(d, c)
      PROVE  Answering(s, Parse(c), d, val, root)
  <2>1. (Parse(c).do = "loop") = FALSE /\ Promises(Parse(c), d, val, x)
    BY <1>2 DEF Parse, Promises
  <2> QED
    BY <1>2, <2>1 DEF Answering
<1>3. ASSUME NEW op, NEW es, Leads(s, FALSE, d, val, x, root), x = OfList(d, op, Firsts(es)),
             Foldable(op, Len(es))
      PROVE  Answering(s, Logical(op, es), d, val, root)
  <2>1. (Logical(op, es).do = "loop") = FALSE /\ Promises(Logical(op, es), d, val, x)
    BY <1>3 DEF Logical, Promises
  <2> QED
    BY <1>3, <2>1 DEF Answering
<1>4. ASSUME Leads(s, TRUE, d, val, x, root) PROVE Answering(s, [do |-> "loop"], d, val, root)
  <2> DEFINE c == [do |-> "loop"]
  <2>1. (c.do = "loop") = TRUE /\ Promises(c, d, val, x)
    BY DEF Promises
  <2> QED
    BY <1>4, <2>1 DEF Answering
<1> QED
  BY <1>1, <1>2, <1>3, <1>4

\* Compiling a faithful query, about to make a step.
Ready(d, val, root, x) ==
  /\ TypeOK /\ OneOwner /\ Faithful /\ SoundAbove(0) /\ ReadsOnly
  /\ x \in Result
  /\ Leads(stack, ctl.do = "loop", d, val, x, root)
  /\ Promises(ctl, d, val, x)
  /\ \A n \in DOMAIN heap : val[n] \in Outcome

\* Reading a clause: it is entered, or its op is made.
LEMMA ParseAnswers ==
  ASSUME NEW d \in Document, NEW val, NEW root, NEW x, Ready(d, val, root, x),
         Consistent(heap', d, val),
         \/ ParseLeaf \/ ParseBad \/ ParseNot \/ ParseExistsEmpty \/ ParseExists
         \/ ParseLogical \/ ParseCond
  PROVE  Answering(stack', ctl', d, val, root)
<1> DEFINE c == ctl.clause
<1>a. /\ TypeOK /\ stack \in Seq(Frame) /\ heap \in Seq(Node) /\ x \in Result
      /\ ctl.do = "parse"
      /\ Leads(stack, ctl.do = "loop", d, val, x, root)
      /\ ReadsOnly /\ SoundAbove(0) /\ Faithful
  BY DEF Ready, TypeOK, Parsing, ParseLeaf, ParseBad, ParseNot, ParseExistsEmpty,
     ParseExists, ParseLogical, ParseCond
<1>b. c \in ValidClauses /\ NorIsPair(c) /\ WellFormed(c) /\ c.kind # "bad"
  <2>1. c \in Clause /\ ValidClause[c]
    BY <1>a, ControlCases DEF SoundAbove, SoundControl
  <2>2. c \in Read /\ query \in Seq(Clause)
    BY <1>a DEF ReadsOnly, TypeOK
  <2>3. NorIsPair(c)
    BY <1>a, <2>2, NorsRead
  <2>4. WellFormed(c)
    BY <2>1, ValidClauseIs
  <2> QED
    BY <2>1, <2>3, <2>4 DEF ValidClauses, WellFormed
<1>c. Leads(stack, FALSE, d, val, x, root) /\ x = OfClause(d, c)
  <2>1. (ctl.do = "loop") = FALSE
    BY <1>a
  <2> QED
    BY <1>a, <2>1 DEF Ready, Promises
<1>d. /\ c.kind = "leaf" => x = OnLeaf(d, c.atom)
      /\ c.kind = "not" => x = OnNot(OfClause(d, c.kid))
      /\ c.kind = "exists" =>
           x = OnExists(d, c.atom, IF c.spec = << >> THEN End ELSE OfClause(d, First(c.spec)))
      /\ c.kind = "logical" => x = OfList(d, c.op, Firsts(c.elems))
      /\ c.kind = "cond" => x = OnCond(OfClause(d, ThePart(c, "if")),
                                       OfClause(d, ThePart(c, "then")),
                                       OfClause(d, ThePart(c, "else")))
  BY <1>b, <1>c, OfClauseIs
<1>e. \A k \in Subs(c) : OfClause(d, k) \in Result
  BY <1>b, SubClauses, OutcomeType DEF Result
<1>f. \A n \in Node : heap' = Append(heap, n) /\ x = NodeOutcome(n, d, val)
        => x = OfRef(val, Fresh)
  <2> SUFFICES ASSUME NEW n \in Node, heap' = Append(heap, n), x = NodeOutcome(n, d, val)
               PROVE  x = OfRef(val, Fresh)
    OBVIOUS
  <2>1. val[Len(heap) + 1] = NodeOutcome(n, d, val)
    BY <1>a, ConsistentNew
  <2>2. Len(heap) + 1 # 0
    BY <1>a
  <2> QED
    BY <2>1, <2>2 DEF OfRef, Fresh
<1> HIDE DEF c
<1>1. CASE ParseLeaf
  <2>1. /\ heap' = Append(heap, LeafNode(c.atom)) /\ ctl' = Return(Fresh) /\ stack' = stack
        /\ c.kind = "leaf"
    BY <1>1 DEF ParseLeaf, Parsing, Alloc, c
  <2>2. LeafNode(c.atom) \in Node
    BY <1>b, <2>1, SubClauses, NodeType
  <2>3. NodeOutcome(LeafNode(c.atom), d, val) = OnLeaf(d, c.atom)
    BY <1>b, <2>1, SubClauses, NodeOutcomes
  <2>4. x = OfRef(val, Fresh)
    BY <1>d, <1>f, <2>1, <2>2, <2>3
  <2> QED
    BY <1>a, <1>c, <2>1, <2>4, RegisterAnswers
<1>2. CASE ParseBad
  BY <1>2, <1>b DEF ParseBad, Parsing, c
<1>3. CASE ParseNot
  <2> DEFINE f == [fn |-> "not"]
             y == OfClause(d, c.kid)
  <2>1. c.kind = "not" /\ stack' = Append(stack, f) /\ ctl' = Parse(c.kid)
    BY <1>3 DEF ParseNot, Parsing, Push, c
  <2>2. y \in Result
    BY <1>b, <1>e, <2>1, SubClauses
  <2>3. x = OnNot(y)
    BY <1>d, <2>1
  <2> HIDE DEF y
  <2>4. Link(f, FALSE, d, val, y, x)
    BY <2>3 DEF Link
  <2> HIDE DEF f
  <2>5. Leads(Append(stack, f), FALSE, d, val, y, root)
    BY <1>a, <1>c, <2>2, <2>4, LeadsPush
  <2> QED
    BY <2>1, <2>2, <2>5, RegisterAnswers DEF y
<1>4. CASE ParseExistsEmpty
  <2>1. /\ heap' = Append(heap, ExistsNode(c.atom, 0)) /\ ctl' = Return(Fresh)
        /\ stack' = stack /\ c.kind = "exists" /\ c.spec = << >>
    BY <1>4 DEF ParseExistsEmpty, Parsing, Alloc, c
  <2>2. ExistsNode(c.atom, 0) \in Node
    BY <1>b, <2>1, SubClauses, NodeType
  <2>3. NodeOutcome(ExistsNode(c.atom, 0), d, val) = OnExists(d, c.atom, End)
    <3>1. c.atom \in Atom /\ 0 \in Ref
      BY <1>b, <2>1, SubClauses
    <3> QED
      BY <3>1, NodeOutcomes DEF OfRef
  <2>4. x = OfRef(val, Fresh)
    BY <1>d, <1>f, <2>1, <2>2, <2>3
  <2> QED
    BY <1>a, <1>c, <2>1, <2>4, RegisterAnswers
<1>5. CASE ParseExists
  <2> DEFINE f == [fn |-> "exists", atom |-> c.atom]
             y == OfClause(d, First(c.spec))
  <2>1. /\ c.kind = "exists" /\ stack' = Append(stack, f) /\ ctl' = Parse(First(c.spec))
        /\ c.spec # << >>
    BY <1>5 DEF ParseExists, Parsing, Push, First, c
  <2>2. y \in Result
    BY <1>b, <1>e, <2>1, SubClauses
  <2>3. x = OnExists(d, c.atom, y)
    BY <1>d, <2>1
  <2> HIDE DEF y
  <2>4. Link(f, FALSE, d, val, y, x)
    BY <2>3 DEF Link
  <2> HIDE DEF f
  <2>5. Leads(Append(stack, f), FALSE, d, val, y, root)
    BY <1>a, <1>c, <2>2, <2>4, LeadsPush
  <2> QED
    BY <2>1, <2>2, <2>5, RegisterAnswers DEF y
<1>6. CASE ParseLogical
  <2>1. c.kind = "logical" /\ stack' = stack /\ ctl' = Logical(c.op, c.elems)
    BY <1>6 DEF ParseLogical, Parsing, c
  <2>2. Foldable(c.op, Len(c.elems))
    <3> DEFINE n == Len(c.elems)
    <3>1. c.op = "nor" => n = 2
      BY <1>b, <2>1 DEF NorIsPair
    <3> HIDE DEF n
    <3>2. c.op = "nor" => n <= 2
      BY <3>1
    <3> QED
      BY <3>2 DEF Foldable, n
  <2> QED
    BY <1>a, <1>c, <1>d, <2>1, <2>2, RegisterAnswers
<1>7. CASE ParseCond
  <2> DEFINE f == [fn |-> "cond", items |-> c.parts, at |-> "if",
                   got |-> [p \in Part |-> 0], ok |-> {}]
             pm == [p \in Part |-> OfClause(d, ThePart(c, p))]
  <2>1. c.kind = "cond" /\ stack' = Append(stack, f) /\ ctl' = [do |-> "loop"]
    BY <1>7 DEF ParseCond, Parsing, Push, c
  <2>2. \A p \in Part : ThePart(c, p) \in ValidClauses
    BY <1>b, <2>1, SubClauses
  <2>3. pm \in [Part -> Outcome]
    BY <2>2, OutcomeType
  <2>4. x = OnCond(pm["if"], pm["then"], pm["else"])
    BY <1>d, <2>1 DEF Part
  <2>5. ASSUME NEW i \in DOMAIN c.parts
        PROVE  pm[c.parts[i].part] = OfClause(d, First(c.parts[i].elem))
    <3> DEFINE p == c.parts[i].part
    <3>1. p \in Part
      <4>1. c.parts \in Seq([part : Part, elem : Element])
        BY <1>b, <2>1, ClauseAssumption DEF ValidClauses
      <4>2. c.parts[i] \in [part : Part, elem : Element]
        BY <4>1, InSeq
      <4> QED
        BY <4>2
    <3>2. i \in PartsOf(c, p)
      BY DEF PartsOf
    <3>3. \E j \in PartsOf(c, p) : PartsOf(c, p) = {j}
      BY <1>b, <2>1, <3>1 DEF WellFormed
    <3>4. PartsOf(c, p) = {i}
      BY <3>2, <3>3
    <3>5. ThePart(c, p) = First(c.parts[i].elem)
      BY <3>4 DEF ThePart
    <3> HIDE DEF p
    <3> QED
      BY <3>1, <3>5 DEF p
  <2>6. /\ f.fn = "cond" /\ f.ok = {} /\ f.items = c.parts
    OBVIOUS
  <2> HIDE DEF f, pm
  <2>7. Link(f, TRUE, d, val, x, x)
    <3>1. LinkCond(f, TRUE, d, val, x, x)
      BY <2>3, <2>4, <2>5, <2>6 DEF LinkCond
    <3> QED
      BY <2>6, <3>1 DEF Link
  <2>8. Leads(Append(stack, f), TRUE, d, val, x, root)
    BY <1>a, <1>c, <2>7, LeadsPush
  <2> QED
    BY <1>a, <2>1, <2>8, RegisterAnswers
<1> QED
  BY <1>1, <1>2, <1>3, <1>4, <1>5, <1>6, <1>7

\* An op that is there comes to an outcome, which is not the end of a list.
LEMMA HeldOutcome ==
  ASSUME NEW d, NEW val, NEW root, NEW x, Ready(d, val, root, x),
         ctl.do = "return", ctl.ref # 0
  PROVE  /\ ctl.ref \in Ref /\ OfRef(val, ctl.ref) = val[ctl.ref]
         /\ val[ctl.ref] \in Outcome /\ x = val[ctl.ref] /\ x # End
<1>1. ctl.ref \in 0 .. Len(heap) /\ ctl.ref \in Ref
  BY ControlCases DEF Ready, OneOwner, Grounded, Held
<1>2. DOMAIN heap = 1 .. Len(heap) /\ Len(heap) \in Nat
  BY DEF Ready, TypeOK
<1>3. ctl.ref \in DOMAIN heap
  BY <1>1, <1>2
<1>4. val[ctl.ref] \in Outcome /\ x = OfRef(val, ctl.ref)
  BY <1>3 DEF Ready, Promises
<1>5. OfRef(val, ctl.ref) = val[ctl.ref]
  BY DEF OfRef
<1> QED
  BY <1>1, <1>4, <1>5, PairOf

\* The innermost caller, what it has got, and what it should come to.
LEMMA TopAnswers ==
  ASSUME NEW d \in Document, NEW val, NEW root, NEW x, Ready(d, val, root, x), stack # << >>,
         NEW looping \in BOOLEAN, looping = (ctl.do = "loop")
  PROVE  /\ stack \in Seq(Frame) /\ Top \in Frame /\ Below \in Seq(Frame)
         /\ \E y \in Result : /\ Link(Top, looping, d, val, x, y)
                              /\ Leads(Below, FALSE, d, val, y, root)
         /\ Top.fn = "logical" =>
              /\ Top.op \in Opcode /\ Top.items \in Seq(Element) /\ Len(Top.items) \in Nat
              /\ Top.at \in {"left", "right", "more"}
              /\ SoundLogical(Top)
              /\ \A r \in {Top.left, Top.right} :
                   r # 0 => r \in Ref /\ OfRef(val, r) = val[r] /\ val[r] \in Outcome
         /\ Top.fn = "exists" => Top.atom \in Atom
         /\ Top.fn = "cond" =>
              /\ Top.items \in Seq([part : Part, elem : Element])
              /\ Top.at \in Part /\ Top.got \in [Part -> Ref] /\ Top.ok \subseteq Part
              /\ SoundCond(Top, IF looping THEN {} ELSE {Top.at})
<1>1. /\ TypeOK /\ OneOwner /\ SoundAbove(0) /\ stack \in Seq(Frame)
      /\ Leads(stack, looping, d, val, x, root)
      /\ \A n \in DOMAIN heap : val[n] \in Outcome
      /\ DOMAIN heap = 1 .. Len(heap)
  BY DEF Ready, TypeOK
<1>2. Top \in Frame /\ Below \in Seq(Frame)
  BY <1>1, TopType
<1>3. \E y \in Result : /\ Link(Top, looping, d, val, x, y)
                        /\ Leads(Below, FALSE, d, val, y, root)
  BY <1>1, LeadsPop DEF Top, Below, Under
<1>4. ASSUME Top.fn = "logical"
      PROVE  /\ Top.op \in Opcode /\ Top.items \in Seq(Element) /\ Len(Top.items) \in Nat
             /\ Top.at \in {"left", "right", "more"}
             /\ SoundLogical(Top)
             /\ \A r \in {Top.left, Top.right} :
                  r # 0 => r \in Ref /\ OfRef(val, r) = val[r] /\ val[r] \in Outcome
  <2>1. Top \in LogicalFrame
    BY <1>2, <1>4, FrameCases
  <2>2. /\ Top.op \in Opcode /\ Top.items \in Seq(Element) /\ Len(Top.items) \in Nat
        /\ Top.at \in {"left", "right", "more"}
    BY <2>1 DEF LogicalFrame
  <2>3. SoundLogical(Top)
    BY <1>1, <1>4, SoundTop
  <2>4. Locals(Top) \subseteq 1 .. Len(heap)
    <3>1. Len(stack) \in 1 .. Len(stack)
      BY <1>1, TopType
    <3> QED
      BY <1>1, <3>1 DEF OneOwner, Grounded, Top
  <2>5. \A r \in {Top.left, Top.right} : r # 0 => r \in DOMAIN heap
    BY <1>1, <1>4, <2>4 DEF Locals
  <2>6. \A r \in {Top.left, Top.right} : r # 0 => val[r] \in Outcome
    BY <1>1, <2>5
  <2>7. Top.left \in Ref /\ Top.right \in Ref
    BY <2>1 DEF LogicalFrame
  <2> QED
    BY <2>2, <2>3, <2>6, <2>7 DEF OfRef
<1>5. Top.fn = "exists" => Top.atom \in Atom
  BY <1>2, FrameCases DEF ExistsFrame
<1>6. ASSUME Top.fn = "cond"
      PROVE  /\ Top.items \in Seq([part : Part, elem : Element])
             /\ Top.at \in Part /\ Top.got \in [Part -> Ref] /\ Top.ok \subseteq Part
             /\ SoundCond(Top, IF looping THEN {} ELSE {Top.at})
  <2>1. Top \in CondFrame
    BY <1>2, <1>6, FrameCases
  <2>2. SoundCond(Top, IF ctl.do = "loop" THEN {} ELSE {Top.at})
    BY <1>1, <1>6, SoundTop
  <2> QED
    BY <2>1, <2>2 DEF CondFrame
<1> QED
  BY <1>1, <1>2, <1>3, <1>4, <1>5, <1>6

\* The clauses of a list: from the one before the parser to the next.
LEMMA ListAnswers ==
  ASSUME NEW d \in Document, NEW val, NEW root, NEW x, Ready(d, val, root, x),
         LogicalEmpty \/ LogicalNotDocument \/ LogicalLeft
  PROVE  Answering(stack', ctl', d, val, root)
<1>a. /\ TypeOK /\ stack \in Seq(Frame) /\ x \in Result /\ ctl.do = "logical"
      /\ SoundAbove(0)
      /\ Leads(stack, ctl.do = "loop", d, val, x, root)
  BY DEF Ready, TypeOK, LogicalEmpty, LogicalNotDocument, LogicalLeft
<1>b. ctl.op \in Opcode /\ ctl.items \in Seq(Element) /\ ValidElements(ctl.items)
  BY <1>a, ControlCases DEF SoundAbove, SoundControl
<1>c. Leads(stack, FALSE, d, val, x, root)
  <2>1. (ctl.do = "loop") = FALSE
    BY <1>a
  <2> QED
    BY <1>a, <2>1
<1>d. x = OfList(d, ctl.op, Firsts(ctl.items)) /\ Foldable(ctl.op, Len(ctl.items))
  BY <1>a DEF Ready, Promises
<1>1. CASE LogicalEmpty
  <2>1. ctl.items = << >> /\ ctl' = Return(0) /\ stack' = stack
    BY <1>1 DEF LogicalEmpty, Fail
  <2>2. x = OfRef(val, 0)
    BY <1>b, <1>d, <2>1, OfElements DEF OfRef
  <2> QED
    BY <1>a, <1>c, <2>1, <2>2, RegisterAnswers
<1>2. CASE LogicalNotDocument
  <2>1. ctl.items # << >> /\ Head(ctl.items) = << >>
    BY <1>2 DEF LogicalNotDocument
  <2> QED
    BY <1>b, <2>1, OfElements
<1>3. CASE LogicalLeft
  <2> DEFINE f == [fn |-> "logical", op |-> ctl.op, items |-> Tail(ctl.items),
                   at |-> "left", left |-> 0, right |-> 0]
             k == Head(Head(ctl.items))
             y == OfClause(d, k)
  <2>1. ctl.items # << >> /\ stack' = Append(stack, f) /\ ctl' = Parse(k)
    BY <1>3 DEF LogicalLeft, Push
  <2>2. /\ y \in Result /\ Len(Tail(ctl.items)) = Len(ctl.items) - 1
        /\ x = JoinEnd(ctl.op, y, OfList(d, ctl.op, Firsts(Tail(ctl.items))))
    BY <1>b, <1>d, <2>1, OfElements DEF Result
  <2> HIDE DEF y, k
  <2>3. ctl.op = "nor" => Len(Tail(ctl.items)) <= 1
    <3> DEFINE n == Len(ctl.items)
    <3>1. n \in Nat /\ (ctl.op = "nor" => n <= 2)
      BY <1>b, <1>d DEF Foldable
    <3>2. Len(Tail(ctl.items)) = n - 1
      BY <2>2
    <3> HIDE DEF n
    <3> QED
      BY <3>1, <3>2
  <2>4. Link(f, FALSE, d, val, y, x)
    <3>1. LinkLogical(f, d, val, y, x)
      BY <2>2, <2>3 DEF LinkLogical
    <3> QED
      BY <3>1 DEF Link
  <2> HIDE DEF f
  <2>5. Leads(Append(stack, f), FALSE, d, val, y, root)
    BY <1>a, <1>c, <2>2, <2>4, LeadsPush
  <2> QED
    BY <2>1, <2>2, <2>5, RegisterAnswers DEF y
<1> QED
  BY <1>1, <1>2, <1>3

\* The op of a clause of a list comes back, and the list goes on.
LEMMA FoldAnswers ==
  ASSUME NEW d \in Document, NEW val, NEW root, NEW x, Ready(d, val, root, x),
         \/ GotLeftLast \/ GotLeftNotDocument \/ GotLeft \/ GotRightFailed \/ GotRight
  PROVE  Answering(stack', ctl', d, val, root)
<1>a. /\ TypeOK /\ SoundAbove(0) /\ x \in Result /\ ctl.do = "return"
      /\ stack # << >> /\ Top.fn = "logical" /\ Top.at \in {"left", "right"}
  BY DEF Ready, GotLeftLast, GotLeftNotDocument, GotLeft, GotRightFailed, GotRight,
     ReturningAt, Returning
<1>b. ctl.ref # 0
  BY <1>a, SoundTop
<1>c. /\ ctl.ref \in Ref /\ OfRef(val, ctl.ref) = val[ctl.ref]
      /\ val[ctl.ref] \in Outcome /\ x = val[ctl.ref] /\ x # End
  BY <1>a, <1>b, HeldOutcome
<1>d. /\ stack \in Seq(Frame) /\ Top \in Frame /\ Below \in Seq(Frame)
      /\ \E y \in Result : /\ Link(Top, FALSE, d, val, x, y)
                           /\ Leads(Below, FALSE, d, val, y, root)
      /\ Top.op \in Opcode /\ Top.items \in Seq(Element) /\ Len(Top.items) \in Nat
      /\ SoundLogical(Top)
      /\ \A r \in {Top.left, Top.right} :
           r # 0 => r \in Ref /\ OfRef(val, r) = val[r] /\ val[r] \in Outcome
  <2>1. FALSE \in BOOLEAN /\ FALSE = (ctl.do = "loop")
    BY <1>a
  <2> QED
    BY <1>a, <2>1, TopAnswers
<1>e. PICK y \in Result : /\ Link(Top, FALSE, d, val, x, y)
                          /\ Leads(Below, FALSE, d, val, y, root)
  BY <1>d
<1>f. LinkLogical(Top, d, val, x, y) /\ ValidElements(Top.items)
  BY <1>a, <1>d, <1>e DEF Link, SoundLogical
<1> DEFINE rest == OfList(d, Top.op, Firsts(Top.items))
<1>1. CASE GotLeftLast
  <2>1. Top.at = "left" /\ Top.items = << >> /\ stack' = Below /\ ctl' = ctl
    BY <1>1, <1>b DEF GotLeftLast, ReturningAt, Pop
  <2>2. y = JoinEnd(Top.op, x, rest) /\ rest = End
    BY <1>d, <1>f, <2>1, OfElements DEF LinkLogical
  <2>3. y = OfRef(val, ctl.ref)
    BY <1>c, <2>2 DEF JoinEnd
  <2>4. Answering(Below, Return(ctl.ref), d, val, root)
    BY <1>e, <2>3, RegisterAnswers
  <2>5. (ctl.do = "loop") = FALSE /\ Promises(ctl, d, val, y)
    BY <1>a, <2>3 DEF Promises
  <2> QED
    BY <1>e, <2>1, <2>5 DEF Answering
<1>2. CASE GotLeftNotDocument
  <2>1. Top.items # << >> /\ Head(Top.items) = << >>
    BY <1>2 DEF GotLeftNotDocument
  <2> QED
    BY <1>d, <1>f, <2>1, OfElements
<1>3. CASE GotLeft
  <2> DEFINE f == [Top EXCEPT !.at = "right", !.left = ctl.ref, !.items = Tail(@)]
             k == Head(Head(Top.items))
             z == OfClause(d, k)
             more == OfList(d, Top.op, Firsts(Tail(Top.items)))
  <2>1. /\ Top.at = "left" /\ Top.items # << >> /\ stack' = Append(Below, f)
        /\ ctl' = Parse(k)
    BY <1>3 DEF GotLeft, ReturningAt, SetTop
  <2>2. y = JoinEnd(Top.op, x, rest) /\ (Top.op = "nor" => Len(Top.items) <= 1)
    BY <1>f, <2>1 DEF LinkLogical
  <2>3. Foldable(Top.op, Len(Top.items)) /\ (Top.op = "nor" => Len(Tail(Top.items)) = 0)
    <3> DEFINE n == Len(Top.items)
               m == Len(Tail(Top.items))
    <3>1. n \in Nat \ {0} /\ m = n - 1 /\ (Top.op = "nor" => n <= 1)
      BY <1>d, <2>1, <2>2, ListParts, EmptySeq
    <3> HIDE DEF n, m
    <3>2. n <= 1 => n <= 2 /\ m = 0
      BY <3>1
    <3> QED
      BY <3>1, <3>2 DEF Foldable, n, m
  <2>4. /\ z \in Result /\ rest = JoinEnd(Top.op, z, more) /\ rest # End
    <3>1. /\ z \in Outcome /\ rest \in Outcome
          /\ rest = JoinEnd(Top.op, z, more)
      BY <1>d, <1>f, <2>1, <2>3, OfElements
    <3> HIDE DEF z, rest, more
    <3> QED
      BY <3>1, PairOf DEF Result
  <2>5. y = Join(Top.op, OfRef(val, ctl.ref), JoinEnd(Top.op, z, more))
    BY <1>c, <2>2, <2>4 DEF JoinEnd
  <2> HIDE DEF z, k
  <2>6. /\ f.fn = "logical" /\ f.op = Top.op /\ f.at = "right" /\ f.left = ctl.ref
        /\ f.items = Tail(Top.items)
    <3>1. Top \in LogicalFrame
      BY <1>a, <1>d, FrameCases
    <3> QED
      BY <1>a, <3>1 DEF LogicalFrame
  <2> HIDE DEF f
  <2>7. Link(f, FALSE, d, val, z, y)
    <3>1. LinkLogical(f, d, val, z, y)
      BY <2>3, <2>5, <2>6 DEF LinkLogical
    <3> QED
      BY <2>6, <3>1 DEF Link
  <2>8. Leads(Append(Below, f), FALSE, d, val, z, root)
    BY <1>d, <1>e, <2>4, <2>7, LeadsPush
  <2> QED
    BY <2>1, <2>4, <2>8, RegisterAnswers DEF z
<1>4. CASE GotRightFailed
  BY <1>4, <1>b DEF GotRightFailed
<1>5. CASE GotRight
  <2> DEFINE f == [Top EXCEPT !.at = "more", !.right = ctl.ref]
  <2>1. /\ Top.at = "right" /\ stack' = Append(Below, f) /\ ctl' = Logical(Top.op, Top.items)
    BY <1>5 DEF GotRight, ReturningAt, SetTop
  <2>2. /\ y = Join(Top.op, OfRef(val, Top.left), JoinEnd(Top.op, x, rest))
        /\ Top.op = "nor" => Len(Top.items) = 0
    BY <1>f, <2>1 DEF LinkLogical
  <2>3. Foldable(Top.op, Len(Top.items))
    <3> DEFINE n == Len(Top.items)
    <3>1. Top.op = "nor" => n = 0
      BY <2>2
    <3> HIDE DEF n
    <3>2. Top.op = "nor" => n <= 2
      BY <3>1
    <3> QED
      BY <3>2 DEF Foldable, n
  <2>4. rest \in Result
    <3>1. Top.items = << >> => rest = End
      BY <1>d, <1>f, OfElements
    <3>2. Top.items # << >> => rest \in Outcome
      BY <1>d, <1>f, OfElements
    <3> HIDE DEF rest
    <3> QED
      BY <3>1, <3>2 DEF Result
  <2>5. /\ f.fn = "logical" /\ f.op = Top.op /\ f.at = "more" /\ f.right = ctl.ref
        /\ f.left = Top.left
    <3>1. Top \in LogicalFrame
      BY <1>a, <1>d, FrameCases
    <3> QED
      BY <1>a, <3>1 DEF LogicalFrame
  <2> HIDE DEF f, rest
  <2>6. Link(f, FALSE, d, val, rest, y)
    <3>1. LinkLogical(f, d, val, rest, y)
      BY <1>c, <2>2, <2>5 DEF LinkLogical
    <3> QED
      BY <2>5, <3>1 DEF Link
  <2>7. Leads(Append(Below, f), FALSE, d, val, rest, root)
    BY <1>d, <1>e, <2>4, <2>6, LeadsPush
  <2> QED
    BY <2>1, <2>3, <2>4, <2>7, RegisterAnswers DEF rest
<1> QED
  BY <1>1, <1>2, <1>3, <1>4, <1>5

\* The rest of a list comes back: the ops of its operands are made.
LEMMA MoreAnswers ==
  ASSUME NEW d \in Document, NEW val, NEW root, NEW x, Ready(d, val, root, x),
         TypeOK', Consistent(heap', d, val), GotNoMore \/ GotMore
  PROVE  Answering(stack', ctl', d, val, root)
<1>a. /\ TypeOK /\ SoundAbove(0) /\ x \in Result /\ ctl.do = "return"
      /\ stack # << >> /\ Top.fn = "logical" /\ Top.at = "more" /\ stack' = Below
      /\ heap \in Seq(Node) /\ Fresh \in Ref \ {0}
  BY DEF Ready, TypeOK, GotNoMore, GotMore, ReturningAt, Returning, Fresh, Pop
<1>b. FALSE \in BOOLEAN /\ FALSE = (ctl.do = "loop")
  BY <1>a
<1>c. /\ Top.op \in Opcode /\ SoundLogical(Top)
      /\ \A r \in {Top.left, Top.right} :
           r # 0 => r \in Ref /\ OfRef(val, r) = val[r] /\ val[r] \in Outcome
      /\ \E y \in Result : /\ Link(Top, FALSE, d, val, x, y)
                           /\ Leads(Below, FALSE, d, val, y, root)
  BY <1>a, <1>b, TopAnswers
<1>d. PICK y \in Result : /\ Link(Top, FALSE, d, val, x, y)
                          /\ Leads(Below, FALSE, d, val, y, root)
  BY <1>c
<1> DEFINE l == val[Top.left]
           r == val[Top.right]
<1>e. /\ Top.left # 0 /\ Top.right # 0 /\ Top.left \in Ref /\ Top.right \in Ref
      /\ OfRef(val, Top.left) = l /\ OfRef(val, Top.right) = r
      /\ l \in Outcome /\ r \in Outcome
  BY <1>a, <1>c DEF SoundLogical
<1>f. y = Join(Top.op, l, JoinEnd(Top.op, r, x))
  BY <1>a, <1>d, <1>e DEF Link, LinkLogical
<1>g. Top.op \in Opcode /\ Top.left \in Ref /\ Top.right \in Ref /\ Fresh \in Ref
  BY <1>a, <1>c, <1>e
<1> HIDE DEF l, r
<1>1. CASE GotNoMore
  <2> DEFINE n == LogicalNode(Top.op, Top.left, Top.right)
  <2>1. ctl.ref = 0 /\ heap' = Append(heap, n) /\ ctl' = Return(Fresh)
    BY <1>1 DEF GotNoMore, Alloc
  <2>2. n \in Node /\ NodeOutcome(n, d, val) = Join(Top.op, l, r)
    <3>1. n \in Node
      BY <1>g, NodeType
    <3>2. NodeOutcome(n, d, val) = Join(Top.op, l, r)
      BY <1>g, NodeOutcomes DEF l, r
    <3> QED
      BY <3>1, <3>2
  <2> HIDE DEF n
  <2>3. x = End
    BY <1>a, <2>1 DEF Ready, Promises, OfRef
  <2>4. val[Fresh] = Join(Top.op, l, r)
    BY <1>a, <2>1, <2>2, ConsistentNew DEF Fresh
  <2>5. y = OfRef(val, Fresh)
    BY <1>a, <1>f, <2>3, <2>4 DEF OfRef, JoinEnd
  <2> QED
    BY <1>a, <1>d, <2>1, <2>5, RegisterAnswers
<1>2. CASE GotMore
  <2> DEFINE wrap == LogicalNode(Top.op, Top.right, ctl.ref)
             top == LogicalNode(Top.op, Top.left, Fresh)
             v == val[ctl.ref]
             g == Append(heap, wrap)
  <2>1. ctl.ref # 0 /\ heap' = heap \o <<wrap, top>> /\ ctl' = Return(Fresh + 1)
    BY <1>2 DEF GotMore
  <2>2. ctl.ref \in Ref /\ v \in Outcome /\ x = v /\ x # End
    BY <1>a, <2>1, HeldOutcome
  <2>3. /\ wrap \in Node /\ NodeOutcome(wrap, d, val) = Join(Top.op, r, v)
        /\ top \in Node /\ NodeOutcome(top, d, val) = Join(Top.op, l, val[Fresh])
    <3>1. wrap \in Node /\ top \in Node
      BY <1>a, <1>c, <1>e, <2>2, NodeType
    <3>2. NodeOutcome(wrap, d, val) = Join(Top.op, r, v)
      BY <1>c, <1>e, <2>2, NodeOutcomes DEF r
    <3>3. NodeOutcome(top, d, val) = Join(Top.op, l, val[Fresh])
      BY <1>g, NodeOutcomes DEF l
    <3> QED
      BY <3>1, <3>2, <3>3
  <2> HIDE DEF wrap, top, v
  <2>4. heap' = Append(g, top) /\ g \in Seq(Node) /\ Len(g) = Fresh
        /\ heap' = g \o <<top>> /\ <<top>> \in Seq(Node)
    <3>1. g \in Seq(Node) /\ Len(g) = Len(heap) + 1 /\ <<top>> \in Seq(Node)
      BY <1>a, <2>3
    <3>2. heap \o <<wrap, top>> = Append(Append(heap, wrap), top)
      BY <1>a, <2>3
    <3>3. Append(g, top) = g \o <<top>>
      BY <3>1, <2>3
    <3> QED
      BY <2>1, <3>1, <3>2, <3>3 DEF Fresh
  <2>5. Consistent(g, d, val)
    <3> HIDE DEF g
    <3> QED
      BY <2>4, ConsistentBefore
  <2>6. val[Fresh] = Join(Top.op, r, v)
    BY <1>a, <2>3, <2>5, ConsistentNew DEF Fresh
  <2>7. val[Fresh + 1] = Join(Top.op, l, val[Fresh])
    <3>1. Consistent(Append(g, top), d, val)
      BY <2>4
    <3>2. g \in Seq(Node) /\ top \in Node
      BY <2>3, <2>4
    <3> HIDE DEF g
    <3>3. val[Len(g) + 1] = NodeOutcome(top, d, val)
      BY <3>1, <3>2, ConsistentNew
    <3> QED
      BY <2>3, <2>4, <3>3
  <2>8. y = OfRef(val, Fresh + 1)
    <3>1. Fresh + 1 # 0
      BY <1>a
    <3>2. y = Join(Top.op, l, Join(Top.op, r, v))
      BY <1>f, <2>2 DEF JoinEnd
    <3> QED
      BY <2>6, <2>7, <3>1, <3>2 DEF OfRef
  <2> QED
    BY <1>a, <1>d, <2>1, <2>8, RegisterAnswers
<1> QED
  BY <1>1, <1>2

\* The op of a $not or of the spec of an $exists comes back.
LEMMA WrapAnswers ==
  ASSUME NEW d \in Document, NEW val, NEW root, NEW x, Ready(d, val, root, x),
         Consistent(heap', d, val), GotNot \/ GotExists
  PROVE  Answering(stack', ctl', d, val, root)
<1>a. /\ TypeOK /\ SoundAbove(0) /\ x \in Result /\ ctl.do = "return" /\ ctl.ref \in Ref
      /\ stack # << >> /\ Top.fn \in {"not", "exists"} /\ stack' = Below
      /\ heap \in Seq(Node) /\ Fresh \in Ref \ {0} /\ x = OfRef(val, ctl.ref)
  BY ControlCases DEF Ready, TypeOK, GotNot, GotExists, Returning, Fresh, Pop, Promises
<1>b. FALSE \in BOOLEAN /\ FALSE = (ctl.do = "loop")
  BY <1>a
<1>c. ctl.ref # 0
  BY <1>a, SoundTop
<1>d. PICK y \in Result : /\ Link(Top, FALSE, d, val, x, y)
                          /\ Leads(Below, FALSE, d, val, y, root)
  BY <1>a, <1>b, TopAnswers
<1>e. \A n \in Node : heap' = Append(heap, n) /\ y = NodeOutcome(n, d, val)
        => y = OfRef(val, Fresh)
  <2> SUFFICES ASSUME NEW n \in Node, heap' = Append(heap, n), y = NodeOutcome(n, d, val)
               PROVE  y = OfRef(val, Fresh)
    OBVIOUS
  <2>1. val[Len(heap) + 1] = NodeOutcome(n, d, val)
    BY <1>a, ConsistentNew
  <2> QED
    BY <1>a, <2>1 DEF OfRef, Fresh
<1>1. CASE GotNot
  <2>1. Top.fn = "not" /\ heap' = Append(heap, NotNode(ctl.ref)) /\ ctl' = Return(Fresh)
    BY <1>1, <1>c DEF GotNot, Returning, Alloc
  <2>2. NotNode(ctl.ref) \in Node
    BY <1>a, NodeType
  <2>3. NodeOutcome(NotNode(ctl.ref), d, val) = OnNot(x)
    BY <1>a, <1>c, NodeOutcomes DEF OfRef
  <2>4. y = OnNot(x)
    BY <1>d, <2>1 DEF Link
  <2>5. y = OfRef(val, Fresh)
    BY <1>e, <2>1, <2>2, <2>3, <2>4
  <2> QED
    BY <1>a, <1>d, <2>1, <2>5, RegisterAnswers
<1>2. CASE GotExists
  <2>1. Top.fn = "exists" /\ heap' = Append(heap, ExistsNode(Top.atom, ctl.ref))
        /\ ctl' = Return(Fresh)
    BY <1>2 DEF GotExists, Returning, Alloc
  <2>2. Top.atom \in Atom
    BY <1>a, <1>b, <2>1, TopAnswers
  <2>3. ExistsNode(Top.atom, ctl.ref) \in Node
    BY <1>a, <2>2, NodeType
  <2>4. NodeOutcome(ExistsNode(Top.atom, ctl.ref), d, val) = OnExists(d, Top.atom, x)
    BY <1>a, <2>2, NodeOutcomes
  <2>5. y = OnExists(d, Top.atom, x)
    BY <1>d, <2>1 DEF Link
  <2>6. y = OfRef(val, Fresh)
    BY <1>e, <2>1, <2>3, <2>4, <2>5
  <2> QED
    BY <1>a, <1>d, <2>1, <2>6, RegisterAnswers
<1> QED
  BY <1>1, <1>2

\* The loop over the parts of a $cond.
LEMMA CondAnswers ==
  ASSUME NEW d \in Document, NEW val, NEW root, NEW x, Ready(d, val, root, x),
         Consistent(heap', d, val),
         CondSkip \/ CondPart \/ GotCondPart \/ CondComplete \/ CondIncomplete
  PROVE  Answering(stack', ctl', d, val, root)
<1> DEFINE looping == ctl.do = "loop"
<1>a. /\ TypeOK /\ SoundAbove(0) /\ x \in Result /\ heap \in Seq(Node)
      /\ stack # << >> /\ Top.fn = "cond" /\ looping \in BOOLEAN
      /\ Fresh \in Ref \ {0}
  BY DEF Ready, TypeOK, CondSkip, CondPart, GotCondPart, CondComplete, CondIncomplete,
     Looping, Returning, Fresh
<1>b. /\ stack \in Seq(Frame) /\ Below \in Seq(Frame) /\ Top \in CondFrame
      /\ Top.items \in Seq([part : Part, elem : Element])
      /\ Top.at \in Part /\ Top.got \in [Part -> Ref] /\ Top.ok \subseteq Part
      /\ SoundCond(Top, IF looping THEN {} ELSE {Top.at})
  BY <1>a, TopAnswers, FrameCases
<1>c. PICK y \in Result : /\ Link(Top, looping, d, val, x, y)
                          /\ Leads(Below, FALSE, d, val, y, root)
  BY <1>a, TopAnswers
<1>d. PICK pm \in [Part -> Outcome] :
        /\ y = OnCond(pm["if"], pm["then"], pm["else"])
        /\ \A p \in Top.ok : pm[p] = OfRef(val, Top.got[p])
        /\ \A i \in DOMAIN Top.items :
             pm[Top.items[i].part] = OfClause(d, First(Top.items[i].elem))
        /\ ~looping => x = pm[Top.at]
  BY <1>a, <1>c DEF Link, LinkCond
<1>e. \A i \in DOMAIN Top.items : ValidElement(Top.items[i].elem)
  BY <1>b DEF SoundCond
<1>1. CASE CondSkip
  <2>1. Top.items # << >> /\ Head(Top.items).elem = << >>
    BY <1>1 DEF CondSkip
  <2>2. 1 \in DOMAIN Top.items /\ Head(Top.items) = Top.items[1]
    BY <1>b, <2>1, ListParts
  <2> QED
    BY <1>e, <2>1, <2>2 DEF ValidElement
<1>2. CASE CondPart
  <2> DEFINE it == Head(Top.items)
             f == [Top EXCEPT !.items = Tail(@), !.at = it.part]
             z == OfClause(d, Head(it.elem))
  <2>1. looping /\ Top.items # << >> /\ stack' = Append(Below, f) /\ ctl' = Parse(Head(it.elem))
    BY <1>2 DEF CondPart, Looping, SetTop
  <2>2. /\ 1 \in DOMAIN Top.items /\ it = Top.items[1]
        /\ it \in [part : Part, elem : Element]
        /\ \A i \in DOMAIN Tail(Top.items) :
             i + 1 \in DOMAIN Top.items /\ Tail(Top.items)[i] = Top.items[i + 1]
    BY <1>b, <2>1, ListParts
  <2>3. z = pm[it.part] /\ it.part \in Part
    BY <1>d, <2>2 DEF First
  <2>4. z \in Result
    BY <2>3 DEF Result
  <2>5. /\ f.fn = "cond" /\ f.items = Tail(Top.items) /\ f.at = it.part
        /\ f.ok = Top.ok /\ f.got = Top.got
    BY <1>b DEF CondFrame
  <2>6. ASSUME NEW i \in DOMAIN f.items
        PROVE  pm[f.items[i].part] = OfClause(d, First(f.items[i].elem))
    <3>1. i + 1 \in DOMAIN Top.items /\ f.items[i] = Top.items[i + 1]
      BY <2>2, <2>5
    <3> HIDE DEF f
    <3> QED
      BY <1>d, <3>1
  <2> HIDE DEF f, it
  <2>7. LinkCond(f, FALSE, d, val, z, y)
    <3> HIDE DEF z
    <3> QED
      BY <1>d, <2>3, <2>5, <2>6 DEF LinkCond
  <2>8. Link(f, FALSE, d, val, z, y)
    BY <2>5, <2>7 DEF Link
  <2>9. Leads(Append(Below, f), FALSE, d, val, z, root)
    BY <1>b, <1>c, <2>4, <2>8, LeadsPush
  <2> QED
    BY <2>1, <2>4, <2>9, RegisterAnswers
<1>3. CASE GotCondPart
  <2> DEFINE f == [Top EXCEPT !.got[Top.at] = ctl.ref,
                              !.ok = IF ctl.ref = 0 THEN @ ELSE @ \cup {Top.at}]
  <2>1. ctl.do = "return" /\ ~looping /\ stack' = Append(Below, f) /\ ctl' = [do |-> "loop"]
    BY <1>3 DEF GotCondPart, Returning, SetTop
  <2>2. ctl.ref # 0
    BY <1>a, <2>1, SoundTop
  <2>3. /\ f.fn = "cond" /\ f.items = Top.items /\ f.at = Top.at
        /\ f.ok = Top.ok \cup {Top.at} /\ f.got = [Top.got EXCEPT ![Top.at] = ctl.ref]
    BY <1>b, <2>2 DEF CondFrame
  <2>4. x = pm[Top.at] /\ x = OfRef(val, ctl.ref)
    BY <1>d, <2>1 DEF Ready, Promises
  <2>5. Top.ok \cap {Top.at} = {}
    BY <1>b, <2>1 DEF SoundCond
  <2> HIDE DEF f
  <2>6. ASSUME NEW p \in f.ok PROVE pm[p] = OfRef(val, f.got[p])
    <3>1. CASE p = Top.at
      <4>1. f.got[p] = ctl.ref
        BY <1>b, <2>3, <3>1
      <4> QED
        BY <2>4, <3>1, <4>1
    <3>2. CASE p # Top.at
      <4>1. p \in Top.ok /\ f.got[p] = Top.got[p]
        BY <1>b, <2>3, <3>2
      <4> QED
        BY <1>d, <4>1
    <3> QED
      BY <3>1, <3>2
  <2>7. LinkCond(f, TRUE, d, val, x, y)
    BY <1>d, <2>3, <2>6 DEF LinkCond
  <2>8. Link(f, TRUE, d, val, x, y)
    BY <2>3, <2>7 DEF Link
  <2>9. Leads(Append(Below, f), TRUE, d, val, x, root)
    BY <1>a, <1>b, <1>c, <2>8, LeadsPush
  <2> QED
    BY <1>a, <2>1, <2>9, RegisterAnswers
<1>4. CASE CondComplete
  <2> DEFINE n == CondNode(Top.got)
  <2>1. /\ looping /\ Top.items = << >> /\ Top.ok = Part /\ heap' = Append(heap, n)
        /\ ctl' = Return(Fresh) /\ stack' = Below
    BY <1>4 DEF CondComplete, Looping, Alloc, Pop
  <2>2. n \in Node
    BY <1>b, NodeType
  <2>3. \A p \in Part : pm[p] = val[Top.got[p]]
    BY <1>b, <1>d, <2>1 DEF SoundCond, OfRef
  <2>4. NodeOutcome(n, d, val) = OnCond(pm["if"], pm["then"], pm["else"])
    <3>1. NodeOutcome(n, d, val) =
            OnCond(val[Top.got["if"]], val[Top.got["then"]], val[Top.got["else"]])
      BY NodeOutcomes
    <3>2. /\ pm["if"] = val[Top.got["if"]] /\ pm["then"] = val[Top.got["then"]]
          /\ pm["else"] = val[Top.got["else"]]
      BY <2>3 DEF Part
    <3> QED
      BY <3>1, <3>2
  <2> HIDE DEF n
  <2>5. val[Fresh] = y
    BY <1>a, <1>d, <2>1, <2>2, <2>4, ConsistentNew DEF Fresh
  <2>6. y = OfRef(val, Fresh)
    BY <1>a, <2>5 DEF OfRef
  <2> QED
    BY <1>a, <1>c, <2>1, <2>6, RegisterAnswers
<1>5. CASE CondIncomplete
  <2>1. looping /\ Top.items = << >> /\ Top.ok # Part
    BY <1>5 DEF CondIncomplete, Looping
  <2>2. PartsLeft(Top) = {}
    BY <2>1 DEF PartsLeft
  <2> QED
    BY <1>b, <2>1, <2>2 DEF SoundCond
<1> QED
  BY <1>1, <1>2, <1>3, <1>4, <1>5

\* Every step of compiling a faithful query leads on to what it means.
LEMMA AnswersStep ==
  ASSUME TypeOK, TypeOK', OneOwner, Faithful, SoundAbove(0), ReadsOnly, Step,
         NEW d \in Document, NEW val, NEW root, Consistent(heap', d, val),
         Answering(stack, ctl, d, val, root)
  PROVE  Answering(stack', ctl', d, val, root)
<1>1. Consistent(heap, d, val)
  <2>1. PICK new \in Seq(Node) : heap' = heap \o new
    BY HeapMoves
  <2>2. heap \in Seq(Node)
    BY DEF TypeOK
  <2> QED
    BY <2>1, <2>2, ConsistentBefore
<1>2. PICK x \in Result : Leads(stack, ctl.do = "loop", d, val, x, root) /\ Promises(ctl, d, val, x)
  BY DEF Answering
<1>3. Ready(d, val, root, x)
  BY <1>1, <1>2 DEF Ready, Consistent
<1>4. CASE Finish
  <2>1. /\ ctl.do = "return" /\ stack = << >> /\ stack' = stack
        /\ ctl.ref # 0 => ctl' = [do |-> "compiled", root |-> ctl.ref]
    BY <1>4 DEF Finish
  <2>2. ctl.ref # 0
    BY <2>1, SoundTop
  <2>3. /\ (ctl.do = "loop") = FALSE /\ (ctl'.do = "loop") = FALSE
        /\ Promises(ctl', d, val, x)
    BY <1>2, <2>1, <2>2 DEF Promises
  <2> QED
    BY <1>2, <2>1, <2>3 DEF Answering
<1>5. CASE \/ ParseLeaf \/ ParseBad \/ ParseNot \/ ParseExistsEmpty \/ ParseExists
           \/ ParseLogical \/ ParseCond
  BY <1>3, <1>5, ParseAnswers
<1>6. CASE LogicalEmpty \/ LogicalNotDocument \/ LogicalLeft
  BY <1>3, <1>6, ListAnswers
<1>7. CASE GotLeftLast \/ GotLeftNotDocument \/ GotLeft \/ GotRightFailed \/ GotRight
  BY <1>3, <1>7, FoldAnswers
<1>8. CASE GotNoMore \/ GotMore
  BY <1>3, <1>8, MoreAnswers
<1>9. CASE GotNot \/ GotExists
  BY <1>3, <1>9, WrapAnswers
<1>10. CASE CondSkip \/ CondPart \/ GotCondPart \/ CondComplete \/ CondIncomplete
  BY <1>3, <1>10, CondAnswers
<1> QED
  BY <1>4, <1>5, <1>6, <1>7, <1>8, <1>9, <1>10 DEF Step

\* When mongoc_matcher_new is called, it is to return what the query means.
LEMMA AnswersInit ==
  ASSUME Init, TypeOK, Valid, NEW d \in Document, NEW val
  PROVE  Answering(stack, ctl, d, val, OfList(d, "and", query))
<1> DEFINE es == [i \in 1 .. Len(query) |-> <<query[i]>>]
           x == OfList(d, "and", query)
<1>1. /\ query \in Seq(Clause) /\ Len(query) \in Nat
      /\ ctl = Logical("and", es) /\ stack = << >>
  BY DEF Init, TypeOK
<1>2. x \in Result
  BY <1>1, OfQuery DEF Result
<1>3. Firsts(es) = query
  <2>1. DOMAIN es = 1 .. Len(query) /\ \A i \in 1 .. Len(query) : First(es[i]) = query[i]
    BY <1>1 DEF First
  <2>2. query = [i \in 1 .. Len(query) |-> query[i]]
    BY <1>1
  <2> HIDE DEF es
  <2>3. Firsts(es) = [i \in 1 .. Len(query) |-> query[i]]
    BY <2>1 DEF Firsts
  <2> QED
    BY <2>2, <2>3
<1> HIDE DEF es
<1>4. x = OfList(d, "and", Firsts(es)) /\ Foldable("and", Len(es))
  BY <1>3 DEF Foldable
<1> HIDE DEF x
<1>5. Leads(<< >>, FALSE, d, val, x, x)
  <2> DEFINE want == [k \in Nat |-> x]
  <2>1. /\ want \in [Nat -> Result] /\ want[1] = x /\ want[Len(<< >>) + 1] = x
        /\ DOMAIN << >> = {}
    BY <1>2
  <2> HIDE DEF want
  <2> QED
    BY <2>1 DEF Leads
<1> QED
  BY <1>1, <1>2, <1>4, <1>5, RegisterAnswers DEF x
-----------------------------------------------------------------------------
(***************************************************************************)
(* Matching.  Caller f, given out[1] of its kid, and then asking in[2] on  *)
(* behalf of itself and its callers, returns out[1], with out[2] to ask.   *)
(***************************************************************************)
Resumes(f, val, in, out) ==
  LET j == NextKid(f.node, f.at, in[1])
  IN  /\ j = 0 => out = <<Settle(f.node, in[1]), in[2]>>
      /\ j # 0 => /\ out[1] = Settle(f.node, val[Kids(f.node)[j]][1])
                  /\ in[2] = val[Kids(f.node)[j]][2] \o out[2]

\* If the innermost caller of w gets x[1] and x[2] is asked, the match returns
\* what root comes to.
Awaits(w, val, x, root) ==
  \E u \in [Nat -> Outcome] :
    /\ u[1] = <<val[root][1], << >>>> /\ u[Len(w) + 1] = x
    /\ \A k \in DOMAIN w : Resumes(w[k], val, u[k + 1], u[k])

\* The match is about to answer what root comes to.
Going(a, w, s, val, root) ==
  /\ a.do = "match" =>
       \E e \in Seq(Atom) : /\ Awaits(w, val, <<val[a.node][1], e>>, root)
                            /\ s \o (val[a.node][2] \o e) = val[root][2]
  /\ a.do = "value" =>
       \E e \in Seq(Atom) : /\ Awaits(w, val, <<a.value, e>>, root)
                            /\ s \o e = val[root][2]
  /\ a.do = "result" => a.value = val[root][1] /\ s = val[root][2]

\* A kid is matched.
LEMMA AwaitsPush ==
  ASSUME NEW w \in Seq(Visit), NEW f \in Visit, NEW val, NEW x \in Outcome, NEW y, NEW root,
         Awaits(w, val, y, root), Resumes(f, val, x, y)
  PROVE  Awaits(Append(w, f), val, x, root)
<1> DEFINE t == Append(w, f)
<1>1. /\ Len(t) = Len(w) + 1 /\ Len(w) \in Nat
      /\ DOMAIN t = 1 .. Len(w) + 1 /\ DOMAIN w = 1 .. Len(w)
      /\ \A k \in 1 .. Len(w) : t[k] = w[k]
      /\ t[Len(w) + 1] = f
  BY AppendProperties
<1> HIDE DEF t
<1>2. PICK u \in [Nat -> Outcome] :
        /\ u[1] = <<val[root][1], << >>>> /\ u[Len(w) + 1] = y
        /\ \A k \in DOMAIN w : Resumes(w[k], val, u[k + 1], u[k])
  BY DEF Awaits
<1> DEFINE next == [u EXCEPT ![Len(w) + 2] = x]
<1>3. /\ next \in [Nat -> Outcome] /\ next[1] = u[1] /\ next[Len(w) + 1] = y
      /\ next[Len(w) + 2] = x
      /\ \A k \in 1 .. Len(w) : next[k] = u[k] /\ next[k + 1] = u[k + 1]
  BY <1>1, <1>2
<1> HIDE DEF next
<1>4. ASSUME NEW k \in DOMAIN t PROVE Resumes(t[k], val, next[k + 1], next[k])
  <2>1. CASE k = Len(w) + 1
    <3>1. k + 1 = Len(w) + 2
      BY <1>1, <2>1
    <3> QED
      BY <1>1, <1>3, <2>1, <3>1
  <2>2. CASE k # Len(w) + 1
    <3>1. k \in 1 .. Len(w)
      BY <1>1, <2>2
    <3> QED
      BY <1>1, <1>2, <1>3, <3>1
  <2> QED
    BY <2>1, <2>2
<1>5. Len(t) + 1 = Len(w) + 2
  BY <1>1
<1>6. next[Len(t) + 1] = x /\ next[1] = <<val[root][1], << >>>>
  BY <1>2, <1>3, <1>5
<1>7. Awaits(t, val, x, root)
  BY <1>3, <1>4, <1>6 DEF Awaits
<1> QED
  BY <1>7 DEF t

\* A kid has been matched.
LEMMA AwaitsPop ==
  ASSUME NEW w \in Seq(Visit), w # << >>, NEW val, NEW x, NEW root, Awaits(w, val, x, root)
  PROVE  \E y \in Outcome : /\ Resumes(w[Len(w)], val, x, y)
                            /\ Awaits(SubSeq(w, 1, Len(w) - 1), val, y, root)
<1> DEFINE t == SubSeq(w, 1, Len(w) - 1)
<1>1. /\ Len(w) \in Nat \ {0} /\ Len(t) = Len(w) - 1 /\ DOMAIN w = 1 .. Len(w)
      /\ t \in Seq(Visit)
      /\ \A k \in 1 .. Len(w) - 1 : t[k] = w[k]
  BY FrontOfSeq
<1> HIDE DEF t
<1>2. PICK u \in [Nat -> Outcome] :
        /\ u[1] = <<val[root][1], << >>>> /\ u[Len(w) + 1] = x
        /\ \A k \in DOMAIN w : Resumes(w[k], val, u[k + 1], u[k])
  BY DEF Awaits
<1>3. Resumes(w[Len(w)], val, x, u[Len(w)]) /\ u[Len(w)] \in Outcome
  <2>1. Len(w) \in DOMAIN w
    BY <1>1
  <2>2. Resumes(w[Len(w)], val, u[Len(w) + 1], u[Len(w)])
    BY <1>2, <2>1
  <2> QED
    BY <1>1, <1>2, <2>2
<1>4. DOMAIN t = 1 .. Len(w) - 1
  BY <1>1
<1>5. ASSUME NEW k \in DOMAIN t PROVE Resumes(t[k], val, u[k + 1], u[k])
  <2>1. k \in 1 .. Len(w) - 1 /\ k \in DOMAIN w
    BY <1>1, <1>4
  <2> QED
    BY <1>1, <1>2, <2>1
<1>6. u[Len(t) + 1] = u[Len(w)]
  BY <1>1
<1>7. Awaits(t, val, u[Len(w)], root)
  BY <1>2, <1>5, <1>6 DEF Awaits
<1> QED
  BY <1>3, <1>7 DEF t

\* An op that starts with its first kid comes to what its kids make of it.
FromKids(n, val) ==
  LET b == val[Kids(n)[1]][1]
      j == NextKid(n, 1, b)
      k == Kids(n)[j]
  IN  /\ Kids(n)[1] \in DOMAIN heap
      /\ j # 0 => j \in DOMAIN Kids(n) /\ k \in DOMAIN heap /\ val[k] \in Outcome
      /\ val[Kids(n)[1]] \in Outcome /\ val[n] \in Outcome
      /\ val[n][1] = Settle(n, IF j = 0 THEN b ELSE val[k][1])
      /\ j = 0 => val[n][2] = val[Kids(n)[1]][2]
      /\ j # 0 => val[n][2] = val[Kids(n)[1]][2] \o val[k][2]

\* What an op that starts with its first kid comes to, from its kids.
LEMMA FirstKid ==
  ASSUME TypeOK, OneOwner, NodesInv, Valid, NEW n \in DOMAIN heap,
         NEW d, NEW val, Consistent(heap, d, val),
         Tag(n) \in {"not", "cond"} \cup Opcode
  PROVE  FromKids(n, val)
<1> DEFINE m == heap[n]
           k1 == m.kids[1]
           k2 == m.kids[2]
           k3 == m.kids[3]
           x == val[k1]
           y == val[k2]
           z == val[k3]
           b == x[1]
           j == NextKid(n, 1, b)
<1>1. /\ m.tag # "exists" => \A i \in DOMAIN m.kids : m.kids[i] \in DOMAIN heap
      /\ m.tag \in {"exists", "not"} => DOMAIN m.kids = {1}
      /\ m.tag \in Opcode => DOMAIN m.kids = {1, 2}
      /\ m.tag = "cond" => DOMAIN m.kids = {1, 2, 3}
  BY KidThere
<1>2. m.tag \in {"not", "cond"} \cup Opcode /\ m.tag # "exists" /\ m.tag # "leaf"
  BY DEF Tag, Opcode
<1>3. /\ k1 \in DOMAIN heap
      /\ m.tag \in Opcode => k2 \in DOMAIN heap
      /\ m.tag = "cond" => k2 \in DOMAIN heap /\ k3 \in DOMAIN heap
  BY <1>1, <1>2
<1>4. /\ x \in Outcome /\ val[n] \in Outcome
      /\ m.tag \in Opcode => y \in Outcome
      /\ m.tag = "cond" => y \in Outcome /\ z \in Outcome
      /\ val[n] = NodeOutcome(m, d, val)
  BY <1>3 DEF Consistent
<1>5. b \in BOOLEAN
  BY <1>4, PairOf
<1>6. /\ Tag(n) = m.tag /\ Kids(n) = m.kids
  BY DEF Tag, Kids
<1> DEFINE v == val[n]
           last == v[1] = Settle(n, b) /\ v[2] = x[2]
           on(r) == v[1] = Settle(n, val[r][1]) /\ v[2] = x[2] \o val[r][2]
<1> HIDE DEF m, x, y, z, b, v
<1>7. ASSUME m.tag = "not" PROVE j = 0 /\ last
  <2>1. v = OnNot(x)
    BY <1>4, <1>7 DEF NodeOutcome, x, v
  <2>2. j = 0 /\ Settle(n, b) = ~b
    BY <1>6, <1>7 DEF NextKid, Settle
  <2> QED
    BY <2>1, <2>2 DEF OnNot, b
<1>8. ASSUME m.tag = "cond" PROVE (j = 2 /\ on(k2)) \/ (j = 3 /\ on(k3))
  <2>1. v = OnCond(x, y, z)
    BY <1>4, <1>8 DEF NodeOutcome, x, y, z, v
  <2>2. j = (IF b THEN 2 ELSE 3) /\ \A c : Settle(n, c) = c
    BY <1>6, <1>8 DEF NextKid, Settle
  <2>3. Settle(n, y[1]) = y[1] /\ Settle(n, z[1]) = z[1]
    BY <2>2
  <2>4. b => v[1] = y[1] /\ v[2] = x[2] \o y[2]
    BY <2>1 DEF OnCond, b
  <2>5. ~b => v[1] = z[1] /\ v[2] = x[2] \o z[2]
    BY <2>1 DEF OnCond, b
  <2> HIDE DEF j
  <2> QED
    BY <1>5, <2>2, <2>3, <2>4, <2>5 DEF y, z
<1>9. ASSUME m.tag \in Opcode PROVE (j = 0 /\ last) \/ (j = 2 /\ on(k2))
  <2>1. v = Join(m.tag, x, y)
    BY <1>4, <1>9 DEF NodeOutcome, Opcode, x, y, v
  <2>2. y[1] \in BOOLEAN
    BY <1>4, <1>9, PairOf
  <2>3. j = IF b = (m.tag = "and") THEN 2 ELSE 0
    BY <1>5, <1>6, <1>9 DEF NextKid, Opcode
  <2>4. /\ Settle(n, b) = IF m.tag = "nor" THEN ~b ELSE b
        /\ Settle(n, y[1]) = IF m.tag = "nor" THEN ~y[1] ELSE y[1]
    BY <1>6, <1>9 DEF Settle, Opcode
  <2> DEFINE t == CASE m.tag = "and" -> b /\ y[1]
                    [] m.tag = "or"  -> b \/ y[1]
                    [] m.tag = "nor" -> ~(b \/ y[1])
             q == IF b = (m.tag = "and") THEN x[2] \o y[2] ELSE x[2]
  <2>5. v = <<t, q>>
    BY <2>1 DEF Join, b
  <2>6. v[1] = t /\ v[2] = q
    <3> HIDE DEF t, q
    <3> QED
      BY <2>5
  <2> HIDE DEF j
  <2>7. CASE b = (m.tag = "and")
    <3>1. v[2] = x[2] \o y[2] /\ j = 2
      BY <2>3, <2>6, <2>7
    <3>2. t = IF m.tag = "nor" THEN ~y[1] ELSE y[1]
      <4>1. CASE m.tag = "and"
        BY <1>5, <2>2, <2>7, <4>1
      <4>2. CASE m.tag = "or"
        BY <1>5, <2>2, <2>7, <4>2
      <4>3. CASE m.tag = "nor"
        BY <1>5, <2>2, <2>7, <4>3
      <4> QED
        BY <1>9, <4>1, <4>2, <4>3 DEF Opcode
    <3> HIDE DEF t
    <3>3. v[1] = Settle(n, y[1])
      BY <2>4, <2>6, <3>2
    <3> QED
      BY <3>1, <3>3 DEF y
  <2>8. CASE b # (m.tag = "and")
    <3>1. v[2] = x[2] /\ j = 0
      BY <2>3, <2>6, <2>8
    <3>2. t = IF m.tag = "nor" THEN ~b ELSE b
      <4>1. CASE m.tag = "and"
        BY <1>5, <2>2, <2>8, <4>1
      <4>2. CASE m.tag = "or"
        BY <1>5, <2>2, <2>8, <4>2
      <4>3. CASE m.tag = "nor"
        BY <1>5, <2>2, <2>8, <4>3
      <4> QED
        BY <1>9, <4>1, <4>2, <4>3 DEF Opcode
    <3> HIDE DEF t
    <3>3. v[1] = Settle(n, b)
      BY <2>4, <2>6, <3>2
    <3> QED
      BY <3>1, <3>3
  <2> QED
    BY <2>7, <2>8
<1>10. \/ j = 0 /\ last
       \/ j = 2 /\ on(k2) /\ j \in DOMAIN m.kids /\ k2 \in DOMAIN heap /\ y \in Outcome
       \/ j = 3 /\ on(k3) /\ j \in DOMAIN m.kids /\ k3 \in DOMAIN heap /\ z \in Outcome
  <2> HIDE DEF j, last, on
  <2>1. CASE m.tag = "not"
    BY <1>7, <2>1
  <2>2. CASE m.tag = "cond"
    BY <1>1, <1>3, <1>4, <1>8, <2>2
  <2>3. CASE m.tag \in Opcode
    BY <1>1, <1>3, <1>4, <1>9, <2>3
  <2> QED
    BY <1>2, <2>1, <2>2, <2>3
<1> HIDE DEF j
<1>11. /\ j = 0 => last
       /\ j # 0 => /\ on(m.kids[j]) /\ j \in DOMAIN m.kids /\ m.kids[j] \in DOMAIN heap
                   /\ val[m.kids[j]] \in Outcome
  <2> HIDE DEF last
  <2>1. CASE j = 0 /\ last
    BY <2>1
  <2>2. CASE j = 2 /\ on(k2) /\ j \in DOMAIN m.kids /\ k2 \in DOMAIN heap /\ y \in Outcome
    <3>1. val[k2] \in Outcome
      BY <2>2 DEF y
    <3> QED
      BY <2>2, <3>1
  <2>3. CASE j = 3 /\ on(k3) /\ j \in DOMAIN m.kids /\ k3 \in DOMAIN heap /\ z \in Outcome
    <3>1. val[k3] \in Outcome
      BY <2>3 DEF z
    <3> QED
      BY <2>3, <3>1
  <2> QED
    BY <1>10, <2>1, <2>2, <2>3
<1> QED
  BY <1>3, <1>4, <1>6, <1>11 DEF FromKids, j, b, x, v

\* Every call and return of a match leads on to what the root comes to.
LEMMA GoingStep ==
  ASSUME MeaningInv, Valid, UseNext, ~Compile, seen \in Seq(Atom),
         NEW d \in Document, d = doc', NEW val, Consistent(heap, d, val),
         d = doc => Going(act, walk, seen, val, ctl.root)
  PROVE  Going(act', walk', seen', val, ctl.root) /\ seen' \in Seq(Atom)
<1> DEFINE root == ctl.root
<1>a. /\ TypeOK /\ OneOwner /\ NodesInv /\ MatchInWalk /\ Walking
      /\ heap \in Seq(Node) /\ (ctl.do = "compiled" => ctl.root \in DOMAIN heap)
  BY CompiledTree DEF MeaningInv, UseInv, CompileInv, Inv, MatchInv, TypeOK, Tree
<1>b. /\ act.do \in {"match", "value"} => walk \in Seq(Visit) /\ ctl.do = "compiled"
      /\ act.do = "match" => act.node \in DOMAIN heap
  BY <1>a DEF MatchInWalk, Walking
<1>c. \A n \in DOMAIN heap :
        /\ val[n] \in Outcome /\ val[n] = NodeOutcome(heap[n], d, val)
        /\ val[n][1] \in BOOLEAN /\ val[n][2] \in Seq(Atom)
  BY PairOf DEF Consistent
<1>d. Assoc(Seq(Atom))
  BY SeqAssoc
<1>e. ASSUME NEW b, NEW e \in Seq(Atom), act' = Value(b), Awaits(walk', val, <<b, e>>, root),
             seen' \o e = val[root][2]
      PROVE  Going(act', walk', seen', val, root)
  BY <1>e DEF Going, Value
<1>f. ASSUME NEW n, NEW e \in Seq(Atom), act' = Match(n), Awaits(walk', val, <<val[n][1], e>>, root),
             seen' \o (val[n][2] \o e) = val[root][2]
      PROVE  Going(act', walk', seen', val, root)
  BY <1>f DEF Going, Match
<1> HIDE DEF root
<1>1. CASE StartMatch
  <2>1. /\ act' = Match(root) /\ ctl.do = "compiled" /\ walk' = walk /\ seen' = << >>
        /\ act.do \in {"idle", "result"}
    BY <1>1 DEF StartMatch, root
  <2>2. walk' = << >> /\ root \in DOMAIN heap
    BY <1>a, <2>1 DEF Walking, root
  <2> DEFINE x == <<val[root][1], << >>>>
  <2>3. x \in Outcome /\ << >> \in Seq(Atom)
    <3>1. << >> \in Seq(Atom)
      OBVIOUS
    <3>2. val[root][1] \in BOOLEAN
      BY <1>c, <2>2
    <3> QED
      BY <3>1, <3>2, PairOf
  <2>4. Awaits(<< >>, val, x, root)
    <3> DEFINE u == [k \in Nat |-> x]
    <3>1. u \in [Nat -> Outcome] /\ u[1] = x /\ u[Len(<< >>) + 1] = x /\ DOMAIN << >> = {}
      BY <2>3
    <3> HIDE DEF u
    <3> QED
      BY <3>1 DEF Awaits
  <2>5. << >> \o (val[root][2] \o << >>) = val[root][2]
    BY <1>c, <2>2, <2>3, Joined
  <2>6. Going(act', walk', seen', val, root)
    BY <1>f, <2>1, <2>2, <2>3, <2>4, <2>5
  <2> QED
    BY <2>1, <2>3, <2>6 DEF root
<1>2. CASE MatchLeaf
  <2> DEFINE n == act.node
             a == heap[n].atom
  <2>1. /\ act.do = "match" /\ heap[n].tag = "leaf" /\ walk' = walk /\ doc' = doc
        /\ seen' = Append(seen, a) /\ act' = Value(doc[a])
    BY <1>2 DEF MatchLeaf, Matching, Tag
  <2>2. n \in DOMAIN heap /\ a \in Atom
    <3>1. n \in DOMAIN heap
      BY <1>b, <2>1
    <3>2. heap[n] \in Node
      BY <1>a, <3>1, KidThere
    <3> QED
      BY <2>1, <3>1, <3>2 DEF Node, Opcode
  <2>3. val[n] = OnLeaf(d, a)
    BY <1>c, <2>1, <2>2 DEF NodeOutcome
  <2>4. val[n][1] = d[a] /\ val[n][2] = <<a>>
    BY <2>3 DEF OnLeaf
  <2>5. PICK e \in Seq(Atom) : /\ Awaits(walk, val, <<val[n][1], e>>, root)
                               /\ seen \o (val[n][2] \o e) = val[root][2]
    BY <2>1 DEF Going, root
  <2> HIDE DEF a, n
  <2>6. /\ <<a>> \in Seq(Atom) /\ Append(seen, a) = seen \o <<a>> /\ Append(seen, a) \in Seq(Atom)
    BY <2>2
  <2>7. (seen \o <<a>>) \o e = seen \o (<<a>> \o e)
    BY <1>d, <2>5, <2>6 DEF Assoc
  <2>8. seen' \o e = val[root][2] /\ Awaits(walk', val, <<d[a], e>>, root)
    BY <2>1, <2>4, <2>5, <2>6, <2>7
  <2>9. act' = Value(d[a])
    BY <2>1
  <2>10. Going(act', walk', seen', val, root)
    BY <1>e, <2>5, <2>8, <2>9
  <2> QED
    BY <2>1, <2>6, <2>10 DEF root
<1>3. CASE MatchExists
  <2> DEFINE n == act.node
             a == heap[n].atom
             spec == heap[n].kids[1]
             c == [node |-> n, at |-> 1]
  <2>1. /\ act.do = "match" /\ heap[n].tag = "exists" /\ doc' = doc
        /\ seen' = Append(seen, a)
        /\ IF doc[a] /\ spec # 0 THEN walk' = Append(walk, c) /\ act' = Match(spec)
           ELSE walk' = walk /\ act' = Value(doc[a] \/ spec # 0)
    BY <1>3 DEF MatchExists, Matching, Kids, Tag, Enter
  <2>2. n \in DOMAIN heap /\ a \in Atom /\ (spec # 0 => spec \in DOMAIN heap)
    <3>1. n \in DOMAIN heap
      BY <1>b, <2>1
    <3>2. heap[n] \in Node /\ (spec # 0 => spec \in DOMAIN heap)
      BY <1>a, <2>1, <3>1, KidThere
    <3> QED
      BY <2>1, <3>1, <3>2 DEF Node, Opcode
  <2>3. val[n] = OnExists(d, a, OfRef(val, spec))
    BY <1>c, <2>1, <2>2 DEF NodeOutcome
  <2>4. PICK e \in Seq(Atom) : /\ Awaits(walk, val, <<val[n][1], e>>, root)
                               /\ seen \o (val[n][2] \o e) = val[root][2]
    BY <2>1 DEF Going, root
  <2>5. c \in Visit
    BY <2>2 DEF Visit
  <2>6. ASSUME NEW p \in 1 .. 3, NEW b PROVE NextKid(n, 1, b) = 0 /\ Settle(n, b) = b
    BY <2>1 DEF NextKid, Settle, Tag
  <2>7. c.node = n /\ c.at = 1
    OBVIOUS
  <2>8. walk \in Seq(Visit)
    BY <1>b, <2>1
  <2> HIDE DEF a, n, spec, c
  <2>9. /\ <<a>> \in Seq(Atom) /\ Append(seen, a) = seen \o <<a>> /\ Append(seen, a) \in Seq(Atom)
        /\ d[a] \in BOOLEAN
    BY <2>2 DEF Document
  <2>10. CASE d[a] /\ spec # 0
    <3> DEFINE s == val[spec]
               x == <<s[1], e>>
               y == <<val[n][1], e>>
    <3>1. s \in Outcome /\ s[1] \in BOOLEAN /\ s[2] \in Seq(Atom) /\ s # End
      BY <1>c, <2>2, <2>10, PairOf
    <3>2. val[n] = <<s[1], <<a>> \o s[2]>>
      BY <2>3, <2>10, <3>1 DEF OnExists, OfRef
    <3>3. val[n][1] = s[1] /\ val[n][2] = <<a>> \o s[2]
      BY <3>2
    <3>4. x \in Outcome /\ y = x /\ x[1] = s[1] /\ x[2] = e
      BY <2>4, <3>1, <3>3, PairOf
    <3> HIDE DEF s
    <3>5. Resumes(c, val, x, x)
      <4>1. NextKid(n, 1, x[1]) = 0 /\ Settle(n, x[1]) = x[1]
        BY <2>6
      <4>2. x = <<x[1], x[2]>>
        BY <3>4
      <4> HIDE DEF x
      <4> QED
        BY <2>7, <4>1, <4>2 DEF Resumes
    <3>6. Awaits(Append(walk, c), val, x, root)
      <4>1. Awaits(walk, val, x, root)
        BY <2>4, <3>4
      <4> HIDE DEF x
      <4> QED
        BY <2>5, <2>8, <3>4, <3>5, <4>1, AwaitsPush
    <3>7. (seen \o <<a>>) \o (s[2] \o e) = seen \o ((<<a>> \o s[2]) \o e)
      <4>1. s[2] \o e \in Seq(Atom) /\ (<<a>> \o s[2]) \o e = <<a>> \o (s[2] \o e)
        <5>1. s[2] \o e \in Seq(Atom)
          BY <2>4, <3>1, ConcatProperties
        <5>2. <<a>> \in Seq(Atom) /\ s[2] \in Seq(Atom) /\ e \in Seq(Atom)
          BY <2>4, <2>9, <3>1
        <5>3. (<<a>> \o s[2]) \o e = <<a>> \o (s[2] \o e)
          BY <1>d, <5>2 DEF Assoc
        <5> QED
          BY <5>1, <5>3
      <4>2. (seen \o <<a>>) \o (s[2] \o e) = seen \o (<<a>> \o (s[2] \o e))
        BY <1>d, <2>9, <4>1 DEF Assoc
      <4> QED
        BY <4>1, <4>2
    <3>8. seen' \o (val[spec][2] \o e) = val[root][2]
      BY <2>1, <2>4, <2>9, <3>3, <3>7 DEF s
    <3>9. act' = Match(spec) /\ Awaits(walk', val, <<val[spec][1], e>>, root)
      BY <2>1, <2>10, <3>6 DEF s
    <3>10. Going(act', walk', seen', val, root)
      BY <1>f, <2>4, <3>8, <3>9
    <3> QED
      BY <2>1, <2>9, <3>10 DEF root
  <2>11. CASE ~(d[a] /\ spec # 0)
    <3> DEFINE b == d[a] \/ spec # 0
    <3>1. val[n] = <<b, <<a>>>>
      <4>1. CASE spec = 0
        BY <2>3, <2>9, <4>1 DEF OnExists, OfRef, OnLeaf
      <4>2. CASE spec # 0
        <5>1. val[spec] # End
          BY <1>c, <2>2, <4>2, PairOf
        <5>2. OfRef(val, spec) # End /\ d[a] = FALSE /\ b = TRUE
          BY <2>9, <2>11, <4>2, <5>1 DEF OfRef
        <5> HIDE DEF b
        <5> QED
          BY <2>3, <5>2 DEF OnExists
      <4> QED
        BY <4>1, <4>2
    <3> HIDE DEF b
    <3>2. val[n][1] = b /\ val[n][2] = <<a>>
      BY <3>1
    <3>3. (seen \o <<a>>) \o e = seen \o (<<a>> \o e)
      BY <1>d, <2>4, <2>9 DEF Assoc
    <3>4. seen' \o e = val[root][2]
      BY <2>1, <2>4, <2>9, <3>2, <3>3
    <3>5. act' = Value(b) /\ walk' = walk
      BY <2>1, <2>11 DEF b
    <3>6. Awaits(walk', val, <<b, e>>, root)
      BY <2>4, <3>2, <3>5
    <3>7. Going(act', walk', seen', val, root)
      BY <1>e, <2>4, <3>4, <3>5, <3>6
    <3> QED
      BY <2>1, <2>9, <3>7 DEF root
  <2> QED
    BY <2>10, <2>11
<1>4. CASE MatchFirst
  <2> DEFINE n == act.node
             k == Kids(n)[1]
             c == [node |-> n, at |-> 1]
             b == val[k][1]
             j == NextKid(n, 1, b)
             r == Kids(n)[j]
  <2>1. /\ act.do = "match" /\ Tag(n) \in {"not", "cond"} \cup Opcode /\ doc' = doc
        /\ seen' = seen /\ walk' = Append(walk, c) /\ act' = Match(k)
    BY <1>4 DEF MatchFirst, Matching, Enter
  <2>2. n \in DOMAIN heap /\ walk \in Seq(Visit)
    BY <1>b, <2>1
  <2>3. /\ k \in DOMAIN heap
        /\ j # 0 => r \in DOMAIN heap
        /\ val[n][1] = Settle(n, IF j = 0 THEN b ELSE val[r][1])
        /\ j = 0 => val[n][2] = val[k][2]
        /\ j # 0 => val[n][2] = val[k][2] \o val[r][2]
    <3>1. FromKids(act.node, val)
      BY <1>a, <2>1, <2>2, FirstKid
    <3> QED
      BY <3>1 DEF FromKids
  <2>4. PICK e \in Seq(Atom) : /\ Awaits(walk, val, <<val[n][1], e>>, root)
                               /\ seen \o (val[n][2] \o e) = val[root][2]
    BY <2>1 DEF Going, root
  <2>5. c \in Visit /\ c.node = n /\ c.at = 1
    BY <2>2 DEF Visit
  <2>6. /\ b \in BOOLEAN /\ val[k][2] \in Seq(Atom) /\ val[n] \in Outcome
        /\ j # 0 => val[r][2] \in Seq(Atom)
    BY <1>c, <2>2, <2>3
  <2> DEFINE g == IF j = 0 THEN e ELSE val[r][2] \o e
             x == <<b, g>>
             y == <<val[n][1], e>>
  <2> HIDE DEF c, k, n, b, j, r
  <2>7. g \in Seq(Atom)
    BY <2>4, <2>6, ConcatProperties
  <2>8. x \in Outcome /\ x[1] = b /\ x[2] = g /\ y[1] = val[n][1] /\ y[2] = e
    BY <2>6, <2>7, PairOf
  <2>9. Resumes(c, val, x, y)
    <3>1. j = 0 => y = <<Settle(n, b), g>>
      BY <2>3
    <3>2. j # 0 => y[1] = Settle(n, val[r][1]) /\ g = val[r][2] \o y[2]
      BY <2>3, <2>8
    <3> HIDE DEF x, y, g
    <3>3. NextKid(c.node, c.at, x[1]) = j
      BY <2>5, <2>8 DEF j
    <3> QED
      BY <2>5, <2>8, <3>1, <3>2, <3>3 DEF Resumes, r
  <2>10. Awaits(walk', val, x, root)
    <3> HIDE DEF x, y, g
    <3>1. Awaits(walk, val, y, root)
      BY <2>4 DEF y
    <3> QED
      BY <2>1, <2>2, <2>5, <2>8, <2>9, <3>1, AwaitsPush
  <2>11. seen' \o (val[k][2] \o g) = val[root][2]
    <3>1. CASE j = 0
      BY <2>1, <2>3, <2>4, <3>1
    <3>2. CASE j # 0
      <4>1. (val[k][2] \o val[r][2]) \o e = val[k][2] \o (val[r][2] \o e)
        BY <1>d, <2>4, <2>6, <3>2 DEF Assoc
      <4> QED
        BY <2>1, <2>3, <2>4, <3>2, <4>1
    <3> QED
      BY <3>1, <3>2
  <2> HIDE DEF g
  <2>12. Going(act', walk', seen', val, root)
    BY <1>f, <2>1, <2>7, <2>10, <2>11 DEF b
  <2> QED
    BY <2>1, <2>12 DEF root
<1>5. CASE MatchNull
  <2>1. act.do = "match" /\ act.node = 0
    BY <1>5 DEF MatchNull
  <2>2. 0 \notin DOMAIN heap
    BY <1>a
  <2> QED
    BY <1>b, <2>1, <2>2
<1>6. CASE Evaluate
  <2> DEFINE n == Last0.node
             b == act.value
             j == NextKid(n, Last0.at, b)
             c == [node |-> n, at |-> j]
             r == Kids(n)[j]
  <2>1. /\ act.do = "value" /\ walk # << >> /\ doc' = doc /\ seen' = seen
        /\ j # 0 => walk' = Append(Callers, c) /\ act' = Match(r)
        /\ j = 0 => walk' = Callers /\ act' = Value(Settle(n, b))
    BY <1>6 DEF Evaluate
  <2>2. /\ walk \in Seq(Visit) /\ Last0 \in Visit /\ Callers \in Seq(Visit)
        /\ n \in DOMAIN heap
    <3>1. walk \in Seq(Visit)
      BY <1>b, <2>1
    <3>2. Last0 \in Visit /\ Callers \in Seq(Visit)
      BY <2>1, <3>1, FrontOfSeq DEF Last0, Callers
    <3> QED
      BY <3>1, <3>2 DEF Visit
  <2>3. PICK e \in Seq(Atom) : /\ Awaits(walk, val, <<b, e>>, root)
                               /\ seen \o e = val[root][2]
    BY <2>1 DEF Going, root
  <2> DEFINE x == <<b, e>>
  <2>4. PICK y \in Outcome : Resumes(Last0, val, x, y) /\ Awaits(Callers, val, y, root)
    <3>1. Awaits(walk, val, x, root)
      BY <2>3
    <3> HIDE DEF x
    <3> QED
      BY <2>1, <2>2, <3>1, AwaitsPop DEF Last0, Callers
  <2>5. x[1] = b /\ x[2] = e
    OBVIOUS
  <2>6. /\ y[1] \in BOOLEAN /\ y[2] \in Seq(Atom) /\ y = <<y[1], y[2]>>
    BY <2>4, PairOf
  <2> HIDE DEF x
  <2>7. /\ j = 0 => y = <<Settle(n, b), e>>
        /\ j # 0 => y[1] = Settle(n, val[r][1]) /\ e = val[r][2] \o y[2]
    BY <2>4, <2>5 DEF Resumes
  <2>8. /\ j \in {0, 2, 3}
        /\ j # 0 => Tag(n) \in {"cond"} \cup Opcode
        /\ j = 3 => Tag(n) = "cond"
        /\ \A v : NextKid(n, 2, v) = 0 /\ NextKid(n, 3, v) = 0
    BY DEF NextKid, Opcode
  <2> HIDE DEF j
  <2>9. j # 0 => r \in DOMAIN heap
    <3>1. j # 0 => j \in DOMAIN heap[n].kids /\ heap[n].tag # "exists"
      BY <1>a, <2>2, <2>8, KidThere DEF Opcode, Tag
    <3> HIDE DEF n
    <3> QED
      BY <1>a, <2>2, <3>1, KidThere DEF Kids
  <2>10. CASE j = 0
    <3>1. act' = Value(Settle(n, b)) /\ Awaits(walk', val, <<Settle(n, b), e>>, root)
      BY <2>1, <2>4, <2>7, <2>10
    <3>2. Going(act', walk', seen', val, root)
      BY <1>e, <2>1, <2>3, <3>1
    <3> QED
      BY <2>1, <3>2 DEF root
  <2>11. CASE j # 0
    <3> DEFINE z == <<val[r][1], y[2]>>
    <3>1. z \in Outcome /\ z[1] = val[r][1] /\ z[2] = y[2]
      BY <1>c, <2>6, <2>9, <2>11, PairOf
    <3>2. c \in Visit /\ c.node = n /\ c.at = j
      BY <2>2, <2>8, <2>11 DEF Visit
    <3> HIDE DEF c, z
    <3>3. Resumes(c, val, z, y)
      <4>1. NextKid(c.node, c.at, z[1]) = 0
        BY <2>8, <2>11, <3>2
      <4>2. y = <<Settle(c.node, z[1]), z[2]>>
        BY <2>6, <2>7, <2>11, <3>1, <3>2
      <4> QED
        BY <4>1, <4>2 DEF Resumes
    <3>4. Awaits(walk', val, z, root)
      BY <2>1, <2>2, <2>4, <2>11, <3>1, <3>2, <3>3, AwaitsPush
    <3>5. seen' \o (val[r][2] \o y[2]) = val[root][2]
      BY <2>1, <2>3, <2>7, <2>11
    <3>6. Going(act', walk', seen', val, root)
      BY <1>f, <2>1, <2>6, <2>11, <3>4, <3>5 DEF z
    <3> QED
      BY <2>1, <3>6 DEF root
  <2> QED
    BY <2>10, <2>11
<1>7. CASE MatchReturn
  <2>1. /\ act.do = "value" /\ walk = << >> /\ act' = [do |-> "result", value |-> act.value]
        /\ doc' = doc /\ seen' = seen
    BY <1>7 DEF MatchReturn
  <2>2. PICK e \in Seq(Atom) : /\ Awaits(walk, val, <<act.value, e>>, root)
                               /\ seen \o e = val[root][2]
    BY <2>1 DEF Going, root
  <2>3. <<act.value, e>> = <<val[root][1], << >>>>
    BY <2>1, <2>2 DEF Awaits
  <2>4. act.value = val[root][1] /\ e = << >>
    BY <2>3
  <2>5. seen = val[root][2]
    BY <2>2, <2>4, ConcatEmptySeq
  <2> QED
    BY <2>1, <2>4, <2>5 DEF Going, root
<1>8. CASE StartDestroy
  BY <1>8 DEF StartDestroy, Going, Free
<1>9. CASE FreeNode \/ FreedKid
  <2>1. \A k : Free(k).do = "free"
    BY DEF Free
  <2>2. seen' = seen /\ act'.do \in {"freed", "free"}
    <3>1. CASE FreeNode
      BY <2>1, <3>1 DEF FreeNode, Descend
    <3>2. CASE FreedKid
      BY <2>1, <3>2 DEF FreedKid, Descend
    <3> QED
      BY <1>9, <3>1, <3>2
  <2> QED
    BY <2>2 DEF Going
<1>10. CASE Destroyed
  BY <1>10 DEF Destroyed, Going
<1> QED
  BY <1>1, <1>2, <1>3, <1>4, <1>5, <1>6, <1>7, <1>8, <1>9, <1>10 DEF UseNext

\* A step that leaves the ops alone leaves what they lead to.
LEMMA GoingSame ==
  ASSUME heap' = heap, NEW val, Going(act', walk', seen', val, ctl'.root)
  PROVE  Going(act, walk, seen, val, ctl.root)'
<1>1. \A f, x, y : Resumes(f, val, x, y)' <=> Resumes(f, val, x, y)
  BY DEF Resumes, NextKid, Settle, Kids, Tag
<1>2. \A x : Awaits(walk, val, x, ctl.root)' <=> Awaits(walk', val, x, ctl'.root)
  BY <1>1 DEF Awaits
<1> QED
  BY <1>2 DEF Going
-----------------------------------------------------------------------------
(***************************************************************************)
(* The inductive invariant: what is compiled comes to what the query says  *)
(* of any document, and a match on the way leads to what the root comes to *)
(* for the document being matched.                                         *)
(***************************************************************************)
CompilesTo ==
  Faithful =>
    \A d \in Document : \A val : Consistent(heap, d, val) =>
      Answering(stack, ctl, d, val, OfList(d, "and", query))

MatchesTo ==
  Faithful =>
    /\ doc \in Document
    /\ seen \in Seq(Atom)
    /\ \A val : Consistent(heap, doc, val) => Going(act, walk, seen, val, ctl.root)

AnswerInv == MeaningInv /\ CompilesTo /\ MatchesTo

\* It holds when mongoc_matcher_new is entered,
LEMMA AnswerInit == UseInit => AnswerInv
<1> SUFFICES ASSUME UseInit PROVE AnswerInv
  OBVIOUS
<1>1. MeaningInv /\ TypeOK /\ Init
  BY MeaningInit DEF MeaningInv, UseInv, CompileInv, Inv, UseInit
<1>2. CompilesTo
  BY <1>1, AnswersInit DEF CompilesTo, Faithful
<1>3. doc \in Document /\ seen \in Seq(Atom) /\ act.do = "idle"
  BY DEF UseInit, Document, Idle
<1>4. MatchesTo
  BY <1>3 DEF MatchesTo, Going
<1> QED
  BY <1>1, <1>2, <1>4 DEF AnswerInv

\* and every step of compiling, of a match and of a destroy keeps it.
LEMMA AnswerNext == AnswerInv /\ [UseNext]_allVars => AnswerInv'
<1> SUFFICES ASSUME AnswerInv, [UseNext]_allVars PROVE AnswerInv'
  OBVIOUS
<1>a. /\ MeaningInv /\ MeaningInv' /\ CompilesTo /\ MatchesTo
      /\ TypeOK /\ TypeOK' /\ OneOwner /\ NodesInv /\ Walking /\ ReadsOnly
      /\ Valid => SoundAbove(0)
  <2>1. MeaningInv /\ MeaningInv'
    BY MeaningNext DEF AnswerInv
  <2>2. TypeOK'
    BY <2>1 DEF MeaningInv, UseInv, CompileInv, Inv
  <2> QED
    BY <2>1, <2>2 DEF AnswerInv, MeaningInv, UseInv, CompileInv, Inv, StopInv
<1>b. query' = query => Faithful' = Faithful
  BY DEF Faithful, Valid
<1>c. ASSUME UNCHANGED vars PROVE CompilesTo'
  BY <1>a, <1>b, <1>c DEF vars, CompilesTo
<1>1. CASE Compile /\ Step
  <2>1. query' = query /\ UNCHANGED useVars
    BY <1>1, StackMoves DEF Compile
  <2>2. act.do = "idle"
    <3>1. ctl.do # "compiled"
      BY <1>1 DEF Step, ParseLeaf, ParseBad, ParseNot, ParseExistsEmpty, ParseExists,
         ParseLogical, ParseCond, LogicalEmpty, LogicalNotDocument, LogicalLeft, GotLeftLast,
         GotLeftNotDocument, GotLeft, GotRightFailed, GotRight, GotNoMore, GotMore, GotNot,
         GotExists, CondSkip, CondPart, GotCondPart, CondComplete, CondIncomplete, Finish,
         Parsing, Returning, ReturningAt, Looping
    <3> QED
      BY <1>a, <3>1 DEF Walking
  <2>3. MatchesTo'
    BY <1>a, <1>b, <2>1, <2>2 DEF useVars, MatchesTo, Going
  <2>4. ASSUME Faithful, NEW d \in Document, NEW val, Consistent(heap', d, val)
        PROVE  Answering(stack', ctl', d, val, OfList(d, "and", query))
    <3>1. PICK new \in Seq(Node) : heap' = heap \o new
      BY <1>1, <1>a, HeapMoves
    <3>2. Consistent(heap, d, val)
      BY <1>a, <2>4, <3>1, ConsistentBefore DEF TypeOK
    <3>3. Answering(stack, ctl, d, val, OfList(d, "and", query))
      BY <1>a, <2>4, <3>2 DEF CompilesTo
    <3> DEFINE root == OfList(d, "and", query)
    <3>4. Answering(stack, ctl, d, val, root) /\ SoundAbove(0)
      BY <1>a, <2>4, <3>3 DEF Faithful
    <3> HIDE DEF root
    <3>5. Answering(stack', ctl', d, val, root)
      BY <1>1, <1>a, <2>4, <3>4, AnswersStep
    <3> QED
      BY <3>5 DEF root
  <2>5. CompilesTo'
    BY <1>b, <2>1, <2>4 DEF CompilesTo
  <2> QED
    BY <1>a, <2>3, <2>5 DEF AnswerInv
<1>2. CASE (Compile /\ ~Step) \/ UNCHANGED allVars
  <2>1. UNCHANGED vars /\ UNCHANGED useVars
    BY <1>2 DEF Compile, Next, Stay, allVars, vars, useVars
  <2>2. /\ query' = query /\ heap' = heap /\ ctl' = ctl
        /\ doc' = doc /\ act' = act /\ walk' = walk /\ seen' = seen
    BY <2>1 DEF vars, useVars
  <2>3. ASSUME Faithful, NEW val, Consistent(heap, doc, val)
        PROVE  Going(act, walk, seen, val, ctl.root)'
    <3>1. Going(act, walk, seen, val, ctl.root)
      BY <1>a, <2>3 DEF MatchesTo
    <3> QED
      BY <2>2, <3>1, GoingSame
  <2>4. MatchesTo'
    BY <1>a, <1>b, <2>2, <2>3 DEF MatchesTo
  <2> QED
    BY <1>a, <1>c, <2>1, <2>4 DEF AnswerInv
<1>3. CASE UseNext /\ ~Compile
  <2>1. UNCHANGED vars
    BY <1>3 DEF UseNext, StartMatch, MatchLeaf, MatchExists, MatchFirst, MatchNull,
       Evaluate, MatchReturn, StartDestroy, FreeNode, FreedKid, Destroyed, vars
  <2>2. query' = query /\ heap' = heap /\ ctl' = ctl
    BY <2>1 DEF vars
  <2>3. doc' = doc \/ doc' \in Document
    BY <1>3 DEF UseNext, StartMatch, MatchLeaf, MatchExists, MatchFirst, MatchNull,
       Evaluate, MatchReturn, StartDestroy, FreeNode, FreedKid, Destroyed
  <2>4. ASSUME Faithful
        PROVE  /\ doc' \in Document
               /\ \A val : Consistent(heap, doc', val) =>
                    /\ Going(act', walk', seen', val, ctl.root)
                    /\ seen' \in Seq(Atom)
    <3>1. /\ Valid /\ doc' \in Document /\ seen \in Seq(Atom)
          /\ \A val : Consistent(heap, doc, val) => Going(act, walk, seen, val, ctl.root)
      BY <1>a, <2>3, <2>4 DEF MatchesTo, Faithful
    <3>2. ASSUME NEW val, Consistent(heap, doc', val)
          PROVE  Going(act', walk', seen', val, ctl.root) /\ seen' \in Seq(Atom)
      <4>1. doc' = doc => Going(act, walk, seen, val, ctl.root)
        BY <3>1, <3>2
      <4> QED
        BY <1>3, <1>a, <3>1, <3>2, <4>1, GoingStep
    <3> QED
      BY <3>1, <3>2
  <2>5. ASSUME Faithful PROVE seen' \in Seq(Atom)
    <3>1. PICK val : Consistent(heap, doc', val)
      BY <1>a, <2>4, <2>5, OutcomesExist DEF Faithful
    <3> QED
      BY <2>4, <2>5, <3>1
  <2>6. ASSUME Faithful, NEW val, Consistent(heap, doc', val)
        PROVE  Going(act, walk, seen, val, ctl.root)'
    <3>1. Going(act', walk', seen', val, ctl'.root)
      BY <2>2, <2>4, <2>6
    <3> QED
      BY <2>2, <3>1, GoingSame
  <2>7. MatchesTo'
    BY <1>b, <2>2, <2>4, <2>5, <2>6 DEF MatchesTo
  <2> QED
    BY <1>a, <1>c, <2>1, <2>7 DEF AnswerInv
<1> QED
  BY <1>1, <1>2, <1>3

\* A match that has returned gave the truth value and the atoms of the root,
\* which are those of the query.
LEMMA Answered ==
  ASSUME AnswerInv, Faithful, act.do = "result"
  PROVE  act.value = Meaning(doc) /\ seen = Asked(doc)
<1>1. /\ TypeOK /\ OneOwner /\ NodesInv /\ Valid /\ ctl.do = "compiled" /\ stack = << >>
      /\ ctl.root \in Nat \ {0} /\ query \in Seq(Clause) /\ doc \in Document
  <2>1. MeaningInv /\ Valid /\ doc \in Document
    BY DEF AnswerInv, MatchesTo, Faithful
  <2>2. CompileInv /\ TypeOK /\ OneOwner /\ NodesInv /\ Walking /\ Compiled
    BY <2>1 DEF MeaningInv, UseInv, CompileInv, Inv
  <2>3. ctl.do = "compiled"
    BY <2>2 DEF Walking
  <2>4. Tree(heap, ctl.root)
    BY <2>2, <2>3, CompiledTree
  <2>5. ctl.root \in Nat \ {0}
    BY <2>2, <2>4 DEF Tree, TypeOK
  <2> QED
    BY <2>1, <2>2, <2>3, <2>5 DEF TypeOK, Compiled
<1>2. PICK val : Consistent(heap, doc, val)
  BY <1>1, OutcomesExist
<1> DEFINE x == OfList(doc, "and", query)
<1>3. x = <<Meaning(doc), Asked(doc)>>
  BY <1>1, OfQuery
<1> HIDE DEF x
<1>4. Answering(stack, ctl, doc, val, x)
  BY <1>1, <1>2 DEF AnswerInv, CompilesTo, x
<1>5. Leads(<< >>, FALSE, doc, val, val[ctl.root], x)
  <2>1. PICK y \in Result : /\ Leads(stack, ctl.do = "loop", doc, val, y, x)
                            /\ Promises(ctl, doc, val, y)
    BY <1>4 DEF Answering
  <2>2. y = val[ctl.root] /\ (ctl.do = "loop") = FALSE
    BY <1>1, <2>1 DEF Promises, OfRef
  <2> QED
    BY <1>1, <2>1, <2>2
<1>6. val[ctl.root] = x
  BY <1>5, LeadsHome
<1>7. val[ctl.root][1] = Meaning(doc) /\ val[ctl.root][2] = Asked(doc)
  BY <1>3, <1>6
<1>8. Going(act, walk, seen, val, ctl.root)
  BY <1>2 DEF AnswerInv, MatchesTo
<1> QED
  BY <1>7, <1>8 DEF Going

\* mongoc_matcher_match answers what the query asks of the document, for every
\* valid query whose lists of $nor are pairs.
THEOREM AnswersWhatIsMeant == UseSpec => []MatchMeaning
<1>1. AnswerInv => MatchMeaning
  BY Answered DEF MatchMeaning
<1> QED
  BY <1>1, AnswerInit, AnswerNext, PTL DEF UseSpec

\* It asks left to right and stops at the clause that settles the answer, as
\* lib/tests/bsoncompare_and_bailout.c tells users to rely on.
THEOREM AsksNoMore == UseSpec => []FailFast
<1>1. AnswerInv => FailFast
  BY Answered DEF FailFast
<1> QED
  BY <1>1, AnswerInit, AnswerNext, PTL DEF UseSpec
=============================================================================
