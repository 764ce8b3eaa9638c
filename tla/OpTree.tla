------------------------------- MODULE OpTree -------------------------------
(***************************************************************************)
(* How bsonsearch compiles a query (lib/mongoc-matcher.c): the recursive   *)
(* descent of mongoc_matcher_new over the clauses of a query, the C stack  *)
(* it runs on, and the mongoc_matcher_op_t nodes it allocates.             *)
(*                                                                         *)
(* Every C call that allocates, returns or fails is one step.  A pointer   *)
(* is the index of a node in heap, NULL is 0; a node is entered there when *)
(* its constructor is done.  heap only grows: nothing of this module frees *)
(* a node (OpTreeUse does), so that a node no pointer reaches any more is  *)
(* a leak one can see.                                                     *)
(*                                                                         *)
(* A clause stands for one key of a BSON document with its value:          *)
(*   leaf     an operator with no sub-query: {a: 1}, {a: {$gt: 1}}, ...    *)
(*   not      {a: {$not: kid}}                                             *)
(*   exists   {a: {$exists: {spec}}}                                       *)
(*   logical  {$and | $or | $nor: [elems]}                                 *)
(*   cond     {$cond: {if: .., then: .., else: ..}}, keys in any order     *)
(*   bad      a clause the parser refuses: with @error set ("error"), with *)
(*            NULL alone ("silent", $near without $maxDistance), or by the *)
(*            BSON_ASSERT on the constructor's NULL ("abort", an $exists   *)
(*            that is neither a boolean nor a document)                    *)
(* An element is the document at one place of an array, as its sequence of *)
(* clauses; << >> is a value that is not a document.  An empty document    *)
(* there makes the parser read an iterator that bson_iter_next refused:    *)
(* undefined, and not modelled.                                            *)
(***************************************************************************)
EXTENDS Naturals, Sequences

CONSTANTS Clause,   \* the clauses that may occur, closed under sub-clauses
          Atom,     \* what leaves and $exists ask of a document
          Queries   \* the queries to compile, as sequences of clauses

Opcode  == {"and", "or", "nor"}
Part    == {"if", "then", "else"}
Element == Seq(Clause)
CompareKinds == {"leaf", "not", "exists", "bad"}

ASSUME ClauseAssumption ==
  \A c \in Clause :
    /\ c.kind \in CompareKinds \cup {"logical", "cond"}
    /\ c.kind \in {"leaf", "exists"} => c.atom \in Atom
    /\ c.kind = "not" => c.kid \in Clause /\ c.kid.kind \in CompareKinds
    /\ c.kind = "exists" => c.spec \in Element
    /\ c.kind = "logical" => c.op \in Opcode /\ c.elems \in Seq(Element)
    /\ c.kind = "cond" => c.parts \in Seq([part : Part, elem : Element])
    /\ c.kind = "bad" => c.how \in {"error", "silent", "abort"}

ASSUME QueriesAssumption == Queries \subseteq Seq(Clause)

VARIABLES query,   \* the spec given to mongoc_matcher_new
          ctl,     \* the call about to be made, or the value being returned
          stack,   \* the callers below it, innermost last
          heap,    \* the ops allocated so far
          err      \* whether @error was set

vars == <<query, ctl, stack, heap, err>>
-----------------------------------------------------------------------------
(***************************************************************************)
(* Nodes, frames and the control register.                                 *)
(***************************************************************************)
Ref == Nat

Node ==
  [tag : {"leaf", "exists"}, atom : Atom, kids : Seq(Ref)]
    \cup [tag : {"not", "cond"} \cup Opcode, kids : Seq(Ref)]

LeafNode(a)      == [tag |-> "leaf", atom |-> a, kids |-> << >>]
ExistsNode(a, q) == [tag |-> "exists", atom |-> a, kids |-> <<q>>]
NotNode(k)       == [tag |-> "not", kids |-> <<k>>]
\* Mutant: the operands swapped.
SwappedNode(op, l, r) == [tag |-> op, kids |-> <<r, l>>]
LogicalNode(op, l, r) == [tag |-> op, kids |-> <<l, r>>]
CondNode(got)    == [tag |-> "cond", kids |-> <<got["if"], got["then"], got["else"]>>]

LogicalFrame ==
  [fn : {"logical"}, op : Opcode, items : Seq(Element),
   at : {"left", "right", "more"}, left : Ref, right : Ref]
NotFrame    == [fn : {"not"}]
ExistsFrame == [fn : {"exists"}, atom : Atom]
CondFrame   ==
  [fn : {"cond"}, items : Seq([part : Part, elem : Element]),
   at : Part, got : [Part -> Ref], ok : SUBSET Part]
Frame == LogicalFrame \cup NotFrame \cup ExistsFrame \cup CondFrame

Control ==
  [do : {"parse"}, clause : Clause]
    \cup [do : {"logical"}, op : Opcode, items : Seq(Element)]
    \cup [do : {"return"}, ref : Ref]
    \cup [do : {"compiled"}, root : Ref]
    \cup [do : {"loop", "failed", "aborted"}]

Parse(c)           == [do |-> "parse", clause |-> c]
Logical(op, items) == [do |-> "logical", op |-> op, items |-> items]
Return(r)          == [do |-> "return", ref |-> r]
Aborted            == [do |-> "aborted"]

TypeOK ==
  /\ query \in Seq(Clause)
  /\ ctl \in Control
  /\ stack \in Seq(Frame)
  /\ heap \in Seq(Node)
  /\ err \in BOOLEAN
(***************************************************************************)
(* Who points to which op, NULL left out: the ops, the C locals, the value *)
(* being returned.                                                         *)
(***************************************************************************)
KidsOf(n) == {n.kids[i] : i \in DOMAIN n.kids} \ {0}

Locals(f) ==
  CASE f.fn = "logical" -> {f.left, f.right} \ {0}
    [] f.fn = "cond"    -> {f.got[p] : p \in Part} \ {0}
    [] OTHER            -> {}

Held == CASE ctl.do = "return"   -> ctl.ref
          [] ctl.do = "compiled" -> ctl.root
          [] OTHER               -> 0

NoTwin(n) ==
  \A i, j \in DOMAIN n.kids : n.kids[i] = n.kids[j] => i = j \/ n.kids[i] = 0

NoTwinLocals(f) ==
  /\ f.fn = "logical" => f.left # f.right \/ f.left = 0
  /\ f.fn = "cond" =>
       \A p, q \in Part : f.got[p] = f.got[q] => p = q \/ f.got[p] = 0

\* An op points to older ops only, and the locals to ops that exist.
Grounded(h, s, r) ==
  /\ \A n \in 1 .. Len(h) : KidsOf(h[n]) \subseteq 1 .. n - 1
  /\ \A k \in 1 .. Len(s) : Locals(s[k]) \subseteq 1 .. Len(h)
  /\ r \in 0 .. Len(h)

\* No op is pointed to from two places.
Apart(h, s, r) ==
  /\ \A n \in 1 .. Len(h) : NoTwin(h[n]) /\ r \notin KidsOf(h[n])
  /\ \A m, n \in 1 .. Len(h) : m # n => KidsOf(h[m]) \cap KidsOf(h[n]) = {}
  /\ \A k \in 1 .. Len(s) : NoTwinLocals(s[k]) /\ r \notin Locals(s[k])
  /\ \A k, l \in 1 .. Len(s) : k # l => Locals(s[k]) \cap Locals(s[l]) = {}
  /\ \A n \in 1 .. Len(h), k \in 1 .. Len(s) : KidsOf(h[n]) \cap Locals(s[k]) = {}

\* The ops form a forest whose trees hang from one pointer each: what makes
\* _mongoc_matcher_op_destroy, which frees what op points to, safe.
OneOwner == Grounded(heap, stack, Held) /\ Apart(heap, stack, Held)
-----------------------------------------------------------------------------
Push(f)    == stack' = Append(stack, f)
Top        == stack[Len(stack)]
Below      == SubSeq(stack, 1, Len(stack) - 1)
Pop        == stack' = Below
SetTop(f)  == stack' = Append(Below, f)
Fresh      == Len(heap) + 1
Alloc(n)   == heap' = Append(heap, n) /\ ctl' = Return(Fresh)
Fail       == ctl' = Return(0) /\ heap' = heap

\* Mutant: the error is not passed on to the caller.
SetErrorLocally == err' = (err \/ stack = << >>)
\* bson_set_error: the spec of an $exists is parsed with a NULL error.
SetError   == err' = (err \/ \A k \in DOMAIN stack : stack[k].fn # "exists")

\* The top-level clauses are read one key at a time, as if each were an element.
Init ==
  /\ query \in Queries
  /\ ctl = Logical("and", [i \in 1 .. Len(query) |-> <<query[i]>>])
  /\ stack = << >>
  /\ heap = << >>
  /\ err = FALSE
-----------------------------------------------------------------------------
(***************************************************************************)
(* _mongoc_matcher_parse and _mongoc_matcher_parse_compare                 *)
(***************************************************************************)
Parsing(kind) == ctl.do = "parse" /\ ctl.clause.kind = kind

ParseLeaf ==
  /\ Parsing("leaf")
  /\ Alloc(LeafNode(ctl.clause.atom))
  /\ UNCHANGED <<query, stack, err>>

ParseBad ==
  /\ Parsing("bad")
  /\ IF ctl.clause.how = "error" THEN SetError ELSE err' = err
  /\ ctl' = IF ctl.clause.how = "abort" THEN Aborted ELSE Return(0)
  /\ UNCHANGED <<query, stack, heap>>

ParseNot ==
  /\ Parsing("not")
  /\ Push([fn |-> "not"])
  /\ ctl' = Parse(ctl.clause.kid)
  /\ UNCHANGED <<query, heap, err>>

\* An empty spec document leaves op->exists.query NULL.
ParseExistsEmpty ==
  /\ Parsing("exists")
  /\ ctl.clause.spec = << >>
  /\ Alloc(ExistsNode(ctl.clause.atom, 0))
  /\ UNCHANGED <<query, stack, err>>

ParseExists ==
  /\ Parsing("exists")
  /\ ctl.clause.spec # << >>
  /\ Push([fn |-> "exists", atom |-> ctl.clause.atom])
  /\ ctl' = Parse(Head(ctl.clause.spec))
  /\ UNCHANGED <<query, heap, err>>

ParseLogical ==
  /\ Parsing("logical")
  /\ ctl' = Logical(ctl.clause.op, ctl.clause.elems)
  /\ UNCHANGED <<query, stack, heap, err>>

ParseCond ==
  /\ Parsing("cond")
  /\ Push([fn |-> "cond", items |-> ctl.clause.parts, at |-> "if",
           got |-> [p \in Part |-> 0], ok |-> {}])
  /\ ctl' = [do |-> "loop"]
  /\ UNCHANGED <<query, heap, err>>
-----------------------------------------------------------------------------
(***************************************************************************)
(* _mongoc_matcher_parse_logical.  The callee reads on in the same         *)
(* iterator, so "more" is a call on the elements that are left.            *)
(***************************************************************************)
LogicalEmpty ==
  /\ ctl.do = "logical"
  /\ ctl.items = << >>
  /\ SetError
  /\ Fail
  /\ UNCHANGED <<query, stack>>

LogicalNotDocument ==
  /\ ctl.do = "logical"
  /\ ctl.items # << >>
  /\ Head(ctl.items) = << >>
  /\ SetError
  /\ Fail
  /\ UNCHANGED <<query, stack>>

LogicalLeft ==
  /\ ctl.do = "logical"
  /\ ctl.items # << >>
  /\ Head(ctl.items) # << >>
  /\ Push([fn |-> "logical", op |-> ctl.op, items |-> Tail(ctl.items),
           at |-> "left", left |-> 0, right |-> 0])
  /\ ctl' = Parse(Head(Head(ctl.items)))
  /\ UNCHANGED <<query, heap, err>>

Returning(fn) ==
  /\ ctl.do = "return"
  /\ stack # << >>
  /\ Top.fn = fn

ReturningAt(place) == Returning("logical") /\ Top.at = place

\* A failed first clause fails the call; a single clause is returned bare.
GotLeftLast ==
  /\ ReturningAt("left")
  /\ ctl.ref = 0 \/ Top.items = << >>
  /\ Pop
  /\ UNCHANGED <<query, ctl, heap, err>>

\* return NULL: the left op is not destroyed.
GotLeftNotDocument ==
  /\ ReturningAt("left")
  /\ ctl.ref # 0
  /\ Top.items # << >>
  /\ Head(Top.items) = << >>
  /\ SetError
  /\ Pop
  /\ Fail
  /\ UNCHANGED query

GotLeft ==
  /\ ReturningAt("left")
  /\ ctl.ref # 0
  /\ Top.items # << >>
  /\ Head(Top.items) # << >>
  /\ SetTop([Top EXCEPT !.at = "right", !.left = ctl.ref, !.items = Tail(@)])
  /\ ctl' = Parse(Head(Head(Top.items)))
  /\ UNCHANGED <<query, heap, err>>

\* return NULL again without destroying left.
GotRightFailed ==
  /\ ReturningAt("right")
  /\ ctl.ref = 0
  /\ Pop
  /\ UNCHANGED <<query, ctl, heap, err>>

GotRight ==
  /\ ReturningAt("right")
  /\ ctl.ref # 0
  /\ SetTop([Top EXCEPT !.at = "more", !.right = ctl.ref])
  /\ ctl' = Logical(Top.op, Top.items)
  /\ UNCHANGED <<query, heap, err>>

\* Mutant: the end of the list taken for a failed tail.
NoMoreFails ==
  ReturningAt("more") /\ ctl.ref = 0 /\ Pop /\ UNCHANGED <<query, ctl, heap, err>>

\* NULL is taken for the end of the list, whatever made the call fail.
GotNoMore ==
  /\ ReturningAt("more")
  /\ ctl.ref = 0
  /\ Alloc(LogicalNode(Top.op, Top.left, Top.right))
  /\ Pop
  /\ UNCHANGED <<query, err>>

\* Mutant: no node for the right operand and the tail.
MoreDropsRight ==
  ReturningAt("more") /\ ctl.ref # 0 /\ Alloc(LogicalNode(Top.op, Top.left, ctl.ref))
  /\ Pop /\ UNCHANGED <<query, err>>

\* Mutant: right put under both new nodes.
MoreSharesRight ==
  /\ ReturningAt("more")
  /\ ctl.ref # 0
  /\ heap' = heap \o <<LogicalNode(Top.op, Top.right, ctl.ref),
                       LogicalNode(Top.op, Top.right, Fresh)>>
  /\ ctl' = Return(Fresh + 1)
  /\ Pop
  /\ UNCHANGED <<query, err>>

GotMore ==
  /\ ReturningAt("more")
  /\ ctl.ref # 0
  /\ heap' = heap \o <<LogicalNode(Top.op, Top.right, ctl.ref),
                       LogicalNode(Top.op, Top.left, Fresh)>>
  /\ ctl' = Return(Fresh + 1)
  /\ Pop
  /\ UNCHANGED <<query, err>>
-----------------------------------------------------------------------------
(***************************************************************************)
(* The callers of a sub-query: $not, $exists and $cond.                    *)
(***************************************************************************)
GotNot ==
  /\ Returning("not")
  /\ Pop
  /\ IF ctl.ref = 0 THEN Fail ELSE Alloc(NotNode(ctl.ref))
  /\ UNCHANGED <<query, err>>

\* queryer may be NULL: the op is built all the same.
GotExists ==
  /\ Returning("exists")
  /\ Alloc(ExistsNode(Top.atom, ctl.ref))
  /\ Pop
  /\ UNCHANGED <<query, err>>

Looping == ctl.do = "loop" /\ stack # << >> /\ Top.fn = "cond"

\* A value that is not a document leaves the part as it was.
CondSkip ==
  /\ Looping
  /\ Top.items # << >>
  /\ Head(Top.items).elem = << >>
  /\ SetTop([Top EXCEPT !.items = Tail(@)])
  /\ UNCHANGED <<query, ctl, heap, err>>

CondPart ==
  /\ Looping
  /\ Top.items # << >>
  /\ Head(Top.items).elem # << >>
  /\ SetTop([Top EXCEPT !.items = Tail(@), !.at = Head(Top.items).part])
  /\ ctl' = Parse(Head(Head(Top.items).elem))
  /\ UNCHANGED <<query, heap, err>>

\* A repeated key overwrites the pointer; conditional_ok keeps its bit.
GotCondPart ==
  /\ Returning("cond")
  /\ SetTop([Top EXCEPT !.got[Top.at] = ctl.ref,
                        !.ok = IF ctl.ref = 0 THEN @ ELSE @ \cup {Top.at}])
  /\ ctl' = [do |-> "loop"]
  /\ UNCHANGED <<query, heap, err>>

CondComplete ==
  /\ Looping
  /\ Top.items = << >>
  /\ Top.ok = Part
  /\ Alloc(CondNode(Top.got))
  /\ Pop
  /\ UNCHANGED <<query, err>>

\* A missing part is NULL and _mongoc_matcher_op_destroy asserts on it.
CondIncomplete ==
  /\ Looping
  /\ Top.items = << >>
  /\ Top.ok # Part
  /\ ctl' = Aborted
  /\ UNCHANGED <<query, stack, heap, err>>
-----------------------------------------------------------------------------
\* mongoc_matcher_new: back from the first call.
Finish ==
  /\ ctl.do = "return"
  /\ stack = << >>
  /\ ctl' = IF ctl.ref = 0 THEN [do |-> "failed"]
            ELSE [do |-> "compiled", root |-> ctl.ref]
  /\ UNCHANGED <<query, stack, heap, err>>

Step ==
  \/ ParseLeaf \/ ParseBad \/ ParseNot \/ ParseExistsEmpty \/ ParseExists
  \/ ParseLogical \/ ParseCond
  \/ LogicalEmpty \/ LogicalNotDocument \/ LogicalLeft
  \/ GotLeftLast \/ GotLeftNotDocument \/ GotLeft
  \/ GotRightFailed \/ GotRight \/ GotNoMore \/ GotMore
  \/ GotNot \/ GotExists
  \/ CondSkip \/ CondPart \/ GotCondPart \/ CondComplete \/ CondIncomplete
  \/ Finish

Ended == ctl.do \in {"compiled", "failed", "aborted"}

\* mongoc_matcher_new has returned, or the process is gone.
Stay == Ended /\ UNCHANGED vars

Next == Step \/ Stay

Spec == Init /\ [][Next]_vars
=============================================================================
