--------------------------- MODULE ModuleOpsProofs ---------------------------
(***************************************************************************)
(* Proofs about the matcher modules, for any queries, documents and number *)
(* of ops.                                                                 *)
(***************************************************************************)
EXTENDS ModulePromises, Recursion, TLAPS

\* int64_t addition stays within int64_t.
LEMMA WrapInt64 == ASSUME NEW x \in Int PROVE Wrap(x) \in Int64
<1> USE BoundAssumption
<1>1. 2 * Half \in Nat \ {0}
  OBVIOUS
<1>2. x + Half \in Int
  OBVIOUS
<1>3. (x + Half) % (2 * Half) \in 0 .. (2 * Half) - 1
  <2> DEFINE m == 2 * Half
             y == x + Half
  <2>1. m \in Nat \ {0} /\ y \in Int
    BY <1>1, <1>2
  <2> HIDE DEF m, y
  <2>2. y % m \in 0 .. m - 1
    BY <2>1
  <2> QED BY <2>2 DEF m, y
<1> DEFINE r == (x + Half) % (2 * Half)
<1>4. r - Half \in -Half .. Half - 1
  <2> HIDE DEF r
  <2>1. r \in 0 .. (2 * Half) - 1
    BY <1>3 DEF r
  <2> QED BY <2>1
<1> QED BY <1>4 DEF Wrap, Int64

-----------------------------------------------------------------------------
(***************************************************************************)
(* The inductive invariant.                                                *)
(***************************************************************************)
\* A match under way is one of a compiled op whose module is registered.
CallOK ==
  at # "idle" =>
    /\ call.op \in Op
    /\ call.doc \in Docs
    /\ ops[call.op].phase = "compiled"
    /\ ops[call.op].spec.name \in Module
    /\ ops[call.op].spec.name = "sum" => call.mem # None

\* Where a match is agrees with what it has seen.
StopsOK ==
  /\ at = "direct" => Direct /\ call.checked = 0
  /\ at = "spread" => ~Direct /\ call.checked < Len(call.doc.spread)
  /\ at \in {"direct", "spread", "end"} => call.answer = "continue" /\ ~call.told
  /\ at = "cleanup" /\ ~call.told /\ call.answer = "continue" =>
       ~Direct /\ call.checked = 0
  /\ at # "idle" /\ ~Direct /\ ~Spec0.dotted => at = "cleanup" /\ call.checked = 0

\* An op has data unless its module never saw its config or refused it.
OpOK(op) ==
  /\ op.phase = "none" => op.life = "unborn"
  /\ op.phase # "none" => op.spec \in Specs
  /\ op.phase = "compiled" => op.life # "gone"
  /\ op.life = "ready" => op.spec.config # None
  /\ op.phase = "compiled" /\ op.data = "null" =>
       op.life = "unborn" \/ ~op.spec.config.good

OpsOK == \A o \in Op : OpOK(ops[o])

\* In the documented order the modules are there while a matcher is.
OrderOK ==
  Ordered =>
    \A o \in Op :
      ops[o].phase = "compiled" =>
        /\ store > 0
        /\ ops[o].spec.name \in Module /\ ops[o].spec.config # None => ops[o].life = "ready"

Inv ==
  /\ TypeOK
  /\ CallOK
  /\ StopsOK
  /\ OpsOK
  /\ OrderOK
  /\ OnlyMisuseCrashes
  /\ UsermemFreed

\* No op, no document and no spec is none of them, and what specs and
\* documents are made of.
LEMMA Parts ==
  /\ None \notin Op \cup Specs \cup Docs
  /\ \A s \in Specs : /\ s.name \in Module \cup {"unregistered", None}
                      /\ s.config \in Config \cup {None}
                      /\ s.dotted \in BOOLEAN
  /\ \A d \in Docs : d.direct \in Value \cup {None} /\ d.spread \in Seq(Value)
BY NoneAssumption, SpecsAssumption, DocsAssumption DEF ModuleSpec, Document

\* The invariant holds when the program starts.
LEMMA InitInv == Init => Inv
<1> SUFFICES ASSUME Init PROVE Inv
  OBVIOUS
<1> USE DEF Init
<1>1. TypeOK
  <2>1. ops \in [Op -> OpState]
    BY DEF OpState
  <2>2. call \in Call
    BY DEF Call, NoCall, Answer
  <2>3. store \in 0 .. MaxCopies
    BY BoundAssumption
  <2> QED BY <2>1, <2>2, <2>3 DEF TypeOK
<1>2. CallOK /\ StopsOK
  BY DEF CallOK, StopsOK
<1>3. OpsOK /\ OrderOK
  BY DEF OpsOK, OpOK, OrderOK
<1>4. OnlyMisuseCrashes /\ UsermemFreed
  BY DEF OnlyMisuseCrashes, UsermemFreed, Matching, NoCall
<1> QED BY <1>1, <1>2, <1>3, <1>4 DEF Inv

\* What the next search is shown is a value, or None at the end.
LEMMA ShownIsValue ==
  ASSUME Inv, at \in {"direct", "spread"}
  PROVE  Shown \in Value
<1>1. call.doc \in Docs
  BY DEF Inv, CallOK
<1>2. CASE at = "direct"
  BY <1>1, <1>2, Parts DEF Inv, StopsOK, Direct, Shown
<1>3. CASE at = "spread"
  <2>1. call.checked \in Nat /\ call.checked < Len(call.doc.spread)
    BY <1>3 DEF Inv, TypeOK, Call, StopsOK
  <2>2. call.doc.spread \in Seq(Value)
    BY <1>1, Parts
  <2>3. call.checked + 1 \in 1 .. Len(call.doc.spread)
    BY <2>1, <2>2
  <2>4. call.doc.spread[call.checked + 1] \in Value
    BY <2>2, <2>3
  <2> QED BY <1>3, <2>4 DEF Shown
<1> QED BY <1>2, <1>3

\* What m_prep allocated keeps its type, and is there as long as it was.
LEMMA MemStays ==
  ASSUME NEW name \in Module, NEW v \in Value, NEW m \in Int64 \cup {None},
         name = "sum" => m # None
  PROVE  /\ MemAfter(name, v, m) \in Int64 \cup {None}
         /\ name = "sum" => MemAfter(name, v, m) # None
<1>1. v.n \in Int
  BY DEF Value
<1>2. Int64 \subseteq Int /\ None \notin Int
  BY BoundAssumption, NoneAssumption DEF Int64
<1>3. CASE name = "sum" /\ Summed(v)
  <2>1. m + v.n \in Int
    BY <1>1, <1>2, <1>3
  <2>2. Wrap(m + v.n) \in Int64
    BY <2>1, WrapInt64
  <2> QED BY <1>2, <1>3, <2>2 DEF MemAfter
<1>4. CASE ~(name = "sum" /\ Summed(v))
  BY <1>4 DEF MemAfter
<1> QED BY <1>3, <1>4

\* Only what the callbacks may answer is answered.
LEMMA AnswersAnswer ==
  ASSUME NEW name, NEW config, NEW v, NEW m, NEW a \in Answers(name, config, v, m)
  PROVE  a \in Answer
BY DEF Answers, Answer
-----------------------------------------------------------------------------
(***************************************************************************)
(* What m_prep allocated.                                                  *)
(***************************************************************************)
\* A step within a match leaves it alone.
LEMMA HeldStays ==
  ASSUME UsermemFreed, UNCHANGED <<allocs, ops>>, call'.op = call.op,
         at # "idle", at' # "idle"
  PROVE  UsermemFreed'
BY DEF UsermemFreed, Matching, Spec0

\* Between two matches there is none.
LEMMA NoneHeld ==
  ASSUME UsermemFreed, UNCHANGED allocs, at = "idle", at' = "idle"
  PROVE  UsermemFreed'
BY DEF UsermemFreed, Matching

\* Each way out of a match calls m_cleanup, and the three of them return what
\* one expression gives.
LEMMA CleanupIs ==
  ASSUME Inv, Cleanup
  PROVE  /\ ~crashed /\ at = "cleanup" /\ at' = "idle" /\ UNCHANGED <<store, ops, crashed>>
         /\ call' = [call EXCEPT !.mem = None]
         /\ result' = (call.answer = "found" /\ (Direct \/ call.checked > 0))
         /\ CallCleanup
<1>1. Leaving /\ CallCleanup
  BY DEF Cleanup, ReturnMissing, ReturnSpread, ReturnDirect
<1>2. \E v : Return(v)
  BY DEF Cleanup, ReturnMissing, ReturnSpread, ReturnDirect
<1>3. result' = (call.answer = "found" /\ (Direct \/ call.checked > 0))
  <2>1. call.checked \in Nat
    BY DEF Inv, TypeOK, Call
  <2>2. CASE ReturnMissing
    <3>1. result' = FALSE /\ ~Direct
      BY <2>2 DEF ReturnMissing, Return
    <3>2. call.checked = 0
      BY <1>1, <2>2 DEF ReturnMissing, Leaving, Inv, StopsOK
    <3>3. ~(call.checked > 0)
      BY <3>2
    <3> QED BY <3>1, <3>3
  <2>3. CASE ReturnSpread
    <3>1. result' = (call.checked > 0 /\ call.answer = "found") /\ ~Direct
      BY <2>3 DEF ReturnSpread, Return
    <3> QED BY <3>1
  <2>4. CASE ReturnDirect
    <3>1. result' = (call.answer = "found") /\ Direct
      BY <2>4 DEF ReturnDirect, Return
    <3> QED BY <3>1
  <2> QED BY <2>2, <2>3, <2>4 DEF Cleanup
<1> QED BY <1>1, <1>2, <1>3 DEF Leaving, Return

\* So nothing is left when it has returned.
LEMMA CleanupFrees == Inv /\ Cleanup => UsermemFreed'
<1> SUFFICES ASSUME Inv, Cleanup PROVE UsermemFreed'
  OBVIOUS
<1>1. at = "cleanup" /\ at' = "idle" /\ CallCleanup
  BY CleanupIs
<1>2. allocs = IF HasPrep(Spec0.name) THEN 1 ELSE 0
  BY <1>1 DEF Inv, UsermemFreed, Matching
<1>3. HasCleanup(Spec0.name) <=> HasPrep(Spec0.name)
  BY DEF HasCleanup, HasPrep
<1>4. allocs' = 0
  <2>1. CASE HasPrep(Spec0.name)
    BY <1>1, <1>2, <1>3, <2>1 DEF CallCleanup
  <2>2. CASE ~HasPrep(Spec0.name)
    BY <1>1, <1>2, <1>3, <2>2 DEF CallCleanup
  <2> QED BY <2>1, <2>2
<1> QED BY <1>1, <1>4 DEF UsermemFreed, Matching
-----------------------------------------------------------------------------
(***************************************************************************)
(* Every step preserves the invariant.                                     *)
(***************************************************************************)
\* Ending or starting the program's use of the modules.
LEMMA StoreStep == Inv /\ (Startup \/ Shutdown) => Inv'
<1> SUFFICES ASSUME Inv, Startup \/ Shutdown PROVE Inv'
  OBVIOUS
<1> USE DEF Startup, Shutdown, Free, InUse
<1>1. store' \in 0 .. MaxCopies
  BY BoundAssumption DEF Inv, TypeOK
<1>2. TypeOK'
  BY <1>1 DEF Inv, TypeOK
<1>3. CallOK' /\ StopsOK' /\ OnlyMisuseCrashes' /\ UsermemFreed' /\ OpsOK'
  BY NoneHeld DEF Inv, CallOK, StopsOK, Direct, OnlyMisuseCrashes, OpsOK
<1>4. OrderOK'
  <2>1. CASE Startup
    BY <2>1, <1>1 DEF Inv, OrderOK, TypeOK
  <2>2. CASE Shutdown
    BY <2>2 DEF Inv, OrderOK
  <2> QED BY <2>1, <2>2
<1> QED BY <1>2, <1>3, <1>4 DEF Inv

\* _mongoc_matcher_op_module_new.
LEMMA CompileStep ==
  ASSUME Inv, NEW o \in Op, NEW s \in Specs, Compile(o, s)
  PROVE  Inv'
<1> USE DEF Compile, Free
<1> DEFINE new == [phase |-> "compiled",
                   life  |-> IF Configures(s) THEN "ready" ELSE "unborn",
                   spec  |-> s,
                   data  |-> IF Configures(s) /\ NewHolds(s) THEN "held" ELSE "null"]
<1>1. ops' = [ops EXCEPT ![o] = new]
  OBVIOUS
<1>2. new \in OpState
  BY DEF OpState
<1>3. OpOK(new)
  BY DEF OpOK, Configures, NewHolds
<1>4. new.phase = "compiled" /\ new.spec = s /\ (Configures(s) => new.life = "ready")
  OBVIOUS
<1>5. UNCHANGED <<store, at, call, allocs, crashed, result>> /\ at = "idle" /\ ~crashed
  OBVIOUS
<1>6. Ordered => store > 0
  OBVIOUS
<1> HIDE DEF new, Compile
<1>7. TypeOK'
  BY <1>1, <1>2, <1>5 DEF Inv, TypeOK
<1>8. CallOK' /\ StopsOK' /\ OnlyMisuseCrashes' /\ UsermemFreed'
  BY <1>5, NoneHeld DEF Inv, CallOK, StopsOK, Direct, OnlyMisuseCrashes
<1>9. \A p \in Op : ops'[p] = IF p = o THEN new ELSE ops[p]
  BY <1>1 DEF Inv, TypeOK
<1>10. OpsOK'
  BY <1>3, <1>9 DEF Inv, OpsOK
<1>11. OrderOK'
  BY <1>4, <1>5, <1>6, <1>9 DEF Inv, OrderOK, Configures, Entry
<1> QED BY <1>7, <1>8, <1>10, <1>11 DEF Inv

\* The three ways a match begins.
LEMMA StartStep ==
  ASSUME Inv, NEW o \in Op, NEW d \in Docs,
         MatchUnregistered(o, d) \/ MatchNameless(o, d) \/ Prep(o, d)
  PROVE  Inv'
<1> USE DEF Free
<1>1. OpsOK' /\ OrderOK' /\ ops' = ops /\ store' = store
  BY DEF MatchUnregistered, MatchNameless, Prep, Inv, OpsOK, OrderOK
<1>2. CASE MatchUnregistered(o, d) \/ MatchNameless(o, d)
  <2> USE DEF MatchUnregistered, MatchNameless
  <2>1. call' = [NoCall EXCEPT !.op = o, !.doc = d] /\ at' = "idle"
    BY <1>2
  <2>2. call' \in Call
    BY <2>1 DEF NoCall, Call, Answer
  <2>3. TypeOK'
    BY <1>2, <2>2 DEF Inv, TypeOK
  <2>4. CallOK' /\ StopsOK' /\ UsermemFreed'
    BY <1>2, <2>1, NoneHeld DEF Inv, CallOK, StopsOK, NoCall
  <2>5. OnlyMisuseCrashes'
    BY <1>2, <2>1 DEF OnlyMisuseCrashes, NoCall
  <2> QED BY <1>1, <2>3, <2>4, <2>5 DEF Inv
<1>3. CASE Prep(o, d)
  <2> USE DEF Prep
  <2> DEFINE m == IF HasPrep(ops[o].spec.name) THEN 0 ELSE None
  <2>1. call' = [NoCall EXCEPT !.op = o, !.doc = d, !.entry = TRUE, !.mem = m]
    BY <1>3
  <2>2. m \in Int64 \cup {None} /\ 0 \in Int
    BY BoundAssumption DEF Int64
  <2> HIDE DEF m
  <2>3. /\ call'.op = o /\ call'.doc = d /\ call'.mem = m /\ call'.checked = 0
        /\ ~call'.told /\ call'.answer = "continue" /\ call' \in Call
    BY <2>1, <2>2 DEF NoCall, Call, Answer
  <2>4. at' = FirstStop(ops[o].spec, d) /\ crashed' = crashed /\ result' = result /\ ~crashed
    BY <1>3
  <2>5. at' \in {"direct", "spread", "end", "cleanup"}
    BY <2>4 DEF FirstStop
  <2>6. TypeOK'
    BY <1>1, <1>3, <2>3, <2>4, <2>5 DEF Inv, TypeOK
  <2>7. CallOK'
    <3>1. ops[o].spec.name = "sum" => m # None
      BY NoneAssumption DEF m, HasPrep
    <3> QED BY <1>1, <1>3, <2>3, <3>1 DEF CallOK, Entry
  <2>8. StopsOK'
    <3>1. Direct' <=> d.direct # None
      BY <2>3 DEF Direct
    <3>2. d.spread # << >> => 0 < Len(d.spread)
      BY Parts
    <3>3. at' = "cleanup" => d.direct = None
      BY <2>4 DEF FirstStop
    <3>4. at' = "direct" <=> d.direct # None
      BY <2>4 DEF FirstStop
    <3>5. at' = "spread" => d.spread # << >>
      BY <2>4 DEF FirstStop
    <3>6. d.direct = None /\ ~ops[o].spec.dotted => at' = "cleanup"
      BY <2>4 DEF FirstStop
    <3>7. Spec0' = ops[o].spec
      BY <1>1, <2>3 DEF Spec0
    <3> QED BY <2>3, <3>1, <3>2, <3>3, <3>4, <3>5, <3>6, <3>7 DEF StopsOK
  <2>9. OnlyMisuseCrashes'
    BY <2>4 DEF OnlyMisuseCrashes
  <2>10. UsermemFreed'
    <3>1. allocs = 0
      BY <1>3 DEF Inv, UsermemFreed, Matching
    <3>2. allocs' = IF HasPrep(ops[o].spec.name) THEN 1 ELSE 0
      BY <1>3, <3>1
    <3>3. Spec0' = ops[o].spec /\ Matching'
      BY <1>1, <2>3, <2>5 DEF Spec0, Matching
    <3> QED BY <3>2, <3>3 DEF UsermemFreed, HasPrep
  <2> QED BY <1>1, <2>6, <2>7, <2>8, <2>9, <2>10 DEF Inv
<1> QED BY <1>2, <1>3
\* _mongoc_matcher_op_module_destroy.
LEMMA DestroyStep ==
  ASSUME Inv, NEW o \in Op, Destroy(o) \/ DestroyNameless(o)
  PROVE  Inv'
<1> USE DEF Free
<1>1. CASE Destroy(o)
  <2> DEFINE gone == [ops[o] EXCEPT
                        !.phase = "destroyed",
                        !.life  = IF Entry(ops[o].spec.name) THEN "gone" ELSE @,
                        !.data  = IF Entry(ops[o].spec.name) /\ @ = "held"
                                  THEN "freed" ELSE @]
  <2>1. ops[o] \in OpState
    BY DEF Inv, TypeOK
  <2>2. ops' = [ops EXCEPT ![o] = gone]
    BY <1>1 DEF Destroy
  <2>3. gone \in OpState
    BY <2>1 DEF OpState
  <2>4. gone.phase = "destroyed" /\ gone.spec = ops[o].spec
    BY <2>1 DEF OpState
  <2>5. OpOK(gone)
    <3>1. gone.life = "ready" => ops[o].life = "ready"
      BY <2>1 DEF OpState
    <3>2. OpOK(ops[o])
      BY DEF Inv, OpsOK
    <3>3. ops[o].phase = "compiled"
      BY <1>1 DEF Destroy
    <3> HIDE DEF gone
    <3> QED BY <2>4, <3>1, <3>2, <3>3 DEF OpOK
  <2>6. UNCHANGED <<store, at, call, allocs, crashed, result>> /\ at = "idle" /\ ~crashed
    BY <1>1 DEF Destroy
  <2> HIDE DEF gone
  <2>7. TypeOK'
    BY <2>2, <2>3, <2>6 DEF Inv, TypeOK
  <2>8. CallOK' /\ StopsOK' /\ OnlyMisuseCrashes' /\ UsermemFreed'
    BY <2>6, NoneHeld DEF Inv, CallOK, StopsOK, Direct, OnlyMisuseCrashes
  <2>9. \A p \in Op : ops'[p] = IF p = o THEN gone ELSE ops[p]
    BY <2>2 DEF Inv, TypeOK
  <2>10. OpsOK' /\ OrderOK'
    BY <2>4, <2>5, <2>6, <2>9 DEF Inv, OpsOK, OrderOK
  <2> QED BY <2>7, <2>8, <2>10 DEF Inv
<1>2. CASE DestroyNameless(o)
  <2> USE <1>2 DEF DestroyNameless
  <2>1. call' \in Call /\ call'.op = o /\ call'.mem = None
    BY DEF NoCall, Call, Answer
  <2>2. TypeOK'
    BY <2>1 DEF Inv, TypeOK
  <2>3. CallOK' /\ StopsOK' /\ UsermemFreed'
    BY <2>1, NoneHeld DEF Inv, CallOK, StopsOK
  <2>4. OpsOK' /\ OrderOK' /\ OnlyMisuseCrashes'
    BY <2>1 DEF Inv, OpsOK, OrderOK, OnlyMisuseCrashes
  <2> QED BY <2>2, <2>3, <2>4 DEF Inv
<1> QED BY <1>1, <1>2

\* One search of a value.
LEMMA SearchStep == Inv /\ Search => Inv'
<1> SUFFICES ASSUME Inv, Search PROVE Inv'
  OBVIOUS
<1> DEFINE checked == IF at = "spread" THEN call.checked + 1 ELSE call.checked
           name    == Spec0.name
<1>1. PICK a \in Answers(name, Spec0.config, Shown, call.mem) :
        /\ call' = [call EXCEPT !.answer = a, !.checked = checked,
                                !.mem = MemAfter(name, Shown, @)]
        /\ at' = AfterSearch(a, checked)
  BY DEF Search
<1>2. at \in {"direct", "spread"} /\ ~crashed /\ UNCHANGED <<store, ops, allocs, crashed, result>>
  BY DEF Search
<1>3. call \in Call /\ call.op \in Op /\ call.doc \in Docs /\ name \in Module
  BY <1>2 DEF Inv, TypeOK, CallOK, Spec0
<1>4. Shown \in Value /\ a \in Answer
  BY <1>1, <1>2, ShownIsValue, AnswersAnswer
<1>5. checked \in Nat /\ call.mem \in Int64 \cup {None}
  BY <1>3 DEF Call
<1>6. name = "sum" => call.mem # None
  BY <1>2 DEF Inv, CallOK, Spec0
<1>7. /\ MemAfter(name, Shown, call.mem) \in Int64 \cup {None}
      /\ name = "sum" => MemAfter(name, Shown, call.mem) # None
  BY <1>3, <1>4, <1>5, <1>6, MemStays
<1>8. (at = "spread" => ~Direct /\ checked > 0) /\ (at = "direct" => Direct)
  BY <1>2, <1>3 DEF Inv, StopsOK, Call
<1>9. ~call.told
  BY <1>2 DEF Inv, StopsOK
<1> HIDE DEF checked, name
<1>10. /\ call' \in Call /\ call'.op = call.op /\ call'.doc = call.doc
       /\ call'.checked = checked /\ call'.answer = a /\ ~call'.told
       /\ call'.mem = MemAfter(name, Shown, call.mem)
  BY <1>1, <1>3, <1>4, <1>5, <1>7, <1>9 DEF Call
<1>11. at' \in {"spread", "end", "cleanup"}
  BY <1>1 DEF AfterSearch
<1>12. TypeOK'
  BY <1>2, <1>10, <1>11 DEF Inv, TypeOK
<1>13. CallOK'
  BY <1>2, <1>7, <1>10 DEF Inv, CallOK, name, Spec0
<1>14. StopsOK'
  <2>1. Direct' <=> Direct
    BY <1>10 DEF Direct
  <2>2. at' = "spread" => at = "spread" /\ checked < Len(call.doc.spread)
    BY <1>1 DEF AfterSearch
  <2>3. at' = "cleanup" <=> a # "continue"
    BY <1>1 DEF AfterSearch
  <2>4. Spec0' = Spec0 /\ (Direct \/ Spec0.dotted)
    BY <1>2, <1>10 DEF Spec0, Inv, StopsOK
  <2> QED BY <1>8, <1>10, <1>11, <2>1, <2>2, <2>3, <2>4 DEF StopsOK
<1>15. OpsOK' /\ OrderOK' /\ OnlyMisuseCrashes'
  BY <1>2 DEF Inv, OpsOK, OrderOK, OnlyMisuseCrashes
<1>16. UsermemFreed'
  BY <1>2, <1>10, <1>11, HeldStays DEF Inv
<1> QED BY <1>12, <1>13, <1>14, <1>15, <1>16 DEF Inv

\* The end of the object, a NULL module_data, and the way out of a match.
LEMMA LastSteps == Inv /\ (SearchEnd \/ SearchCrash \/ Cleanup) => Inv'
<1> SUFFICES ASSUME Inv, SearchEnd \/ SearchCrash \/ Cleanup PROVE Inv'
  OBVIOUS
<1>1. call \in Call
  BY DEF Inv, TypeOK
<1>2. OpsOK' /\ OrderOK' /\ UNCHANGED <<store, ops>>
  BY CleanupIs DEF SearchEnd, SearchCrash, Inv, OpsOK, OrderOK
<1>3. CASE SearchEnd
  <2>1. PICK a \in Answers(Spec0.name, Spec0.config, None, call.mem) :
          call' = [call EXCEPT !.answer = a, !.told = TRUE]
    BY <1>3 DEF SearchEnd
  <2>2. a \in Answer
    BY AnswersAnswer
  <2>3. /\ call' \in Call /\ call'.op = call.op /\ call'.doc = call.doc /\ call'.told
        /\ call'.mem = call.mem
    BY <1>1, <2>1, <2>2 DEF Call
  <2>4. /\ at = "end" /\ at' = "cleanup" /\ ~crashed
        /\ UNCHANGED <<allocs, crashed, result>>
    BY <1>3 DEF SearchEnd
  <2>5. TypeOK'
    BY <1>2, <2>3, <2>4 DEF Inv, TypeOK
  <2>6. CallOK'
    BY <1>2, <2>3, <2>4 DEF Inv, CallOK
  <2>7. StopsOK'
    <3>1. (Direct' <=> Direct) /\ Spec0' = Spec0
      BY <1>2, <2>3 DEF Direct, Spec0
    <3>2. Direct \/ Spec0.dotted
      BY <2>4 DEF Inv, StopsOK
    <3> QED BY <2>3, <2>4, <3>1, <3>2 DEF StopsOK
  <2>8. OnlyMisuseCrashes' /\ UsermemFreed'
    BY <1>2, <2>3, <2>4, HeldStays DEF Inv, OnlyMisuseCrashes
  <2> QED BY <1>2, <2>5, <2>6, <2>7, <2>8 DEF Inv
<1>4. CASE SearchCrash
  <2>1. /\ at \in {"direct", "spread", "end"} /\ ops[call.op].data = "null"
        /\ UNCHANGED <<store, ops, at, call, allocs, result>> /\ crashed' = TRUE
    BY <1>4 DEF SearchCrash, NullFollowed
  <2>2. TypeOK' /\ CallOK' /\ StopsOK' /\ UsermemFreed'
    BY <2>1, HeldStays DEF Inv, TypeOK, CallOK, StopsOK, Direct, Spec0
  <2>3. OnlyMisuseCrashes'
    <3>1. call.op \in Op /\ ops[call.op].phase = "compiled"
      BY <2>1 DEF Inv, CallOK
    <3>2. OpOK(ops[call.op])
      BY <3>1 DEF Inv, OpsOK
    <3> QED BY <2>1, <3>1, <3>2 DEF OpOK, OnlyMisuseCrashes
  <2> QED BY <1>2, <2>2, <2>3 DEF Inv
<1>5. CASE Cleanup
  <2>1. /\ call' = [call EXCEPT !.mem = None] /\ at' = "idle"
        /\ ~crashed /\ crashed' = crashed /\ result' \in BOOLEAN
    BY <1>5, CleanupIs
  <2>2. call' \in Call /\ call'.mem = None
    BY <1>1, <2>1 DEF Call
  <2>3. UsermemFreed'
    BY <1>5, CleanupFrees
  <2>4. allocs' \in Nat
    BY <2>1, <2>3 DEF UsermemFreed, Matching
  <2>5. TypeOK'
    BY <1>2, <2>1, <2>2, <2>4 DEF Inv, TypeOK
  <2>6. CallOK' /\ StopsOK' /\ OnlyMisuseCrashes'
    BY <2>1, <2>2 DEF CallOK, StopsOK, OnlyMisuseCrashes
  <2> QED BY <1>2, <2>3, <2>5, <2>6 DEF Inv
<1> QED BY <1>3, <1>4, <1>5

\* No step of the program breaks the invariant.
LEMMA NextInv == Inv /\ [Next]_vars => Inv'
<1> SUFFICES ASSUME Inv, [Next]_vars PROVE Inv'
  OBVIOUS
<1>1. CASE Startup \/ Shutdown
  BY <1>1, StoreStep
<1>2. ASSUME NEW o \in Op, NEW s \in Specs, Compile(o, s) PROVE Inv'
  BY <1>2, CompileStep
<1>3. ASSUME NEW o \in Op, NEW d \in Docs,
             MatchUnregistered(o, d) \/ MatchNameless(o, d) \/ Prep(o, d)
      PROVE  Inv'
  BY <1>3, StartStep
<1>4. ASSUME NEW o \in Op, Destroy(o) \/ DestroyNameless(o) PROVE Inv'
  BY <1>4, DestroyStep
<1>5. CASE MatchStep
  BY <1>5, SearchStep, LastSteps DEF MatchStep
<1>6. CASE Stay \/ UNCHANGED vars
  BY <1>6 DEF Stay, vars, Inv, TypeOK, CallOK, StopsOK, Direct, Spec0, OpsOK, OrderOK,
              OnlyMisuseCrashes, UsermemFreed, Matching
<1> QED BY <1>1, <1>2, <1>3, <1>4, <1>5, <1>6 DEF Next

\* The invariant holds in every reachable state.
LEMMA Invariance == Spec => []Inv
BY InitInv, NextInv, PTL DEF Spec

\* Type correctness: among others, the running total of sum stays an int64_t.
THEOREM TypeCorrect == Spec => []TypeOK
BY Invariance, PTL DEF Inv

\* Whatever is compiled, matched, destroyed, started up and shut down, in any
\* order: only a query without name or config, a config the module refuses or
\* a compilation before the startup leads to a NULL pointer being followed.
THEOREM CrashesAreMisuse == Spec => []OnlyMisuseCrashes
BY Invariance, PTL DEF Inv

\* Each of the three returns of _mongoc_matcher_op_module_match calls m_cleanup: the
\* memory m_prep made is there exactly while its match runs, whichever return the
\* matches before it took.
THEOREM UsermemIsFreed == Spec => []UsermemFreed
BY Invariance, PTL DEF Inv
-----------------------------------------------------------------------------
(***************************************************************************)
(* In the documented order and with complete queries, ModuleOps implements *)
(* ModuleProtocol.                                                         *)
(***************************************************************************)
\* The variables of the protocol, as ModuleOps has them.
Life   == [o \in Op |-> ops[o].life]
Busy   == IF Matching THEN call.op ELSE None
Asked  == Matching /\ (call.checked > 0 \/ (Direct /\ at # "direct"))
Told   == Matching /\ call.told
Answered == IF Matching THEN call.answer ELSE "continue"

\* The initial states of ModuleOps are initial states of the protocol.
LEMMA InitProtocol == Init => P!Init
BY DEF Init, P!Init, Matching

\* A step that leaves Matching, the match and the lives of the ops alone is
\* one the protocol does not see.
LEMMA Unseen ==
  ASSUME UNCHANGED <<at, call, result>>, \A o \in Op : ops'[o].life = ops[o].life
  PROVE  UNCHANGED P!protocolVars
BY DEF P!protocolVars, Matching, Direct

\* A step that starts no match and ends none is unseen whatever it does to call.
LEMMA UnseenIdle ==
  ASSUME at = "idle", UNCHANGED <<at, ops, result>>
  PROVE  UNCHANGED P!protocolVars
BY DEF P!protocolVars, Matching

\* m_new.
LEMMA CompileProtocol ==
  ASSUME Inv, NEW o \in Op, NEW s \in Specs, Compile(o, s)
  PROVE  P!New(o) \/ UNCHANGED P!protocolVars
<1> USE DEF Compile, Free
<1>1. at = "idle" /\ UNCHANGED <<at, call, result>>
  OBVIOUS
<1>2. ops[o].life = "unborn"
  BY DEF Inv, OpsOK, OpOK
<1>3. \A p \in Op : ops'[p].life = IF p # o THEN ops[p].life
                                   ELSE IF Configures(s) THEN "ready" ELSE "unborn"
  BY DEF Inv, TypeOK
<1>4. CASE Configures(s)
  <2>1. Life' = [Life EXCEPT ![o] = "ready"]
    BY <1>3, <1>4 DEF Life
  <2>2. P!New(o)
    BY <1>1, <1>2, <2>1 DEF P!New, Matching, Life
  <2> QED BY <2>2
<1>5. CASE ~Configures(s)
  <2>1. \A p \in Op : ops'[p].life = ops[p].life
    BY <1>2, <1>3, <1>5
  <2> HIDE DEF Compile
  <2> QED BY <1>1, <2>1, Unseen
<1> QED BY <1>4, <1>5

\* m_prep, or no module at all.
LEMMA StartProtocol ==
  ASSUME Inv, Ordered, Complete, NEW o \in Op, NEW d \in Docs,
         MatchUnregistered(o, d) \/ MatchNameless(o, d) \/ Prep(o, d)
  PROVE  P!Prep(o) \/ P!Skip
<1> USE DEF Free
<1>1. ops[o].phase = "compiled" /\ at = "idle"
  BY DEF MatchUnregistered, MatchNameless, Prep
<1>2. ops[o].spec \in Specs
  BY <1>1 DEF Inv, OpsOK, OpOK
<1>3. ops[o].spec.name # None /\ ops[o].spec.config # None
  BY <1>2 DEF Complete
<1>4. ops' = ops
  BY DEF MatchUnregistered, MatchNameless, Prep
<1>5. CASE MatchUnregistered(o, d)
  <2>1. result' = FALSE /\ at' = "idle"
    BY <1>1, <1>5 DEF MatchUnregistered
  <2> QED BY <1>1, <1>4, <2>1 DEF P!Skip, Matching
<1>6. CASE Prep(o, d)
  <2>1. ops[o].life = "ready"
    BY <1>1, <1>3, <1>6 DEF Prep, Entry, Inv, OrderOK
  <2>2. /\ call'.op = o /\ call'.doc = d /\ call'.checked = 0 /\ ~call'.told
        /\ call'.answer = "continue"
    BY <1>6 DEF Prep, NoCall
  <2>3. at' = FirstStop(ops[o].spec, d) /\ result' = result
    BY <1>6 DEF Prep
  <2>4. at' # "idle" /\ (Direct' => at' = "direct")
    BY <2>2, <2>3 DEF FirstStop, Direct
  <2>5. Busy = None /\ Busy' = o /\ Life' = Life /\ Life[o] = "ready"
    BY <1>1, <1>4, <2>1, <2>2, <2>4 DEF Busy, Matching, Life
  <2>6. ~Asked /\ ~Asked' /\ ~Told /\ ~Told'
    BY <1>1, <2>2, <2>4 DEF Asked, Told, Matching
  <2>7. Answered = "continue" /\ Answered' = "continue"
    BY <1>1, <2>2, <2>4 DEF Answered, Matching
  <2> QED BY <2>3, <2>5, <2>6, <2>7 DEF P!Prep, Busy, Asked, Told, Answered, Life
<1> QED BY <1>3, <1>5, <1>6 DEF MatchNameless

\* m_search with a value.
LEMMA SearchProtocol == Inv /\ Search => P!Search
<1> SUFFICES ASSUME Inv, Search PROVE P!Search
  OBVIOUS
<1> DEFINE checked == IF at = "spread" THEN call.checked + 1 ELSE call.checked
<1>1. PICK a \in Answers(Spec0.name, Spec0.config, Shown, call.mem) :
        /\ call' = [call EXCEPT !.answer = a, !.checked = checked,
                                !.mem = MemAfter(Spec0.name, Shown, @)]
        /\ at' = AfterSearch(a, checked)
  BY DEF Search
<1>2. at \in {"direct", "spread"} /\ UNCHANGED <<ops, result>>
  BY DEF Search
<1>3. call \in Call /\ call.op \in Op
  BY <1>2 DEF Inv, TypeOK, CallOK
<1>4. a \in Answer
  BY AnswersAnswer
<1>5. /\ call.answer = "continue" /\ ~call.told
      /\ (at = "direct" => Direct) /\ (at = "spread" => checked > 0)
  BY <1>2, <1>3 DEF Inv, StopsOK, Call
<1> HIDE DEF checked
<1>6. /\ call'.op = call.op /\ call'.doc = call.doc /\ call'.checked = checked
      /\ call'.answer = a /\ call'.told = call.told
  BY <1>1, <1>3 DEF Call
<1>7. at' \in {"spread", "end", "cleanup"}
  BY <1>1 DEF AfterSearch
<1>8. Busy # None /\ Busy' = Busy /\ Life' = Life
  BY <1>2, <1>3, <1>6, <1>7, Parts DEF Busy, Matching, Life
<1>9. Asked' /\ ~Told /\ ~Told'
  BY <1>2, <1>5, <1>6, <1>7 DEF Asked, Told, Matching, Direct
<1>10. Answered = "continue" /\ Answered' \in Answer
  BY <1>2, <1>4, <1>5, <1>6, <1>7 DEF Answered, Matching
<1> QED BY <1>2, <1>8, <1>9, <1>10
        DEF P!Search, P!Answer, Answer, Busy, Asked, Told, Answered, Life

\* m_search with the end of the object.
LEMMA SearchEndProtocol == Inv /\ SearchEnd => P!SearchEnd
<1> SUFFICES ASSUME Inv, SearchEnd PROVE P!SearchEnd
  OBVIOUS
<1>1. PICK a \in Answers(Spec0.name, Spec0.config, None, call.mem) :
        call' = [call EXCEPT !.answer = a, !.told = TRUE]
  BY DEF SearchEnd
<1>2. at = "end" /\ at' = "cleanup" /\ UNCHANGED <<ops, result>>
  BY DEF SearchEnd
<1>3. call \in Call /\ call.op \in Op
  BY <1>2 DEF Inv, TypeOK, CallOK
<1>4. a \in Answer
  BY AnswersAnswer
<1>5. call.answer = "continue" /\ ~call.told
  BY <1>2 DEF Inv, StopsOK
<1>6. /\ call'.op = call.op /\ call'.doc = call.doc /\ call'.checked = call.checked
      /\ call'.answer = a /\ call'.told
  BY <1>1, <1>3 DEF Call
<1>7. Busy # None /\ Busy' = Busy /\ Life' = Life
  BY <1>2, <1>3, <1>6, Parts DEF Busy, Matching, Life
<1>8. Asked' = Asked /\ ~Told /\ Told' = TRUE
  <2>1. call.told \in BOOLEAN /\ call'.told = TRUE
    BY <1>1, <1>3 DEF Call
  <2>2. Direct' <=> Direct
    BY <1>6 DEF Direct
  <2> QED BY <1>2, <1>5, <1>6, <2>1, <2>2 DEF Asked, Told, Matching
<1>9. Answered = "continue" /\ Answered' \in Answer
  BY <1>2, <1>4, <1>5, <1>6 DEF Answered, Matching
<1> QED BY <1>2, <1>7, <1>8, <1>9
        DEF P!SearchEnd, P!Answer, Answer, Busy, Asked, Told, Answered, Life

\* m_cleanup and the answer of the match.
LEMMA CleanupProtocol == Inv /\ Cleanup => P!Cleanup
<1> SUFFICES ASSUME Inv, Cleanup PROVE P!Cleanup
  OBVIOUS
<1>1. /\ at = "cleanup" /\ at' = "idle" /\ ops' = ops
      /\ result' = (call.answer = "found" /\ (Direct \/ call.checked > 0))
  BY CleanupIs
<1>2. call \in Call /\ call.op \in Op
  BY <1>1 DEF Inv, TypeOK, CallOK
<1>3. Busy # None /\ Busy' = None /\ Life' = Life
  BY <1>1, <1>2, Parts DEF Busy, Matching, Life
<1>4. Asked => Told \/ Answered # "continue"
  BY <1>1, <1>2 DEF Asked, Told, Answered, Matching, Inv, StopsOK, Call
<1>5. ~Asked' /\ ~Told' /\ Answered' = "continue"
  BY <1>1 DEF Asked, Told, Answered, Matching
<1>6. result' = (Asked /\ Answered = "found")
  BY <1>1 DEF Asked, Answered, Matching
<1> QED BY <1>3, <1>4, <1>5, <1>6 DEF P!Cleanup, Busy, Asked, Told, Answered, Life

\* m_destroy.
LEMMA DestroyProtocol ==
  ASSUME Inv, Ordered, Complete, NEW o \in Op, Destroy(o) \/ DestroyNameless(o)
  PROVE  P!Destroy(o) \/ UNCHANGED P!protocolVars
<1> USE DEF Free
<1>1. ops[o].phase = "compiled" /\ at = "idle"
  BY DEF Destroy, DestroyNameless
<1>2. ops[o].spec.name # None /\ ops[o].spec.config # None
  BY <1>1 DEF Complete, Inv, OpsOK, OpOK
<1>3. UNCHANGED <<at, call, result>>
  BY <1>2 DEF Destroy, DestroyNameless
<1>4. \A p \in Op : ops'[p].life = IF p = o /\ Entry(ops[o].spec.name) THEN "gone"
                                   ELSE ops[p].life
  BY <1>2 DEF Destroy, DestroyNameless, Inv, TypeOK, OpState
<1>5. CASE Entry(ops[o].spec.name)
  <2>1. ops[o].life = "ready"
    BY <1>1, <1>2, <1>5 DEF Entry, Inv, OrderOK
  <2>2. Life' = [Life EXCEPT ![o] = "gone"]
    BY <1>4, <1>5 DEF Life
  <2> QED BY <1>1, <1>3, <2>1, <2>2 DEF P!Destroy, Matching, Life
<1>6. CASE ~Entry(ops[o].spec.name)
  BY <1>3, <1>4, <1>6, Unseen
<1> QED BY <1>5, <1>6

\* Every step of the program is a step of the protocol or unseen by it.
LEMMA NextProtocol ==
  ASSUME Inv, Ordered, Complete, [Next]_vars
  PROVE  [P!Next]_P!protocolVars
<1> USE DEF P!Next
<1>1. CASE Startup \/ Shutdown \/ Stay \/ UNCHANGED vars
  <2>1. UNCHANGED <<at, call, result, ops>>
    BY <1>1 DEF Startup, Shutdown, Stay, vars
  <2> QED BY <2>1, Unseen
<1>2. ASSUME NEW o \in Op, NEW s \in Specs, Compile(o, s)
      PROVE  [P!Next]_P!protocolVars
  BY <1>2, CompileProtocol
<1>3. ASSUME NEW o \in Op, NEW d \in Docs,
             MatchUnregistered(o, d) \/ MatchNameless(o, d) \/ Prep(o, d)
      PROVE  [P!Next]_P!protocolVars
  BY <1>3, StartProtocol
<1>4. ASSUME NEW o \in Op, Destroy(o) \/ DestroyNameless(o)
      PROVE  [P!Next]_P!protocolVars
  BY <1>4, DestroyProtocol
<1>5. CASE SearchCrash
  BY <1>5, Unseen DEF SearchCrash
<1>6. CASE Search \/ SearchEnd \/ Cleanup
  BY <1>6, SearchProtocol, SearchEndProtocol, CleanupProtocol
<1> QED BY <1>1, <1>2, <1>3, <1>4, <1>5, <1>6 DEF Next, MatchStep

\* The callbacks of every module come as its author was promised, and a match
\* is TRUE exactly when the module said FOUND of an object with a value there.
THEOREM ModulesKeepProtocol ==
  ASSUME Ordered, Complete
  PROVE  Spec => Protocol
<1>1. Init => P!Init
  BY InitProtocol
<1>2. Inv /\ [Next]_vars => [P!Next]_P!protocolVars
  BY NextProtocol
<1> QED BY <1>1, <1>2, Invariance, PTL DEF Spec, Protocol, P!Spec

\* Between one startup and one shutdown no complete query follows a NULL
\* pointer: its module has seen its config and kept it.
THEOREM CompleteNeverCrashes ==
  ASSUME Ordered, Complete
  PROVE  Spec => []NeverCrashes
<1>1. Init => NeverCrashes
  BY DEF Init, NeverCrashes
<1>2. ASSUME NeverCrashes, Inv, [Next]_vars PROVE NeverCrashes'
  <2>1. CASE SearchCrash
    <3>1. /\ at # "idle" /\ ops[call.op].data = "null"
      BY <2>1 DEF SearchCrash, NullFollowed
    <3>2. /\ call.op \in Op /\ ops[call.op].phase = "compiled"
          /\ ops[call.op].spec.name \in Module /\ OpOK(ops[call.op])
      BY <1>2, <3>1 DEF Inv, CallOK, OpsOK
    <3>3. ops[call.op].spec.config # None /\ ops[call.op].spec.config.good
      BY <3>2 DEF OpOK, Complete
    <3>4. ops[call.op].life = "ready"
      BY <1>2, <3>2, <3>3 DEF Inv, OrderOK
    <3> QED BY <3>1, <3>2, <3>3, <3>4 DEF OpOK
  <2>2. ASSUME NEW o \in Op, ops[o].phase = "compiled" PROVE ops[o].spec.name # None
    BY <1>2, <2>2 DEF Inv, OpsOK, OpOK, Complete
  <2>3. CASE ~SearchCrash
    BY <1>2, <2>2, <2>3
       DEF NeverCrashes, Next, vars, Stay, Startup, Shutdown, Compile, MatchUnregistered,
           MatchNameless, Prep, Destroy, DestroyNameless, MatchStep, Search, SearchEnd,
           Cleanup, ReturnMissing, ReturnSpread, ReturnDirect, Return, Leaving
  <2> QED BY <2>1, <2>3
<1> QED BY <1>1, <1>2, Invariance, PTL DEF Spec
-----------------------------------------------------------------------------
(***************************************************************************)
(* int64_t addition: wrapping at every step comes to wrapping once.        *)
(***************************************************************************)
\* The quotient and the remainder of a division.
LEMMA Division ==
  ASSUME NEW m \in Nat \ {0}, NEW x \in Int
  PROVE  /\ x \div m \in Int
         /\ x % m \in 0 .. m - 1
         /\ x = (x \div m) * m + (x % m)
<1>1. x = (x \div m) * m + (x % m)
  BY SMTT(30)
<1> QED
  BY <1>1

\* No two remainders differ by a multiple of the divisor.
LEMMA OneRemainder ==
  ASSUME NEW m \in Nat \ {0}, NEW k \in Int, NEW r \in 0 .. m - 1, NEW s \in 0 .. m - 1,
         k * m + r = s
  PROVE  r = s
<1>1. k = 0
  OBVIOUS
<1> QED
  BY <1>1

\* A remainder may be taken before an addition.
LEMMA RemainderAdds ==
  ASSUME NEW m \in Nat \ {0}, NEW x \in Int, NEW y \in Int
  PROVE  ((x % m) + y) % m = (x + y) % m
<1> DEFINE q == x \div m
           r == x % m
           q1 == (r + y) \div m
           r1 == (r + y) % m
           q2 == (x + y) \div m
           r2 == (x + y) % m
<1>1. q \in Int /\ r \in 0 .. m - 1 /\ x = q * m + r
  BY Division
<1>r. r + y \in Int /\ x + y \in Int
  BY <1>1
<1> HIDE DEF q, r
<1>2. q1 \in Int /\ r1 \in 0 .. m - 1 /\ r + y = q1 * m + r1
  BY <1>r, Division
<1>3. q2 \in Int /\ r2 \in 0 .. m - 1 /\ x + y = q2 * m + r2
  BY <1>r, Division
<1> HIDE DEF q1, r1, q2, r2
<1>4. (q + q1 - q2) * m + r1 = r2
  <2>1. r1 \in Int /\ r2 \in Int /\ r \in Int
    BY <1>1, <1>2, <1>3
  <2>2. (q + q1 - q2) * m = q * m + q1 * m - q2 * m
    BY <1>1, <1>2, <1>3
  <2>3. q * m \in Int /\ q1 * m \in Int /\ q2 * m \in Int
    BY <1>1, <1>2, <1>3
  <2> QED
    BY <1>1, <1>2, <1>3, <2>1, <2>2, <2>3
<1>5. q + q1 - q2 \in Int
  BY <1>1, <1>2, <1>3
<1>6. r1 = r2
  BY <1>2, <1>3, <1>4, <1>5, OneRemainder
<1> QED
  BY <1>6 DEF r, r1, r2

\* A sum that wrapped goes on as if it had not.
LEMMA WrapAdds ==
  ASSUME NEW x \in Int, NEW y \in Int
  PROVE  Wrap(Wrap(x) + y) = Wrap(x + y)
<1> DEFINE m == 2 * Half
           r == (x + Half) % m
<1>1. m \in Nat \ {0} /\ Half \in Nat
  BY BoundAssumption
<1>2. r \in Int /\ x + Half \in Int
  BY <1>1
<1>3. (r + y) % m = ((x + Half) + y) % m
  <2> HIDE DEF m
  <2> QED
    BY <1>1, <1>2, RemainderAdds
<1> HIDE DEF m
<1>4. Wrap(x) = r - Half
  BY DEF Wrap, m
<1> HIDE DEF r
<1>5. (r - Half) + y + Half = r + y /\ x + y + Half = (x + Half) + y
  BY <1>1, <1>2
<1>6. Wrap(Wrap(x) + y) = ((r + y) % m) - Half
  BY <1>4, <1>5 DEF Wrap, m
<1>7. Wrap(x + y) = (((x + Half) + y) % m) - Half
  BY <1>5 DEF Wrap, m
<1> QED
  BY <1>3, <1>6, <1>7

\* No sum wraps to none.
LEMMA WrapZero == Wrap(0) = 0
<1> DEFINE m == 2 * Half
<1>1. m \in Nat \ {0} /\ Half \in 0 .. m - 1 /\ Half \in Nat
  BY BoundAssumption
<1> HIDE DEF m
<1>2. Half % m \in 0 .. m - 1 /\ Half \div m \in Int /\ Half = (Half \div m) * m + (Half % m)
  BY <1>1, Division
<1>3. (Half \div m) * m + (Half % m) = Half
  BY <1>2
<1>4. Half % m = Half
  BY <1>1, <1>2, <1>3, OneRemainder
<1>5. Wrap(0) = ((0 + Half) % m) - Half
  BY DEF Wrap, m
<1> QED
  BY <1>1, <1>4, <1>5
-----------------------------------------------------------------------------
(***************************************************************************)
(* The meaning of the answers.                                             *)
(***************************************************************************)
\* The totals of the values of a path are what their definition says.
LEMMA TotalsAre ==
  ASSUME NEW vs \in Seq(Value)
  PROVE  /\ Totals(vs)[0] = 0
         /\ \A n \in 0 .. Len(vs) : Totals(vs)[n] \in Int
         /\ \A n \in 1 .. Len(vs) : Totals(vs)[n] = Totals(vs)[n - 1] + Added(vs[n])
<1> DEFINE C == 0 .. Len(vs)
           depth == [n \in C |-> n]
           K == [n \in C |-> IF n = 0 THEN {} ELSE {n - 1}]
           B == [n \in C |-> [g \in [K[n] -> Int] |->
                                IF n = 0 THEN 0 ELSE g[n - 1] + Added(vs[n])]]
<1>0. Len(vs) \in Nat /\ \A n \in C : n # 0 => Added(vs[n]) \in Int
  <2>1. \A n \in C : n # 0 => vs[n] \in Value
    OBVIOUS
  <2>2. \A v \in Value : Added(v) \in Int
    BY DEF Added, Value
  <2> QED
    BY <2>1, <2>2
<1>1. Recursive(C, Int, depth, K, B)
  <2>1. depth \in [C -> Nat] /\ K \in [C -> SUBSET C]
    BY <1>0
  <2>2. \A n \in C : \A k \in K[n] : depth[k] < depth[n]
    BY <1>0
  <2>3. \A n \in C : \A g \in [K[n] -> Int] : B[n][g] \in Int
    BY <1>0
  <2> HIDE DEF B, K, depth
  <2> QED
    BY <2>1, <2>2, <2>3 DEF Recursive
<1>2. PICK f \in [C -> Int] : \A n \in C : f[n] = B[n][[k \in K[n] |-> f[k]]]
  <2> HIDE DEF C, K, B, depth
  <2> QED
    BY <1>1, RecursionExists
<1>3. \A n \in C : f[n] = IF n = 0 THEN 0 ELSE f[n - 1] + Added(vs[n])
  <2> SUFFICES ASSUME NEW n \in C PROVE f[n] = IF n = 0 THEN 0 ELSE f[n - 1] + Added(vs[n])
    OBVIOUS
  <2> DEFINE g == [k \in K[n] |-> f[k]]
  <2>1. K[n] \subseteq C
    BY <1>0
  <2>2. g \in [K[n] -> Int]
    BY <2>1
  <2>3. n # 0 => g[n - 1] = f[n - 1]
    OBVIOUS
  <2>4. f[n] = B[n][g]
    BY <1>2
  <2> HIDE DEF g
  <2>5. B[n][g] = IF n = 0 THEN 0 ELSE g[n - 1] + Added(vs[n])
    BY <2>2
  <2> QED
    BY <2>3, <2>4, <2>5
<1>4. f = [n \in 0 .. Len(vs) |-> IF n = 0 THEN 0 ELSE f[n - 1] + Added(vs[n])]
  BY <1>3
<1> DEFINE F == CHOOSE h : h = [n \in 0 .. Len(vs) |-> IF n = 0 THEN 0 ELSE h[n - 1] + Added(vs[n])]
<1>5. F = [n \in 0 .. Len(vs) |-> IF n = 0 THEN 0 ELSE F[n - 1] + Added(vs[n])]
  BY <1>4
<1>6. Totals(vs) = F
  BY DEF Totals
<1> HIDE DEF F
<1>7. F[0] = 0 /\ \A n \in 1 .. Len(vs) : F[n] = F[n - 1] + Added(vs[n])
  BY <1>0, <1>5
<1>8. \A n \in C : F[n] \in Int
  <2> DEFINE G == {n \in C : F[n] \in Int}
  <2>1. \A n \in C : (\A k \in C : depth[k] < depth[n] => k \in G) => n \in G
    <3> SUFFICES ASSUME NEW n \in C, \A k \in C : depth[k] < depth[n] => k \in G
                 PROVE  F[n] \in Int
      OBVIOUS
    <3>1. CASE n = 0
      BY <1>7, <3>1
    <3>2. CASE n # 0
      <4>1. n - 1 \in C /\ n \in 1 .. Len(vs) /\ n - 1 < n
        BY <1>0, <3>2
      <4>2. F[n - 1] \in Int
        BY <4>1
      <4> QED
        BY <1>0, <1>7, <3>2, <4>1, <4>2
    <3> QED
      BY <3>1, <3>2
  <2>2. G \subseteq C /\ depth \in [C -> Nat]
    BY <1>0
  <2> HIDE DEF G, depth, C
  <2>3. G = C
    BY <2>1, <2>2, Shallowest
  <2> QED
    BY <2>3 DEF G
<1> QED
  BY <1>6, <1>7, <1>8

\* between finds v within its limits.
Hit(spec, v) == Numeric(v) /\ v.n \in spec.config.accepts

\* How many of the values of the path a match at place has been through.
SeenBy(place, c) ==
  IF c.doc.direct = None THEN c.checked ELSE IF place = "direct" THEN 0 ELSE 1

\* What holds of the values seen while the search goes on.
SoFar(place, c, spec) ==
  LET vs == Values(spec, c.doc)
      n  == SeenBy(place, c)
  IN  /\ c.entry
      /\ n \in 0 .. Len(vs)
      /\ place = "direct" => c.doc.direct # None
      /\ place = "spread" => c.doc.direct = None /\ spec.dotted
      /\ place = "end" => n = Len(vs)
      /\ spec.name = "between" => \A i \in 1 .. n : ~Hit(spec, vs[i])
      /\ spec.name = "sum" => c.mem = Wrap(Totals(vs)[n])

\* What the answer says when it is given.
Decided(c, spec) ==
  LET vs == Values(spec, c.doc)
  IN  /\ c.entry
      /\ vs # << >> <=> c.doc.direct # None \/ c.checked > 0
      /\ spec.name = "between" =>
           (c.answer = "found" <=> \E i \in DOMAIN vs : Hit(spec, vs[i]))
      /\ spec.name = "sum" /\ vs # << >> =>
           (c.answer = "found" <=> Wrap(Total(vs)) \in spec.config.accepts)

MeaningOK ==
  /\ call.op # None => ops[call.op].phase # "none"
  /\ at \in {"direct", "spread", "end"} => SoFar(at, call, Spec0)
  /\ at = "cleanup" => Decided(call, Spec0)

MeaningInv == Inv /\ MeaningOK /\ AnswerMeaning

\* The values of a path are a list of values.
LEMMA ValuesType ==
  ASSUME NEW spec \in Specs, NEW d \in Docs
  PROVE  Values(spec, d) \in Seq(Value) /\ Len(Values(spec, d)) \in Nat
  BY Parts DEF Values

\* One value more, for every module: what is shown is the next value of the path, and
\* when the module goes on what held so far holds of it too, or else it has decided.
LEMMA SearchMeans ==
  ASSUME NEW place \in {"direct", "spread"}, NEW c \in Call, NEW spec \in Specs,
         c.doc \in Docs, SoFar(place, c, spec), NEW v \in Value, NEW a, NEW next, NEW d \in Call,
         place = "direct" => v = c.doc.direct,
         place = "spread" => c.checked < Len(c.doc.spread) /\ v = c.doc.spread[c.checked + 1],
         a \in Answers(spec.name, spec.config, v, c.mem),
         d.entry = c.entry, d.doc = c.doc, d.answer = a,
         d.checked = IF place = "spread" THEN c.checked + 1 ELSE c.checked,
         d.mem = MemAfter(spec.name, v, c.mem),
         next = IF a # "continue" THEN "cleanup"
                ELSE IF place = "spread" /\ d.checked < Len(c.doc.spread) THEN "spread" ELSE "end"
  PROVE  /\ next # "cleanup" => SoFar(next, d, spec)
         /\ next = "cleanup" => Decided(d, spec)
<1> DEFINE vs == Values(spec, c.doc)
           n  == SeenBy(place, c)
<1>1. vs \in Seq(Value) /\ Len(vs) \in Nat /\ c.checked \in Nat
  BY ValuesType DEF Call
<1>2. /\ Values(spec, d.doc) = vs /\ n \in Nat /\ n + 1 \in 1 .. Len(vs) /\ v = vs[n + 1]
      /\ c.doc.direct # None => vs = <<c.doc.direct>> /\ n = 0 /\ place = "direct"
      /\ c.doc.direct = None => vs = c.doc.spread /\ n = c.checked /\ place = "spread"
  <2>1. CASE place = "direct"
    BY <1>1, <2>1 DEF SoFar, SeenBy, Values
  <2>2. CASE place = "spread"
    BY <1>1, <2>2 DEF SoFar, SeenBy, Values
  <2> QED
    BY <2>1, <2>2
<1>3. SeenBy(next, d) = n + 1
  BY <1>2 DEF SeenBy
<1>4. next = "spread" => c.doc.direct = None /\ spec.dotted
  BY DEF SoFar
<1>5. next = "end" => n + 1 = Len(vs)
  <2>1. CASE c.doc.direct # None
    <3>1. n = 0 /\ Len(vs) = 1
      BY <1>2, <2>1
    <3> QED
      BY <3>1
  <2>2. CASE c.doc.direct = None
    <3>1. vs = c.doc.spread /\ n = c.checked /\ place = "spread" /\ d.checked = n + 1
      BY <1>2, <2>2
    <3>2. next = "end" => ~(n + 1 < Len(vs))
      BY <3>1
    <3> QED
      BY <1>1, <1>2, <3>2
  <2> QED
    BY <2>1, <2>2
<1>6. next \in {"spread", "end", "cleanup"} /\ (next = "cleanup" <=> a # "continue") /\ v # None
  BY NoneAssumption
<1>7. c.entry /\ d.entry
  BY DEF SoFar
<1>8. vs # << >> /\ (d.doc.direct # None \/ d.checked > 0)
  BY <1>1, <1>2
<1>9. ASSUME spec.name = "between"
      PROVE  /\ a = "found" <=> Hit(spec, v)
             /\ a = "found" \/ a = "continue"
             /\ \A i \in 1 .. n : ~Hit(spec, vs[i])
  BY <1>9 DEF Answers, Hit, SoFar
<1>10. ASSUME spec.name = "sum"
       PROVE  a = "continue" /\ d.mem = Wrap(Totals(vs)[n + 1])
  <2>1. a = "continue"
    BY <1>6, <1>10 DEF Answers
  <2>2. c.mem = Wrap(Totals(vs)[n])
    BY <1>10 DEF SoFar
  <2>3. Totals(vs)[n] \in Int /\ Totals(vs)[n + 1] = Totals(vs)[n] + Added(v)
    <3>1. n \in 0 .. Len(vs) /\ (n + 1) - 1 = n
      BY <1>1, <1>2
    <3> QED
      BY <1>1, <1>2, <3>1, TotalsAre
  <2>4. CASE Summed(v)
    <3>1. v.n \in Int
      BY DEF Value
    <3>2. d.mem = Wrap(c.mem + v.n) /\ Added(v) = v.n
      BY <1>10, <2>4 DEF MemAfter, Added
    <3> QED
      BY <2>1, <2>2, <2>3, <3>1, <3>2, WrapAdds
  <2>5. CASE ~Summed(v)
    <3>1. d.mem = c.mem /\ Added(v) = 0
      BY <1>10, <2>5 DEF MemAfter, Added
    <3> QED
      BY <2>1, <2>2, <2>3, <3>1
  <2> QED
    BY <2>4, <2>5
<1> HIDE DEF vs, n
<1>11. ASSUME next # "cleanup" PROVE SoFar(next, d, spec)
  <2>1. spec.name = "between" => \A i \in 1 .. n + 1 : ~Hit(spec, vs[i])
    <3>1. \A i \in 1 .. n + 1 : i \in 1 .. n \/ i = n + 1
      BY <1>2
    <3> QED
      BY <1>2, <1>6, <1>9, <1>11, <3>1
  <2>2. n + 1 \in 0 .. Len(vs) /\ next # "direct"
    BY <1>1, <1>2, <1>6
  <2> QED
    BY <1>2, <1>3, <1>4, <1>5, <1>6, <1>7, <1>10, <1>11, <2>1, <2>2 DEF SoFar
<1>12. ASSUME next = "cleanup" PROVE Decided(d, spec)
  <2>1. spec.name = "between" => (d.answer = "found" <=> \E i \in DOMAIN vs : Hit(spec, vs[i]))
    <3>1. spec.name = "between" => d.answer = "found" /\ Hit(spec, vs[n + 1])
      BY <1>2, <1>6, <1>9, <1>12
    <3>2. n + 1 \in DOMAIN vs
      BY <1>1, <1>2
    <3> QED
      BY <3>1, <3>2
  <2>2. spec.name # "sum"
    BY <1>6, <1>10, <1>12
  <2> QED
    BY <1>2, <1>7, <1>8, <2>1, <2>2 DEF Decided
<1> QED
  BY <1>11, <1>12

\* The op of the last match was compiled, and stays what it was compiled to.
LEMMA OpStays ==
  ASSUME MeaningInv, [Next]_vars, call.op # None
  PROVE  call.op \in Op /\ ops'[call.op].phase # "none" /\ ops'[call.op].spec = Spec0
<1>1. call.op \in Op /\ ops[call.op].phase # "none" /\ ops \in [Op -> OpState]
  BY DEF MeaningInv, MeaningOK, Inv, TypeOK, Call
<1>2. ASSUME NEW o \in Op, NEW s \in Specs, Compile(o, s)
      PROVE  ops'[call.op].phase # "none" /\ ops'[call.op].spec = Spec0
  BY <1>1, <1>2 DEF Compile, Spec0
<1>3. ASSUME NEW o \in Op, Destroy(o)
      PROVE  ops'[call.op].phase # "none" /\ ops'[call.op].spec = Spec0
  BY <1>1, <1>3 DEF Destroy, Spec0, OpState
<1>4. CASE UNCHANGED ops
  BY <1>1, <1>4 DEF Spec0
<1> QED
  BY <1>1, <1>2, <1>3, <1>4 DEF Next, vars, Startup, Shutdown, MatchUnregistered, MatchNameless,
     Prep, DestroyNameless, MatchStep, Search, SearchEnd, SearchCrash, Stay,
     Cleanup, ReturnMissing, ReturnSpread, ReturnDirect, Return, Leaving

\* A match begins with nothing seen, or ends there.
LEMMA PrepMeans ==
  ASSUME MeaningInv, NEW o \in Op, NEW d \in Docs, Prep(o, d)
  PROVE  MeaningOK' /\ AnswerMeaning'
<1>1. call' = [NoCall EXCEPT !.op = o, !.doc = d, !.entry = TRUE,
                             !.mem = IF HasPrep(ops[o].spec.name) THEN 0 ELSE None]
  BY DEF Prep
<1>2. /\ call'.op = o /\ call'.doc = d /\ call'.entry /\ call'.checked = 0
      /\ call'.answer = "continue"
      /\ ops[o].spec.name = "sum" => call'.mem = 0
  BY <1>1 DEF NoCall, HasPrep
<1>3. ops' = ops /\ ops[o].phase # "none" /\ ops[o].spec \in Specs /\ ops'[call'.op].spec = ops[o].spec
  BY <1>2 DEF Prep, MeaningInv, Inv, OpsOK, OpOK
<1> DEFINE spec == ops[o].spec
           vs == Values(spec, d)
<1>4. at' = FirstStop(spec, d)
  BY DEF Prep
<1>5. vs \in Seq(Value) /\ Len(vs) \in Nat
  BY <1>3, ValuesType
<1> HIDE DEF spec
<1>6. /\ at' = "direct" => d.direct # None
      /\ at' = "spread" => d.direct = None /\ spec.dotted
      /\ at' = "end" => d.direct = None /\ vs = << >>
      /\ at' = "cleanup" => d.direct = None /\ vs = << >>
      /\ at' \in {"direct", "spread", "end", "cleanup"}
  BY <1>4 DEF FirstStop, Values
<1>7. Totals(vs)[0] = 0 /\ Wrap(0) = 0
  BY <1>5, TotalsAre, WrapZero
<1>8. at' \in {"direct", "spread", "end"} => SoFar(at', call', spec)
  <2>1. at' \in {"direct", "spread", "end"} => SeenBy(at', call') = 0
    BY <1>2, <1>6 DEF SeenBy
  <2>2. spec.name = "sum" => call'.mem = Wrap(Totals(vs)[0])
    BY <1>2, <1>7 DEF spec
  <2>3. at' = "end" => Len(vs) = 0
    BY <1>6
  <2> HIDE DEF vs
  <2> QED
    BY <1>2, <1>5, <1>6, <2>1, <2>2, <2>3 DEF SoFar, vs
<1>9. at' = "cleanup" => Decided(call', spec)
  BY <1>2, <1>6 DEF Decided
<1>10. ops'[call'.op].phase # "none" /\ Spec0' = spec
  BY <1>2, <1>3 DEF Spec0, spec
<1>11. MeaningOK'
  BY <1>8, <1>9, <1>10 DEF MeaningOK
<1>12. AnswerMeaning'
  BY <1>6 DEF AnswerMeaning, Matching
<1> QED
  BY <1>11, <1>12

\* A value that is searched is counted.
LEMMA SearchKeeps ==
  ASSUME MeaningInv, Search
  PROVE  MeaningOK' /\ AnswerMeaning'
<1> DEFINE checked == IF at = "spread" THEN call.checked + 1 ELSE call.checked
<1>1. PICK a \in Answers(Spec0.name, Spec0.config, Shown, call.mem) :
        /\ call' = [call EXCEPT !.answer = a, !.checked = checked,
                                !.mem = MemAfter(Spec0.name, Shown, @)]
        /\ at' = AfterSearch(a, checked)
  BY DEF Search
<1>2. at \in {"direct", "spread"} /\ UNCHANGED <<store, ops, crashed, result>>
  BY DEF Search
<1>3. call \in Call /\ call.op \in Op /\ call.doc \in Docs /\ Spec0 \in Specs
  BY <1>2 DEF MeaningInv, Inv, TypeOK, CallOK, OpsOK, OpOK, Spec0
<1>4. Shown \in Value
  BY <1>2, ShownIsValue DEF MeaningInv
<1>5. /\ call'.entry = call.entry /\ call'.doc = call.doc /\ call'.op = call.op
      /\ call'.answer = a /\ call'.checked = checked
      /\ call'.mem = MemAfter(Spec0.name, Shown, call.mem)
  BY <1>1, <1>3 DEF Call
<1>6. call' \in Call
  BY SearchStep DEF MeaningInv, Inv, TypeOK
<1>7. SoFar(at, call, Spec0)
  BY <1>2 DEF MeaningInv, MeaningOK
<1>8. /\ at = "direct" => Shown = call.doc.direct
      /\ at = "spread" => call.checked < Len(call.doc.spread)
                           /\ Shown = call.doc.spread[call.checked + 1]
  BY DEF Shown, MeaningInv, Inv, StopsOK
<1>9. at' = IF a # "continue" THEN "cleanup"
            ELSE IF at = "spread" /\ checked < Len(call.doc.spread) THEN "spread" ELSE "end"
  BY <1>1 DEF AfterSearch
<1> HIDE DEF checked
<1>10. /\ at' # "cleanup" => SoFar(at', call', Spec0)
       /\ at' = "cleanup" => Decided(call', Spec0)
  BY <1>1, <1>2, <1>3, <1>4, <1>5, <1>6, <1>7, <1>8, <1>9, SearchMeans DEF checked
<1>11. ops'[call'.op].phase # "none" /\ Spec0' = Spec0
  BY <1>2, <1>3, <1>5 DEF Spec0, MeaningInv, Inv, CallOK
<1>12. MeaningOK'
  BY <1>10, <1>11 DEF MeaningOK
<1> QED
  BY <1>9, <1>12 DEF AnswerMeaning, Matching

\* At the end of the object sum decides, and the others have.
LEMMA SearchEndDecides ==
  ASSUME MeaningInv, SearchEnd
  PROVE  MeaningOK' /\ AnswerMeaning'
<1>1. PICK a \in Answers(Spec0.name, Spec0.config, None, call.mem) :
        call' = [call EXCEPT !.answer = a, !.told = TRUE]
  BY DEF SearchEnd
<1>2. at = "end" /\ at' = "cleanup" /\ UNCHANGED <<store, ops, crashed, result>>
  BY DEF SearchEnd
<1>3. call \in Call /\ call.op \in Op /\ call.doc \in Docs /\ Spec0 \in Specs
  BY <1>2 DEF MeaningInv, Inv, TypeOK, CallOK, OpsOK, OpOK, Spec0
<1>4. /\ call'.entry = call.entry /\ call'.doc = call.doc /\ call'.op = call.op
      /\ call'.answer = a /\ call'.checked = call.checked
  BY <1>1, <1>3 DEF Call
<1> DEFINE vs == Values(Spec0, call.doc)
           n  == SeenBy("end", call)
<1>5. vs \in Seq(Value) /\ Len(vs) \in Nat
  BY <1>3, ValuesType
<1>6. SoFar("end", call, Spec0) /\ n = Len(vs)
  BY <1>2 DEF MeaningInv, MeaningOK, SoFar
<1>7. call.entry /\ call'.entry
  BY <1>4, <1>6 DEF SoFar
<1>8. vs # << >> <=> call.doc.direct # None \/ call.checked > 0
  <2>1. CASE call.doc.direct # None
    BY <2>1 DEF Values
  <2>2. CASE call.doc.direct = None
    BY <1>5, <1>6, <2>2 DEF SeenBy
  <2> QED
    BY <2>1, <2>2
<1>9. ASSUME Spec0.name = "between"
      PROVE  a = "found" <=> \E i \in DOMAIN vs : Hit(Spec0, vs[i])
  <2>1. a = "continue"
    BY <1>9 DEF Answers, Numeric
  <2>2. DOMAIN vs = 1 .. n /\ \A i \in 1 .. n : ~Hit(Spec0, vs[i])
    BY <1>5, <1>6, <1>9 DEF SoFar
  <2> QED
    BY <2>1, <2>2
<1>10. ASSUME Spec0.name = "sum"
       PROVE  a = "found" <=> Wrap(Total(vs)) \in Spec0.config.accepts
  <2>1. call.mem = Wrap(Total(vs))
    BY <1>6, <1>10 DEF SoFar, Total
  <2>2. a = "found" <=> call.mem \in Spec0.config.accepts
    BY <1>10 DEF Answers
  <2> QED
    BY <2>1, <2>2
<1> HIDE DEF n
<1>11. Decided(call', Spec0)
  BY <1>4, <1>7, <1>8, <1>9, <1>10 DEF Decided
<1>12. ops'[call'.op].phase # "none" /\ Spec0' = Spec0
  BY <1>2, <1>3, <1>4 DEF Spec0, MeaningInv, Inv, CallOK
<1> QED
  BY <1>2, <1>11, <1>12 DEF MeaningOK, AnswerMeaning, Matching

\* What was decided is returned.
LEMMA CleanupReturns ==
  ASSUME MeaningInv, Cleanup
  PROVE  MeaningOK' /\ AnswerMeaning'
<1>1. /\ at = "cleanup" /\ at' = "idle" /\ UNCHANGED <<store, ops, crashed>>
      /\ call' = [call EXCEPT !.mem = None]
      /\ result' = (call.answer = "found" /\ (Direct \/ call.checked > 0))
  BY CleanupIs DEF MeaningInv
<1>2. call \in Call /\ call.op \in Op /\ call.doc \in Docs /\ Spec0 \in Specs
      /\ ops[call.op].phase # "none"
  BY <1>1 DEF MeaningInv, Inv, TypeOK, CallOK, OpsOK, OpOK, Spec0
<1>3. /\ call'.entry = call.entry /\ call'.doc = call.doc /\ call'.op = call.op
  BY <1>1, <1>2 DEF Call
<1> DEFINE vs == Values(Spec0, call.doc)
<1>4. Decided(call, Spec0)
  BY <1>1 DEF MeaningInv, MeaningOK
<1>5. result' <=> call.answer = "found" /\ vs # << >>
  BY <1>1, <1>4 DEF Decided, Direct
<1>6. result' \in BOOLEAN
  BY <1>1
<1>7. vs \in Seq(Value)
  BY <1>2, ValuesType
<1>8. result' \in Verdicts(Spec0, call.doc)
  <2>1. CASE Spec0.name = "between"
    <3>1. result' <=> \E i \in DOMAIN vs : Hit(Spec0, vs[i])
      <4>1. vs = << >> => DOMAIN vs = {}
        BY <1>7
      <4> QED
        BY <1>4, <1>5, <2>1, <4>1 DEF Decided
    <3>2. result' = \E i \in DOMAIN vs : Numeric(vs[i]) /\ vs[i].n \in Spec0.config.accepts
      BY <1>6, <3>1 DEF Hit
    <3> QED
      BY <2>1, <3>2 DEF Verdicts
  <2>2. CASE Spec0.name = "sum"
    <3>1. result' = (vs # << >> /\ Wrap(Total(vs)) \in Spec0.config.accepts)
      BY <1>4, <1>5, <1>6, <2>2 DEF Decided
    <3> QED
      BY <2>2, <3>1 DEF Verdicts
  <2>3. CASE Spec0.name # "between" /\ Spec0.name # "sum"
    <3>1. result' \in {FALSE, vs # << >>}
      BY <1>5, <1>6
    <3> QED
      BY <2>3, <3>1 DEF Verdicts
  <2> QED
    BY <2>1, <2>2, <2>3
<1>9. Spec0' = Spec0 /\ ops'[call'.op].phase # "none" /\ ops'[call'.op].spec = Spec0
  BY <1>1, <1>2, <1>3 DEF Spec0
<1>10. MeaningOK'
  BY <1>1, <1>9 DEF MeaningOK
<1>11. AnswerMeaning'
  BY <1>3, <1>4, <1>8, <1>9 DEF AnswerMeaning, Decided
<1> QED
  BY <1>10, <1>11

\* Nothing else that happens is part of a match.
LEMMA OthersKeep ==
  ASSUME MeaningInv, [Next]_vars, UNCHANGED <<at, call, result>>
  PROVE  MeaningOK' /\ AnswerMeaning'
<1>1. CASE call.op = None
  <2>1. ~Matching
    BY <1>1, NoneAssumption DEF Matching, MeaningInv, Inv, CallOK
  <2> QED
    BY <1>1, <2>1 DEF MeaningOK, AnswerMeaning, Matching
<1>2. CASE call.op # None
  <2>1. ops'[call'.op].phase # "none" /\ ops'[call'.op].spec = Spec0 /\ Spec0' = Spec0
    BY <1>2, OpStays DEF Spec0
  <2>2. MeaningOK'
    BY <2>1 DEF MeaningInv, MeaningOK
  <2>3. crashed => crashed'
    BY DEF Next, vars, Startup, Shutdown, Compile, Destroy, MatchUnregistered, MatchNameless,
       Prep, DestroyNameless, MatchStep, Search, SearchEnd, SearchCrash, Stay,
     Cleanup, ReturnMissing, ReturnSpread, ReturnDirect, Return, Leaving
  <2>4. AnswerMeaning'
    BY <2>1, <2>3 DEF MeaningInv, AnswerMeaning, Matching, Spec0
  <2> QED
    BY <2>2, <2>4
<1> QED
  BY <1>1, <1>2

\* No module answered before the first match.
LEMMA InitMeans == Init => MeaningInv
  BY InitInv DEF Init, MeaningInv, MeaningOK, AnswerMeaning, NoCall

\* Every step keeps the meaning of the answers.
LEMMA NextMeans == MeaningInv /\ [Next]_vars => MeaningInv'
<1> SUFFICES ASSUME MeaningInv, [Next]_vars PROVE MeaningOK' /\ AnswerMeaning'
  BY NextInv DEF MeaningInv
<1>1. ASSUME NEW o \in Op, NEW d \in Docs, Prep(o, d) PROVE MeaningOK' /\ AnswerMeaning'
  BY <1>1, PrepMeans
<1>2. ASSUME NEW o \in Op, NEW d \in Docs, MatchUnregistered(o, d)
      PROVE  MeaningOK' /\ AnswerMeaning'
  <2>1. /\ at = "idle" /\ at' = at /\ ops' = ops /\ ops[o].phase = "compiled"
        /\ call' = [NoCall EXCEPT !.op = o, !.doc = d] /\ result' = FALSE
    BY <1>2 DEF MatchUnregistered, Free
  <2>2. call'.op = o /\ ~call'.entry
    BY <2>1 DEF NoCall
  <2> QED
    BY <2>1, <2>2 DEF MeaningOK, AnswerMeaning
<1>3. ASSUME NEW o \in Op, NEW d \in Docs, MatchNameless(o, d)
      PROVE  MeaningOK' /\ AnswerMeaning'
  <2>1. at = "idle" /\ at' = at /\ ops' = ops /\ ops[o].phase = "compiled" /\ crashed' /\ call'.op = o
    BY <1>3 DEF MatchNameless, Free, NoCall
  <2> QED
    BY <2>1 DEF MeaningOK, AnswerMeaning
<1>4. CASE Search
  BY <1>4, SearchKeeps
<1>5. CASE SearchEnd
  BY <1>5, SearchEndDecides
<1>6. CASE Cleanup
  BY <1>6, CleanupReturns
<1>7. CASE UNCHANGED <<at, call, result>>
  BY <1>7, OthersKeep
<1>8. ASSUME NEW o \in Op, DestroyNameless(o) PROVE MeaningOK' /\ AnswerMeaning'
  <2>1. at = "idle" /\ at' = at /\ ops' = ops /\ ops[o].phase = "compiled" /\ crashed' /\ call'.op = o
    BY <1>8 DEF DestroyNameless, Free, NoCall
  <2> QED
    BY <2>1 DEF MeaningOK, AnswerMeaning
<1> QED
  BY <1>1, <1>2, <1>3, <1>4, <1>5, <1>6, <1>7, <1>8 DEF Next, vars, Startup, Shutdown, Compile,
     Destroy, MatchStep, SearchCrash, Stay

\* Every answer of _mongoc_matcher_op_module_match is the one its module stands for:
\* between looks at every value until one is within its limits, and sum compares the
\* total of all, wrapped to 64 bits once however often it overflowed on the way.
THEOREM AnswersMeanWhatModulesSay == Spec => []AnswerMeaning
<1>1. MeaningInv => AnswerMeaning
  BY DEF MeaningInv
<1> QED
  BY <1>1, InitMeans, NextMeans, PTL DEF Spec
=============================================================================
