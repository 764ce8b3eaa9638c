------------------------------ MODULE ModuleOps ------------------------------
(***************************************************************************)
(* Matcher modules (lib/mongoc-matcher-op-modules.c): the global store of  *)
(* registered modules, the $module ops that look it up by name at every    *)
(* use, and a match as the sequence of callbacks it makes.  One thread     *)
(* runs the library, so one match is under way at a time.                  *)
(*                                                                         *)
(* A value of a document is its kind and a number: of an array, the sum    *)
(* of the integers in it; of text (and what else no module adds up or      *)
(* compares), 0.  A document is what the path finds in it: the value at    *)
(* the path itself and, when there is none and the path is dotted, the     *)
(* values bson_iter_find_descendants yields for skip = 0, 1, ...           *)
(* A config is the set of numbers it accepts.  The opcode of the op, which *)
(* is written and never read, is left out.                                 *)
(***************************************************************************)
EXTENDS Integers, Sequences

CONSTANTS Op,        \* the $module ops of the program's queries
          None,      \* no value, no op, NULL
          Specs,     \* what a query may say under $module
          Docs,      \* the documents
          Half,      \* int64_t runs from -Half to Half - 1
          MaxCopies, \* bound on bsonsearch_startup calls not shut down
          Ordered    \* startup before the first matcher, shutdown after the last

Module == {"between", "sample", "sum", "dukjs"}
Kind   == {"int", "double", "array", "text"}
Value  == [kind : Kind, n : Int]
Config == [good : BOOLEAN, accepts : SUBSET Int]
ModuleSpec ==
  [name : Module \cup {"unregistered", None}, config : Config \cup {None},
   dotted : BOOLEAN]
Document == [direct : Value \cup {None}, spread : Seq(Value)]
Answer   == {"continue", "stop", "found"}
Int64    == -Half .. Half - 1

ASSUME NoneAssumption ==
  /\ None \notin Op \cup Specs \cup Docs \cup Value \cup Config \cup Int
  /\ None \notin Module \cup {"unregistered"}
ASSUME SpecsAssumption == Specs \subseteq ModuleSpec
ASSUME DocsAssumption  == Docs \subseteq Document
ASSUME BoundAssumption == Half \in Nat \ {0} /\ MaxCopies \in Nat /\ Ordered \in BOOLEAN

VARIABLES store,    \* how many times each module is registered
          ops,      \* the $module ops
          at,       \* where the match is
          call,     \* its locals
          allocs,   \* how many blocks of memory m_prep made are not freed
          crashed,  \* a NULL pointer was followed
          result    \* what the last match returned

vars == <<store, ops, at, call, allocs, crashed, result>>

OpState ==
  [phase : {"none", "compiled", "destroyed"},
   life : {"unborn", "ready", "gone"},   \* m_new and m_destroy, as called
   spec : Specs \cup {None},
   data : {"null", "held", "freed"}]     \* module_data

Call ==
  [op : Op \cup {None}, doc : Docs \cup {None}, entry : BOOLEAN, checked : Nat,
   told : BOOLEAN, answer : Answer, mem : Int64 \cup {None}]

TypeOK ==
  /\ store \in 0 .. MaxCopies
  /\ ops \in [Op -> OpState]
  /\ at \in {"idle", "direct", "spread", "end", "cleanup"}
  /\ call \in Call
  /\ allocs \in Nat
  /\ crashed \in BOOLEAN
  /\ result \in BOOLEAN

NoCall ==
  [op |-> None, doc |-> None, entry |-> FALSE, checked |-> 0, told |-> FALSE,
   answer |-> "continue", mem |-> None]

Init ==
  /\ store = 0
  /\ ops = [o \in Op |-> [phase |-> "none", life |-> "unborn", spec |-> None,
                          data |-> "null"]]
  /\ at = "idle"
  /\ call = NoCall
  /\ allocs = 0
  /\ crashed = FALSE
  /\ result = FALSE
-----------------------------------------------------------------------------
(***************************************************************************)
(* The store: HASH_ADD does not look for an entry of that name, so every   *)
(* startup adds a copy of each module and HASH_FIND_STR sees no difference.*)
(***************************************************************************)
InUse == \E o \in Op : ops[o].phase = "compiled"
Free  == at = "idle" /\ ~crashed

Startup ==
  /\ Free
  /\ store < MaxCopies
  /\ Ordered => store = 0 /\ ~InUse
  /\ store' = store + 1
  /\ UNCHANGED <<ops, at, call, allocs, crashed, result>>

\* HASH_ITER frees every copy.
Shutdown ==
  /\ Free
  /\ Ordered => ~InUse
  /\ store' = 0
  /\ UNCHANGED <<ops, at, call, allocs, crashed, result>>

Entry(name) == store > 0 /\ name \in Module
-----------------------------------------------------------------------------
(***************************************************************************)
(* _mongoc_matcher_op_module_new and _config.  The op is returned whatever *)
(* the module makes of its config.                                         *)
(***************************************************************************)
Configures(spec) == Entry(spec.name) /\ spec.config # None

\* Mutant: m_new forgets to store what it allocated.
NewForgets(spec) == spec.name # "between"
\* between keeps nothing of a config without both limits.
NewHolds(spec) == spec.name = "between" => spec.config.good

Compile(o, spec) ==
  /\ Free
  /\ ops[o].phase = "none"
  /\ Ordered => store > 0
  /\ ops' = [ops EXCEPT ![o] =
       [phase |-> "compiled",
        life  |-> IF Configures(spec) THEN "ready" ELSE "unborn",
        spec  |-> spec,
        data  |-> IF Configures(spec) /\ NewHolds(spec) THEN "held" ELSE "null"]]
  /\ UNCHANGED <<store, at, call, allocs, crashed, result>>
-----------------------------------------------------------------------------
(***************************************************************************)
(* The search callbacks: what each may answer to a value, or to None, the  *)
(* end of the object, and what becomes of the memory m_prep allocated.     *)
(***************************************************************************)
HasPrep(name)    == name \in {"sum", "dukjs"}
HasCleanup(name) == name \in {"sum", "dukjs"}
Numeric(v)       == v # None /\ v.kind \in {"int", "double"}
Summed(v)        == v # None /\ v.kind \in {"int", "array"}

\* int64_t addition.
Wrap(x) == ((x + Half) % (2 * Half)) - Half

\* Whether the callback follows module_data.
Reads(name, v) ==
  CASE name = "between" -> Numeric(v)
    [] name = "sum"     -> v = None \/ Summed(v)
    [] OTHER            -> v # None

\* Mutant: the sum is compared at every value.
AnswersEarly(name, config, v, mem) ==
  IF name = "sum" /\ mem \in config.accepts THEN {"found"} ELSE {"continue"}
Answers(name, config, v, mem) ==
  CASE name = "between" ->
         {IF Numeric(v) /\ v.n \in config.accepts THEN "found" ELSE "continue"}
    [] name = "sum" ->
         {IF v = None /\ mem \in config.accepts THEN "found" ELSE "continue"}
    [] name = "sample" -> IF v = None THEN {"continue"} ELSE {"stop", "found"}
    [] OTHER ->
         {"continue"} \cup (IF v # None /\ v.kind = "text" THEN {"found"} ELSE {})

MemAfter(name, v, mem) ==
  IF name = "sum" /\ Summed(v) THEN Wrap(mem + v.n) ELSE mem
-----------------------------------------------------------------------------
(***************************************************************************)
(* _mongoc_matcher_op_module_match, one step per callback.                 *)
(***************************************************************************)
Spec0  == ops[call.op].spec
Direct == call.doc.direct # None

\* What the next search is shown.
Shown == CASE at = "direct" -> call.doc.direct
           [] at = "spread" -> call.doc.spread[call.checked + 1]
           [] OTHER         -> None

NullFollowed == ops[call.op].data = "null" /\ Reads(Spec0.name, Shown)

\* No entry of that name: nothing is called.
MatchUnregistered(o, d) ==
  /\ Free
  /\ ops[o].phase = "compiled"
  /\ ops[o].spec.name # None
  /\ ~Entry(ops[o].spec.name)
  /\ call' = [NoCall EXCEPT !.op = o, !.doc = d]
  /\ result' = FALSE
  /\ UNCHANGED <<store, ops, at, allocs, crashed>>

\* The lookup hashes a name that was never given.
MatchNameless(o, d) ==
  /\ Free
  /\ ops[o].phase = "compiled"
  /\ ops[o].spec.name = None
  /\ call' = [NoCall EXCEPT !.op = o, !.doc = d]
  /\ crashed' = TRUE
  /\ UNCHANGED <<store, ops, at, allocs, result>>

\* A plain path that is not there goes to m_cleanup without a search.
FirstStop(spec, d) ==
  IF d.direct # None THEN "direct"
  ELSE IF ~spec.dotted THEN "cleanup"
  ELSE IF d.spread # << >> THEN "spread" ELSE "end"

Prep(o, d) ==
  /\ Free
  /\ ops[o].phase = "compiled"
  /\ Entry(ops[o].spec.name)
  /\ call' = [NoCall EXCEPT !.op = o, !.doc = d, !.entry = TRUE,
                            !.mem = IF HasPrep(ops[o].spec.name) THEN 0 ELSE None]
  /\ allocs' = allocs + IF HasPrep(ops[o].spec.name) THEN 1 ELSE 0
  /\ at' = FirstStop(ops[o].spec, d)
  /\ UNCHANGED <<store, ops, crashed, result>>

\* Mutant: the loop looks at the document only.
AfterSearchRunsOn(answer, checked) ==
  IF at = "spread" /\ checked < Len(call.doc.spread) THEN "spread"
  ELSE IF answer = "continue" THEN "end" ELSE "cleanup"
AfterSearch(answer, checked) ==
  IF answer # "continue" THEN "cleanup"
  ELSE IF at = "spread" /\ checked < Len(call.doc.spread) THEN "spread" ELSE "end"

\* Mutant: skip is not advanced.
SearchAgain ==
  /\ ~crashed /\ at \in {"direct", "spread"} /\ ~NullFollowed
  /\ \E a \in Answers(Spec0.name, Spec0.config, Shown, call.mem) :
       /\ call' = [call EXCEPT !.answer = a, !.mem = MemAfter(Spec0.name, Shown, @)]
       /\ at' = AfterSearch(a, call.checked)
  /\ UNCHANGED <<store, ops, allocs, crashed, result>>

Search ==
  /\ ~crashed
  /\ at \in {"direct", "spread"}
  /\ ~NullFollowed
  /\ LET checked == IF at = "spread" THEN call.checked + 1 ELSE call.checked
     IN  \E a \in Answers(Spec0.name, Spec0.config, Shown, call.mem) :
           /\ call' = [call EXCEPT !.answer = a, !.checked = checked,
                                   !.mem = MemAfter(Spec0.name, Shown, @)]
           /\ at' = AfterSearch(a, checked)
  /\ UNCHANGED <<store, ops, allocs, crashed, result>>

SearchEnd ==
  /\ ~crashed
  /\ at = "end"
  /\ ~NullFollowed
  /\ \E a \in Answers(Spec0.name, Spec0.config, None, call.mem) :
       call' = [call EXCEPT !.answer = a, !.told = TRUE]
  /\ at' = "cleanup"
  /\ UNCHANGED <<store, ops, allocs, crashed, result>>

SearchCrash ==
  /\ ~crashed
  /\ at \in {"direct", "spread", "end"}
  /\ NullFollowed
  /\ crashed' = TRUE
  /\ UNCHANGED <<store, ops, at, call, allocs, result>>

\* m_cleanup frees what m_prep made, and the match returns: each of the three
\* ways out calls it by itself.
Leaving == ~crashed /\ at = "cleanup"

Return(verdict) ==
  /\ result' = verdict
  /\ call' = [call EXCEPT !.mem = None]
  /\ at' = "idle"
  /\ UNCHANGED <<store, ops, crashed>>

CallCleanup == allocs' = allocs - IF HasCleanup(Spec0.name) THEN 1 ELSE 0

\* Mutant: the early return does without m_cleanup.
ReturnMissingAtOnce ==
  /\ Leaving /\ ~Direct /\ ~Spec0.dotted
  /\ Return(FALSE)
  /\ UNCHANGED allocs

\* A plain path that is not there.
ReturnMissing ==
  /\ Leaving /\ ~Direct /\ ~Spec0.dotted
  /\ Return(FALSE)
  /\ CallCleanup

\* A dotted path that had to be spread out, whether it led to values or not.
ReturnSpread ==
  /\ Leaving /\ ~Direct /\ Spec0.dotted
  /\ Return(call.checked > 0 /\ call.answer = "found")
  /\ CallCleanup

\* A value at the path itself.
ReturnDirect ==
  /\ Leaving /\ Direct
  /\ Return(call.answer = "found")
  /\ CallCleanup

Cleanup == ReturnMissing \/ ReturnSpread \/ ReturnDirect
-----------------------------------------------------------------------------
\* _mongoc_matcher_op_module_destroy.
Destroy(o) ==
  /\ Free
  /\ ops[o].phase = "compiled"
  /\ ops[o].spec.name # None
  /\ ops' = [ops EXCEPT ![o].phase = "destroyed",
                        ![o].life  = IF Entry(ops[o].spec.name) THEN "gone" ELSE @,
                        ![o].data  = IF Entry(ops[o].spec.name) /\ @ = "held"
                                     THEN "freed" ELSE @]
  /\ UNCHANGED <<store, at, call, allocs, crashed, result>>

DestroyNameless(o) ==
  /\ Free
  /\ ops[o].phase = "compiled"
  /\ ops[o].spec.name = None
  /\ crashed' = TRUE
  /\ call' = [NoCall EXCEPT !.op = o]
  /\ UNCHANGED <<store, ops, at, allocs, result>>

MatchStep == Search \/ SearchEnd \/ SearchCrash \/ Cleanup

\* The process is gone.
Stay == crashed /\ UNCHANGED vars

Next ==
  \/ Startup \/ Shutdown
  \/ \E o \in Op :
       \/ \E s \in Specs : Compile(o, s)
       \/ \E d \in Docs : MatchUnregistered(o, d) \/ MatchNameless(o, d) \/ Prep(o, d)
       \/ Destroy(o) \/ DestroyNameless(o)
  \/ MatchStep
  \/ Stay

Spec == Init /\ [][Next]_vars

\* The thread that runs a match goes on running it.
FairSpec == Spec /\ WF_vars(MatchStep)
=============================================================================
