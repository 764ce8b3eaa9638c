--------------------------- MODULE ModulePromises ---------------------------
(***************************************************************************)
(* What ModuleOps is to guarantee: the callback protocol of ModuleProtocol,*)
(* the meaning of the answer of a match, the life of the memory a module   *)
(* holds, and what the repository says of all this.                        *)
(***************************************************************************)
EXTENDS ModuleOps

Matching == at # "idle"

\* Every $module of the queries names a module or not, and has a config.
Complete == \A s \in Specs : s.name # None /\ s.config # None /\ s.config.good

P == INSTANCE ModuleProtocol WITH
       life    <- [o \in Op |-> ops[o].life],
       busy    <- IF Matching THEN call.op ELSE None,
       asked   <- Matching /\ (call.checked > 0 \/ (Direct /\ at # "direct")),
       told    <- Matching /\ call.told,
       answer  <- IF Matching THEN call.answer ELSE "continue",
       verdict <- result

\* Called in the order the API documents and with complete queries, every
\* callback of every module comes when its author was promised it, and a match
\* returns TRUE exactly when the module said FOUND of a value
\* (_mongoc_matcher_op_module_new, _match, _destroy against _module_storage).
Protocol == P!Spec

\* The values a match shows a module unless it answers early.
Values(spec, doc) ==
  IF doc.direct # None THEN <<doc.direct>> ELSE IF spec.dotted THEN doc.spread ELSE << >>

Added(v) == IF Summed(v) THEN v.n ELSE 0

\* The sum of the first n values, for every n.
Totals(vs) ==
  LET sum[n \in 0 .. Len(vs)] == IF n = 0 THEN 0 ELSE sum[n - 1] + Added(vs[n])
  IN  sum

Total(vs) == Totals(vs)[Len(vs)]

Verdicts(spec, doc) ==
  LET vs == Values(spec, doc)
  IN  CASE spec.name = "between" ->
             {\E i \in DOMAIN vs : Numeric(vs[i]) /\ vs[i].n \in spec.config.accepts}
        [] spec.name = "sum" ->
             {vs # << >> /\ Wrap(Total(vs)) \in spec.config.accepts}
        [] OTHER -> {FALSE, vs # << >>}

\* between matches when one value is within its limits, sum when the total of
\* all of them compares as asked, sample and dukjs only where there is a value,
\* and a module that is not registered never (the search callbacks as
\* _mongoc_matcher_op_module_match drives them).
AnswerMeaning ==
  ~Matching /\ ~crashed /\ call.op # None =>
    result \in IF call.entry THEN Verdicts(ops[call.op].spec, call.doc) ELSE {FALSE}

\* While a match runs, the memory that m_prep made for it is there and nothing
\* else is; between two matches none is left.  Whatever the matches before it
\* found and by which of its three returns _mongoc_matcher_op_module_match was
\* left, no block leaks, and none is freed twice.
UsermemFreed == allocs = IF Matching /\ HasPrep(Spec0.name) THEN 1 ELSE 0

\* Only a misuse crashes the program: a query without a name or a config, a
\* config that between rejects, or a matcher compiled before the startup.
OnlyMisuseCrashes ==
  crashed =>
    LET op == ops[call.op]
    IN  op.spec.name = None \/ op.life = "unborn" \/ ~op.spec.config.good

\* Complete queries between one startup and one shutdown never crash.
NeverCrashes == ~crashed

\* A match that started comes back, the module having answered or the values
\* having run out (the loop of _mongoc_matcher_op_module_match).
MatchEnds == Matching ~> (~Matching \/ crashed)
-----------------------------------------------------------------------------
(***************************************************************************)
(* What the repository says and the code does not do.                      *)
(***************************************************************************)
\* README.md, of a program that did not call startup when it started: "the
\* matcher will compile, but the comparison will quietly return false".
QuietWithoutStartup ==
  crashed => ops[call.op].life # "unborn"
=============================================================================
