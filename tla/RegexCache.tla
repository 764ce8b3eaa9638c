------------------------------ MODULE RegexCache ------------------------------
(***************************************************************************)
(* The process-wide cache of compiled regular expressions                  *)
(* (global_compiled_regexes): filled by _mongoc_matcher_iter_eq_match, the *)
(* key being the pattern alone, and emptied by regex_destroy.              *)
(*                                                                         *)
(* PCRE is external: a pattern compiles or not, and compiled with or       *)
(* without PCRE_CASELESS it accepts a set of subjects.  A regex of a query *)
(* is its pattern and whether its options begin with "i", the only thing   *)
(* the code looks at there.                                                *)
(***************************************************************************)
EXTENDS Naturals, Sequences

CONSTANTS Pattern,   \* the patterns of the program's queries
          Subject,   \* the strings they are compared with
          Valid,     \* the patterns PCRE compiles
          Accepts,   \* what each accepts without and with PCRE_CASELESS
          Regex      \* the regexes of the queries

Option == {"exact", "caseless"}

ASSUME ValidAssumption   == Valid \subseteq Pattern
ASSUME AcceptsAssumption == Accepts \in [Pattern \X Option -> SUBSET Subject]
ASSUME RegexAssumption   == Regex \subseteq [pattern : Pattern, option : Option]

VARIABLES cache,    \* the entries of the hash, in the order they were added
          asked,    \* the last comparison
          answer    \* and what it returned

vars == <<cache, asked, answer>>

\* re is NULL for a pattern that does not compile, or the options it has.
Entry == [pattern : Pattern, re : {"null"} \cup Option]

TypeOK ==
  /\ cache \in Seq(Entry)
  /\ asked \in {<< >>} \cup (Regex \X Subject)
  /\ answer \in {"yes", "no", "nomem"}

Init ==
  /\ cache = << >>
  /\ asked = << >>
  /\ answer = "no"
-----------------------------------------------------------------------------
\* HASH_FIND_STR.
Hits(p) == {i \in DOMAIN cache : cache[i].pattern = p}

\* Mutant: the option is not passed on.
CompiledExact(r) == [pattern |-> r.pattern,
                     re |-> IF r.pattern \in Valid THEN "exact" ELSE "null"]
\* pcre_compile.
Compiled(r) == [pattern |-> r.pattern,
                re |-> IF r.pattern \in Valid THEN r.option ELSE "null"]

\* pcre_exec, or FALSE where there is nothing to execute.
Executes(e, s) ==
  IF e.re # "null" /\ s \in Accepts[<<e.pattern, e.re>>] THEN "yes" ELSE "no"

CompareHit(r, s) ==
  /\ \E i \in Hits(r.pattern) : answer' = Executes(cache[i], s)
  /\ asked' = <<r, s>>
  /\ UNCHANGED cache

\* Even if the compile fails it is cached.
CacheWith(r) == Append(cache, Compiled(r))

CompareMiss(r, s) ==
  /\ Hits(r.pattern) = {}
  /\ cache' = CacheWith(r)
  /\ answer' = Executes(Compiled(r), s)
  /\ asked' = <<r, s>>

\* malloc of the entry fails: the comparison returns FALSE.
CompareNoMemory(r, s) ==
  /\ Hits(r.pattern) = {}
  /\ answer' = "nomem"
  /\ asked' = <<r, s>>
  /\ UNCHANGED cache

RegexDestroy ==
  /\ cache' = << >>
  /\ UNCHANGED <<asked, answer>>

Next ==
  \/ \E r \in Regex, s \in Subject :
       CompareHit(r, s) \/ CompareMiss(r, s) \/ CompareNoMemory(r, s)
  \/ RegexDestroy

Spec == Init /\ [][Next]_vars
-----------------------------------------------------------------------------
\* What a regex of a query accepts by itself.
Meaning ==
  [r \in Regex |-> IF r.pattern \in Valid THEN Accepts[<<r.pattern, r.option>>] ELSE {}]

M == INSTANCE RegexMatch

\* The cache cannot be told from compiling every regex afresh
\* (_mongoc_matcher_iter_eq_match, BSON_TYPE_REGEX against BSON_TYPE_UTF8).
Stateless == M!Spec

\* A pattern is compiled once between two regex_destroy: the hash has one
\* entry of it, whether it compiled or not.
OneEntry == \A i, j \in DOMAIN cache : cache[i].pattern = cache[j].pattern => i = j

\* No pattern is used both with and without the option.
OneOption == \A r, q \in Regex : r.pattern = q.pattern => r = q
=============================================================================
