---------------------------- MODULE OptionalOps ----------------------------
(***************************************************************************)
(* The leaf operators of optional builds, from the query to the destroy of *)
(* the matcher: $text, $inIPrange, $inIPrangeset, the ip module and        *)
(* $sealOpen.  Each has the same loop over the values of a path, written   *)
(* out once more, around what TextOps, IpOps and SealOps ask of a value.   *)
(*                                                                         *)
(* A document is what the path finds in it, as in LeafMatch.               *)
(***************************************************************************)
EXTENDS TextOps, IpOps, SealOps

CONSTANTS Specs, \* the operators of the queries
          Docs,  \* the documents to ask of each operator, by its name
          None   \* no value

VARIABLES spec,    \* the operator in the query
          doc,     \* the document
          at,      \* where the program is
          op,      \* what was made of the operator
          checked, \* how many values the loop has seen
          result   \* found_one, and what the match returns

vars == <<spec, doc, at, op, checked, result>>

IsIp == spec.name \in {"$inIPrange", "$inIPrangeset", "ip"}

Build(s) ==
  CASE s.name = "$text"         -> BuildText(s.entries)
    [] s.name = "$inIPrange"    -> RangeOp(s)
    [] s.name = "$inIPrangeset" -> RangeSetOp(s)
    [] s.name = "ip"            -> ModuleOp(s)
    [] s.name = "$sealOpen"     -> BuildSeal(s.entries)

\* What one value may come to.  Arrays are searched up to the first yes, at any
\* depth, but not for boxes.
RECURSIVE Outcomes(_)
Outcomes(v) ==
  LET orElse(outs, w) == (outs \ {"no"}) \cup IF "no" \in outs THEN Outcomes(w) ELSE {}
  IN  CASE spec.name = "$sealOpen"                     -> SealOutcomes(op, v)
        [] v.type = "array" /\ spec.name # "$sealOpen" -> FoldLeft(orElse, {"no"}, v.items)
        [] v.type = "text" /\ spec.name = "$text"      -> TextOutcomes(op, v)
        [] v.type = "address" /\ IsIp                  -> IpOutcomes(op, v)
        [] OTHER                                       -> {"no"}

Init ==
  /\ spec \in Specs
  /\ doc \in Docs[spec.name]
  /\ at = "new" /\ op = Null /\ checked = 0 /\ result = FALSE

\* The constructor.  _mongoc_matcher_parse_compare asserts that it made an op.
Compile ==
  /\ at = "new"
  /\ op' = Build(spec)
  /\ at' = CASE op'.made = "op"                 -> "compiled"
             [] op'.made \in {"null", "assert"} -> "assert"
             [] op'.made = "crash"              -> "crash"
  /\ UNCHANGED <<spec, doc, checked, result>>

MatchDirect ==
  /\ at = "compiled" /\ doc.direct # None
  /\ \E out \in Outcomes(doc.direct) :
       /\ at' = IF out = "crash" THEN "crash" ELSE "answered"
       /\ result' = (out = "yes")
  /\ UNCHANGED <<spec, doc, op, checked>>

MatchMissing ==
  /\ at = "compiled" /\ doc.direct = None /\ ~spec.dotted
  /\ at' = "answered" /\ result' = FALSE
  /\ UNCHANGED <<spec, doc, op, checked>>

EnterLoop ==
  /\ at = "compiled" /\ doc.direct = None /\ spec.dotted
  /\ at' = "loop"
  /\ UNCHANGED <<spec, doc, op, checked, result>>

\* The loop around $inIPrangeset asks nothing.
Asked(v) == IF spec.name = "$inIPrangeset" THEN {"no"} ELSE Outcomes(v)

\* Mutant: the last value decides.
NextValueLast ==
  /\ at = "loop" /\ checked < Len(doc.spread)
  /\ \E out \in Asked(doc.spread[checked + 1]) :
       /\ at' = IF out = "crash" THEN "crash" ELSE "loop"
       /\ result' = (out = "yes")
  /\ checked' = checked + 1
  /\ UNCHANGED <<spec, doc, op>>

NextValue ==
  /\ at = "loop" /\ ~result /\ checked < Len(doc.spread)
  /\ \E out \in Asked(doc.spread[checked + 1]) :
       /\ at' = IF out = "crash" THEN "crash" ELSE "loop"
       /\ result' = (out = "yes")
  /\ checked' = checked + 1
  /\ UNCHANGED <<spec, doc, op>>

EndLoop ==
  /\ at = "loop" /\ (result \/ checked = Len(doc.spread))
  /\ at' = "answered"
  /\ UNCHANGED <<spec, doc, op, checked, result>>

\* mongoc_matcher_destroy, with or without a match before it.  The size of a
\* $text is destroyed although it may be NULL, which is asserted.
Destroy ==
  /\ at \in {"compiled", "answered"}
  /\ IF spec.name = "$text" /\ op.size = Null
     THEN at' = "assert" /\ UNCHANGED op
     ELSE /\ at' = "destroyed"
          /\ op' = [op EXCEPT !.lost = IF spec.name = "$text" THEN TextLeft(op) ELSE @]
  /\ UNCHANGED <<spec, doc, checked, result>>

Stay == at \in {"assert", "crash", "destroyed"} /\ UNCHANGED vars

Next == \/ Compile \/ MatchDirect \/ MatchMissing \/ EnterLoop \/ NextValue \/ EndLoop
        \/ Destroy \/ Stay

Spec == Init /\ [][Next]_vars
-----------------------------------------------------------------------------
(***************************************************************************)
(* What the operators mean: stated on the spec and the document.           *)
(***************************************************************************)
RECURSIVE Leaves(_)
Leaves(v) == IF v.type = "array" THEN UNION {Leaves(v.items[i]) : i \in DOMAIN v.items} ELSE {v}

\* The values that the path leads to, and the ones in their arrays.
Values ==
  IF doc.direct # None THEN {doc.direct}
  ELSE IF spec.dotted THEN ToSet(doc.spread) ELSE {}

Found == UNION {Leaves(v) : v \in Values}

Answered == at = "answered"

\* What an entry of the spec says, wherever it comes.
Keys              == {spec.entries[i].key : i \in DOMAIN spec.entries}
EachOnce          == \A i, j \in DOMAIN spec.entries :
                       spec.entries[i].key = spec.entries[j].key => i = j
Entry(key)        == (CHOOSE i \in DOMAIN spec.entries : spec.entries[i].key = key)
Given(key)        == spec.entries[Entry(key)].val
Setting(key, ok, default) == IF key \in Keys /\ Given(key) \in ok THEN Given(key) ELSE default

Searching == "$search" \in Keys /\ Given("$search").type = "text"

\* A $text counts the words of a text that the search finds, or that the
\* dictionary does (or does not) have, and matches when some text on the path
\* has as many as the size asks for.  The order of the entries says nothing, if
\* not both a search and an opcode are given: the stemmer is made "after all the
\* configs are found".  A percentage is rounded down; a whole one may be taken for
\* one less where its share of the words is no double, which leaves the quarters.
WordsThatCount(v) ==
  LET stop     == Setting("$stopWord", Stops, "default")
      language == Setting("$language", Accepted, "english")
      opcode   == OpcodeNames[Setting("$opcode", DOMAIN OpcodeNames, "$wordcount")]
      words    == v.tokens[stop]
      sought(w) == \E i \in DOMAIN Given("$search").tokens[stop] :
                     Stem[<<language, w>>] = Stem[<<language, Given("$search").tokens[stop][i]>>]
      known(w)  == <<Given("$dictionary"), w>> \in Spelled
      counts(w) == IF Searching THEN sought(w)
                   ELSE (opcode = "wordcount" \/ known(w) = (opcode # "error"))
      number    == Cardinality({i \in DOMAIN words : counts(words[i])})
      exact     == (100 * number) \div Len(words)
  IN  IF opcode # "percentage" THEN {number}
      ELSE IF (100 * number) % Len(words) = 0 /\ exact % 25 # 0 THEN {exact - 1, exact}
      ELSE {exact}

Texts      == {v \in Found : v.type = "text"}
Percentage == "$opcode" \in Keys /\ Given("$opcode") = "$spellingpercentage"

TextMeaning ==
  Answered /\ spec.name = "$text" /\ EachOnce /\ ~(Searching /\ "$opcode" \in Keys)
    /\ (Percentage => \A v \in Texts : \A stop \in Stops : v.tokens[stop] # << >>)
  => /\ result =>
          \E v \in Texts : \E n \in WordsThatCount(v) : LengthMatch(Given("$size"), n)
     /\ ~result =>
          \A v \in Texts : \E n \in WordsThatCount(v) : ~LengthMatch(Given("$size"), n)

\* An address on the path is in one of the ranges: the three implementations
\* agree, for ranges that are well formed and of one subtype, and a set that is
\* not asked of a path through arrays.
Pairs  == IF spec.name = "$inIPrange" \/ IsBinary(spec.items[1]) THEN {spec.items}
          ELSE {spec.items[i].items : i \in DOMAIN spec.items}
WellFormed ==
  /\ spec.items # << >>
  /\ \/ spec.name # "$inIPrangeset" /\ \A i \in DOMAIN spec.items : IsBinary(spec.items[i])
     \/ spec.name # "$inIPrange" /\ \A i \in DOMAIN spec.items : spec.items[i].type = "array"
  /\ \A p \in Pairs : Len(p) = 2 /\ \A i \in 1 .. 2 : IsBinary(p[i]) /\ p[i].full
  /\ \A p, q \in Pairs : \A i, j \in 1 .. 2 : p[i].subtype = q[j].subtype

RangeMeaning ==
  Answered /\ IsIp /\ WellFormed /\ (spec.name = "$inIPrangeset" => doc.direct # None) =>
    (result <=> \E v \in Found : \E p \in Pairs :
                  /\ v.type = "address" /\ v.full /\ v.subtype = p[1].subtype
                  /\ \A b \in p[2].bits : b \in v.bits <=> b \in p[1].bits)

\* A box on the path is sealed for the owner of both keys and holds a document
\* that the query matches.  A key with a zero byte opens none.
KeyOf(name) == LET es == Given("$keys").entries
               IN  es[CHOOSE i \in DOMAIN es : es[i].key = name].val
Opens(v)    == /\ v.type = "box"
               /\ \A name \in {"pk", "sk"} : KeyOf(name).owner = v.owner /\ ~KeyOf(name).zero

SealMeaning ==
  Answered /\ spec.name = "$sealOpen" /\ EachOnce =>
    (result <=> \E v \in Values : Opens(v) /\ v.content \in Given("$query").accepts)

\* Nothing else stops the program: a $text without a size, with an opcode for
\* which there is no dictionary or with a language that is accepted and has no
\* stemmer, ranges that are none, boxes that are none and keys or queries left out.
SomeRange == \E i \in DOMAIN spec.items :
               /\ spec.items[i].type = "array"
               /\ BuildRange(spec.items[i].items).made = "op"

StopsOnlyIf ==
  at \in {"assert", "crash"} =>
    \/ /\ spec.name = "$text"
       /\ \/ "$size" \notin Keys
          \/ /\ \E i \in DOMAIN spec.entries : spec.entries[i].key = "$language"
                                               /\ spec.entries[i].val \in Accepted \ Stemmers
             /\ \E i \in DOMAIN spec.entries : spec.entries[i].key = "$search"
          \/ /\ op.opcode \in Spelling
             /\ \A i \in DOMAIN spec.entries : spec.entries[i].key = "$dictionary" =>
                                                 spec.entries[i].val \notin Installed
    \/ spec.name = "$inIPrange" /\ (Len(spec.items) # 2 \/ ~WellFormed)
    \/ /\ spec.name = "$inIPrangeset"
       /\ ~SomeRange \/ \E i \in DOMAIN spec.items :
                           spec.items[i].type = "array" /\ \E j \in DOMAIN spec.items[i].items :
                             LET v == spec.items[i].items[j]
                             IN  ~IsBinary(v) \/ v.subtype # spec.items[i].items[1].subtype
    \/ spec.name = "ip" /\ ~WellFormed
    \/ /\ spec.name = "$sealOpen"
       /\ \/ ~({"$keys", "$query"} \subseteq Keys) \/ Given("$query").type # "query"
          \/ \E name \in {"pk", "sk"} : \A i \in DOMAIN Given("$keys").entries :
               Given("$keys").entries[i].key = name => Given("$keys").entries[i].val.type # "key"
          \/ \E v \in Values : v.type = "address" \/ (v.type = "box" /\ v.content = "empty")

\* After the destroy nothing is left, if no entry was given twice, no dictionary
\* was loaded for nothing and the ip module did not refuse its ranges.
NothingLost ==
  at = "destroyed" =>
    \/ op.lost = 0
    \/ /\ spec.name \in {"$text", "$sealOpen"} /\ ~EachOnce
    \/ /\ spec.name = "$text" /\ "$dictionary" \in Keys
       /\ op.opcode \notin Spelling
    \/ spec.name = "ip" /\ ~WellFormed
=============================================================================
