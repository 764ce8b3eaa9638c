------------------------------ MODULE Projection ------------------------------
(***************************************************************************)
(* $project, $redact and $unwind: lib/mongoc-projection.c,                 *)
(* lib/mongoc-redaction.c and lib/mongoc-matcher-op-unwind.c, with         *)
(* project_bson of lib/bsoncompare.c, which starts the first two.  A       *)
(* behaviour parses one command, projects (or matches) one document with   *)
(* it and destroys the ops.                                                *)
(*                                                                         *)
(* Documents and paths are those of PathSearch, with two more things told  *)
(* apart: the scalars, and the values of a type that projection leaves out *)
(* (type "null").  The names of the output are paths too.                  *)
(***************************************************************************)
EXTENDS PathSearch, FiniteSets, SequencesExt

CONSTANTS Docs,       \* the documents, as the items at their top
          Commands,   \* [name, parts]: the command and the parts of its value
          ValueDepth  \* how deep each value nests

\* A name of the output, unlike a path, has no key that begins with a dollar;
\* one of more than one key has a dot, and stands as "dotted" in a document.
Name   == Seq(Keys) \ {<< >>}
Entry  == [key : DottedPath, type : {"flag", "other"}]
            \cup [key : DottedPath, type : {"utf8"}, as : Name]
            \cup [key : Name, type : {"document"}, found : Seq(DottedPath)]
Clause == [path : DottedPath, wants : SUBSET Value]
Part   == [name : {"$project"}, entries : Seq(Entry)]
            \cup [name : {"$query"}, query : SUBSET Clause, refused : {FALSE}]
            \cup [name : {"$query"}, query : {{}}, refused : {TRUE}]
            \cup [name : {"other"}]

ASSUME KeysAssumption  == "dotted" \in Keys /\ "$any" \notin Keys
ASSUME DocsAssumption  == Docs \subseteq Items
ASSUME DepthAssumption ==
  /\ ValueDepth \in [Value -> Nat]
  /\ \A v \in Value : Container(v) =>
       \A i \in DOMAIN v.items : ValueDepth[v.items[i].val] < ValueDepth[v]
ASSUME CommandsAssumption ==
  \A c \in Commands :
    /\ c.name \in {"$project", "$redact", "$unwind"}
    /\ c.parts \in Seq(Part)
    /\ c.name # "$unwind" => Len(c.parts) = 1 /\ c.parts[1].name = "$project"

VARIABLES doc,       \* the document
          command,   \* the command
          ops,       \* the chain of ops, each [path, as, list], of strings
          strings,   \* the strings that the parser allocated
          query,     \* the query of an $unwind
          cur,       \* the op that is projected, or the field or the element
          todo,      \* the paths of its $foundin that are left
          checked, skip, packed, \* the counters of execute
          arrlist,   \* the array that is filled, of [key, val]
          projected, \* the output so far, of [name, items]
          result,    \* the answer of an $unwind
          freed,     \* the strings that destroy freed, in order
          at         \* where the behaviour is

parsed   == <<doc, command, query, strings>>
counters == <<checked, skip, packed>>
vars     == <<parsed, ops, cur, todo, counters, arrlist, projected, result, freed, at>>
-----------------------------------------------------------------------------
(***************************************************************************)
(* The parsers.  A part of an $unwind is a $project, a $query or something *)
(* else; a $project and a $redact have one part.  The string pointers of   *)
(* an op are told apart by the part, the op and the field they belong to.  *)
(***************************************************************************)
Str(part, op, nth, text) == [part |-> part, op |-> op, nth |-> nth, text |-> text]
Null                     == Str(0, 0, 0, << >>)
NoQuery                  == {}

\* The entries up to the first of a type that the parser does not know.
Kept(entries) ==
  LET other == {i \in DOMAIN entries : entries[i].type = "other"}
  IN  SubSeq(entries, 1, IF other = {} THEN Len(entries) ELSE FirstOf(other) - 1)

OpOf(part, i, e) ==
  CASE e.type = "flag"     -> [path |-> Str(part, i, 1, e.key), as |-> Null, list |-> << >>]
    [] e.type = "utf8"     -> [path |-> Str(part, i, 1, e.key), as |-> Str(part, i, 2, e.as),
                               list |-> << >>]
    [] e.type = "document" -> [path |-> Null, as |-> Str(part, i, 2, e.key),
                               list |-> [k \in DOMAIN e.found |-> Str(part, i, 2 + k, e.found[k])]]

ParseProjection(part, entries) ==
  [i \in DOMAIN Kept(entries) |-> OpOf(part, i, Kept(entries)[i])]

\* The paths again, as the list of the first op.
ParseRedaction(entries) ==
  LET chain == ParseProjection(1, entries)
  IN  [i \in DOMAIN chain |->
         IF i = 1
         THEN [chain[1] EXCEPT !.list =
                 [k \in DOMAIN chain |-> Str(2, 1, 2 + k, chain[k].path.text)]]
         ELSE chain[i]]

StringsOf(chain) ==
  (UNION {{chain[i].path, chain[i].as} \cup Range(chain[i].list) : i \in DOMAIN chain}) \ {Null}

PartsNamed(name) == {i \in DOMAIN command.parts : command.parts[i].name = name}

\* The query of an $unwind: of its last $query part, one without a key leaves what
\* an earlier one gave, and one that is refused gives NULL.
QueryOf(c) ==
  LET read == {i \in DOMAIN c.parts : /\ c.parts[i].name = "$query"
                                      /\ c.parts[i].query # NoQuery \/ c.parts[i].refused}
  IN  IF read = {} THEN NoQuery ELSE c.parts[Max(read)].query

Crash(how) == at' = how /\ UNCHANGED <<doc, command, query, ops, strings>>

Quiet == UNCHANGED <<doc, command, cur, todo, counters, arrlist, projected, result, freed>>

ParseProject ==
  /\ at = "parse" /\ command.name = "$project"
  /\ ops' = ParseProjection(1, command.parts[1].entries)
  /\ strings' = StringsOf(ops')
  /\ at' = IF ops' = << >> THEN "refused" ELSE "execute"
  /\ Quiet /\ UNCHANGED query

\* Without an op, or with one that has no path, a null pointer is followed.
ParseRedact ==
  /\ at = "parse" /\ command.name = "$redact"
  /\ LET chain == ParseProjection(1, command.parts[1].entries)
     IN  IF chain = << >> \/ \E i \in DOMAIN chain : chain[i].path = Null
         THEN Crash("crash")
         ELSE /\ ops' = ParseRedaction(command.parts[1].entries)
              /\ strings' = StringsOf(ops')
              /\ at' = "redact"
              /\ UNCHANGED <<doc, command, query>>
  /\ Quiet

\* Mutant: the flags of the parts are assigned, not gathered.
ParseUnwindLastFlag ==
  /\ at = "parse" /\ command.name = "$unwind"
  /\ LET projects == PartsNamed("$project")
         queries  == PartsNamed("$query")
         chain(i) == ParseProjection(i, command.parts[i].entries)
     IN  IF projects = {} \/ queries = {} \/ Max(projects) > Max(queries) THEN Crash("assert")
         ELSE IF chain(Max(projects)) = << >> THEN Crash("crash")
         ELSE /\ ops' = chain(Max(projects))
              /\ strings' = UNION {StringsOf(chain(i)) : i \in projects}
              /\ query' = QueryOf(command)
              /\ at' = "execute"
              /\ UNCHANGED <<doc, command>>
  /\ Quiet

\* The last $project counts, and what an earlier part allocated is lost.
\* One that is missing is destroyed as NULL, which asserts; a $project without
\* an op is followed as a null pointer.
ParseUnwind ==
  /\ at = "parse" /\ command.name = "$unwind"
  /\ LET projects == PartsNamed("$project")
         queries  == PartsNamed("$query")
         chain(i) == ParseProjection(i, command.parts[i].entries)
     IN  IF projects = {} \/ queries = {} THEN Crash("assert")
         ELSE IF chain(Max(projects)) = << >> THEN Crash("crash")
         ELSE /\ ops' = chain(Max(projects))
              /\ strings' = UNION {StringsOf(chain(i)) : i \in projects}
              /\ query' = QueryOf(command)
              /\ at' = "execute"
              /\ UNCHANGED <<doc, command>>
  /\ Quiet
-----------------------------------------------------------------------------
(***************************************************************************)
(* What a value adds to an array from index i on, and the number that      *)
(* value_into_array reports for it, which for an array is its length.      *)
(***************************************************************************)
Added(v) ==
  CASE v.type = "null"  -> 0
    [] v.type = "array" -> Len(v.items)
    [] OTHER            -> 1

\* The index that each of the items of an array starts at.
Starts(items, i) ==
  LET from[k \in DOMAIN items] ==
        IF k = 1 THEN i ELSE from[k - 1] + Added(items[k - 1].val)
  IN  from

Into[v \in Value] ==
  [i \in Nat |->
     CASE v.type = "null"  -> << >>
       [] v.type = "array" -> FlattenSeq([k \in DOMAIN v.items |->
                                            Into[v.items[k].val][Starts(v.items, i)[k]]])
       [] OTHER            -> <<[key |-> i, val |-> v]>>]

\* The value at a place.
ValueAt(items, place) ==
  LET val[k \in 1 .. Len(place)] ==
        IF k = 1 THEN items[place[1]].val ELSE val[k - 1].items[place[k]].val
  IN  val[Len(place)]
-----------------------------------------------------------------------------
(***************************************************************************)
(* mongoc_matcher_projection_execute: an array for every op, filled from   *)
(* its path or from the paths of its $foundin in turn.  While one of those *)
(* is looked for, the op borrows its string.                               *)
(***************************************************************************)
Executing == UNCHANGED <<parsed, result, freed>>

StartOp ==
  /\ at = "execute"
  /\ checked' = 0 /\ skip' = 0 /\ packed' = 0
  /\ arrlist' = << >>
  /\ todo' = ops[cur].list
  /\ at' = IF ops[cur].path # Null THEN "find" ELSE "list"
  /\ Executing /\ UNCHANGED <<ops, cur, projected>>

\* Mutant: the list is walked from its end.
TakePathBackwards ==
  /\ at = "list" /\ todo # << >>
  /\ ops' = [ops EXCEPT ![cur].path = Last(todo)]
  /\ todo' = Front(todo)
  /\ at' = "find"
  /\ Executing /\ UNCHANGED <<cur, counters, arrlist, projected>>

TakePath ==
  /\ at = "list" /\ todo # << >>
  /\ ops' = [ops EXCEPT ![cur].path = Head(todo)]
  /\ todo' = Tail(todo)
  /\ at' = "find"
  /\ Executing /\ UNCHANGED <<cur, counters, arrlist, projected>>

\* Mutant: the op keeps the last string that it borrowed.
EndListKeepsPath ==
  /\ at = "list" /\ todo = << >>
  /\ at' = "end"
  /\ Executing /\ UNCHANGED <<ops, cur, todo, counters, arrlist, projected>>

EndList ==
  /\ at = "list" /\ todo = << >>
  /\ ops' = [ops EXCEPT ![cur].path = Null]
  /\ at' = "end"
  /\ Executing /\ UNCHANGED <<cur, todo, counters, arrlist, projected>>

\* execute_find: a path without a dot names a field; one with a dot is tried
\* as it stands, and if there is no such value, through the arrays.
Path     == ops[cur].path.text
Direct   == FindDirect[Path][doc]
NextOne  == FindDescendants[Path][doc][skip]
Leave    == at' = IF ops[cur].list = << >> THEN "end" ELSE "list"
Finding  == at = "find" /\ Executing /\ UNCHANGED <<ops, cur, todo, projected>>

FindPlain ==
  /\ Finding /\ Len(Path) = 1
  /\ IF Direct = << >> THEN UNCHANGED <<counters, arrlist>>
     ELSE LET v == ValueAt(doc, Direct)
          IN  /\ arrlist' = arrlist \o Into[v][checked]
              /\ checked' = checked + Added(v)
              /\ packed' = packed + Added(v)
              /\ skip' = skip
  /\ Leave

FindAsItStands ==
  /\ Finding /\ Len(Path) > 1 /\ Direct # << >>
  /\ arrlist' = arrlist \o Into[ValueAt(doc, Direct)][checked]
  /\ UNCHANGED counters
  /\ Leave

\* Mutant: skip counts what was added instead of what was checked.
FindNextSkipsPacked ==
  /\ Finding /\ Len(Path) > 1 /\ Direct = << >> /\ NextOne.found
  /\ LET v == ValueAt(doc, NextOne.place)
     IN  /\ arrlist' = arrlist \o Into[v][packed]
         /\ packed' = packed + Added(v)
  /\ checked' = checked + 1
  /\ skip' = packed'
  /\ UNCHANGED at

FindNext ==
  /\ Finding /\ Len(Path) > 1 /\ Direct = << >> /\ NextOne.found
  /\ LET v == ValueAt(doc, NextOne.place)
     IN  /\ arrlist' = arrlist \o Into[v][packed]
         /\ packed' = packed + Added(v)
  /\ checked' = checked + 1
  /\ skip' = checked'
  /\ UNCHANGED at

FindNoMore ==
  /\ Finding /\ Len(Path) > 1 /\ Direct = << >> /\ ~NextOne.found
  /\ skip' = NextOne.skip
  /\ UNCHANGED <<checked, packed, arrlist>>
  /\ Leave

NameOf(op) == IF op.as = Null THEN op.path.text ELSE op.as.text

EndArray ==
  /\ at = "end"
  /\ projected' = Append(projected, [name |-> NameOf(ops[cur]), items |-> arrlist])
  /\ cur' = IF cur < Len(ops) THEN cur + 1 ELSE 1
  /\ at' = IF cur < Len(ops) THEN "execute"
           ELSE IF command.name = "$unwind" THEN "match" ELSE "done"
  /\ Executing /\ UNCHANGED <<ops, todo, counters, arrlist>>
-----------------------------------------------------------------------------
(***************************************************************************)
(* mongoc_matcher_redaction_execute: every field at the top that is not    *)
(* named, as an array of its own.                                          *)
(***************************************************************************)
Redacted(key) == \E k \in DOMAIN ops[1].list : ops[1].list[k].text = <<key>>

\* Mutant: only the name of the first op is looked up.
RedactFieldFirstOnly ==
  /\ at = "redact" /\ cur <= Len(doc)
  /\ projected' = IF ops[1].path.text = <<doc[cur].key>> THEN projected
                  ELSE Append(projected, [name  |-> <<doc[cur].key>>,
                                          items |-> Into[doc[cur].val][0]])
  /\ cur' = cur + 1
  /\ Executing /\ UNCHANGED <<ops, todo, counters, arrlist, at>>

RedactField ==
  /\ at = "redact" /\ cur <= Len(doc)
  /\ projected' = IF Redacted(doc[cur].key) THEN projected
                  ELSE Append(projected, [name  |-> <<doc[cur].key>>,
                                          items |-> Into[doc[cur].val][0]])
  /\ cur' = cur + 1
  /\ Executing /\ UNCHANGED <<ops, todo, counters, arrlist, at>>

RedactEnd ==
  /\ at = "redact" /\ cur > Len(doc)
  /\ at' = "done"
  /\ Executing /\ UNCHANGED <<ops, cur, todo, counters, arrlist, projected>>

(***************************************************************************)
(* _mongoc_matcher_op_unwind: the elements of the first array, each in a   *)
(* document of its own, until one matches.  The query is the clauses of an *)
(* $and, each a path and the values it wants; no path of a clause can name *)
(* a key with a dot in it.                                                 *)
(***************************************************************************)
Key(name) == IF Len(name) = 1 THEN name[1] ELSE "dotted"

\* The values that a path is shown, as many as there are.
Shown(items, path) ==
  LET direct  == FindDirect[path][items]
      call(n) == FindDescendants[path][items][n]
      upTo[n \in Nat] == IF call(n).found THEN upTo[n + 1] ELSE n
  IN  IF direct # << >>      THEN <<ValueAt(items, direct)>>
      ELSE IF Len(path) = 1 THEN << >>
      ELSE [k \in 1 .. upTo[0] |-> ValueAt(items, call(k - 1).place)]

\* A value, or an element of one that is an array.
Candidates(v) == {v} \cup IF v.type = "array" THEN {e.val : e \in Range(v.items)} ELSE {}

Matches(name, v) ==
  LET item == <<[key |-> Key(name), val |-> v]>>
  IN  \A clause \in query :
        \E w \in Range(Shown(item, clause.path)) : Candidates(w) \cap clause.wants # {}

Elements == projected[1].items

\* Mutant: the answer of the last element counts.
MatchElementLast ==
  /\ at = "match" /\ cur <= Len(Elements) /\ query # NoQuery
  /\ result' = Matches(NameOf(ops[1]), Elements[cur].val)
  /\ cur' = cur + 1
  /\ at' = at
  /\ UNCHANGED <<parsed, ops, todo, counters, arrlist, projected, freed>>

MatchElement ==
  /\ at = "match" /\ cur <= Len(Elements) /\ query # NoQuery
  /\ result' = Matches(NameOf(ops[1]), Elements[cur].val)
  /\ cur' = cur + 1
  /\ at' = IF result' THEN "done" ELSE at
  /\ UNCHANGED <<parsed, ops, todo, counters, arrlist, projected, freed>>

\* A $query that is empty or refused is NULL, which the match asserts on.
MatchNull ==
  /\ at = "match" /\ cur <= Len(Elements) /\ query = NoQuery
  /\ at' = "assert"
  /\ UNCHANGED <<parsed, ops, cur, todo, counters, arrlist, projected, result, freed>>

MatchEnd ==
  /\ at = "match" /\ cur > Len(Elements)
  /\ at' = "done"
  /\ UNCHANGED <<parsed, ops, cur, todo, counters, arrlist, projected, result, freed>>

\* _mongoc_matcher_op_destroy of the chain, the strings of each op at once.
Freed(s)   == IF s = Null THEN << >> ELSE <<s>>
FreeOf(op) == Freed(op.path) \o Freed(op.as) \o op.list

Destroy ==
  /\ at = "done"
  /\ freed' = FlattenSeq([i \in DOMAIN ops |-> FreeOf(ops[i])])
  /\ at' = "destroyed"
  /\ UNCHANGED <<parsed, ops, cur, todo, counters, arrlist, projected, result>>

Stopped == at \in {"destroyed", "refused", "assert", "crash"} /\ UNCHANGED vars

Init ==
  /\ doc \in Docs /\ command \in Commands
  /\ ops = << >> /\ strings = {} /\ query = NoQuery
  /\ cur = 1 /\ todo = << >>
  /\ checked = 0 /\ skip = 0 /\ packed = 0
  /\ arrlist = << >> /\ projected = << >> /\ result = FALSE /\ freed = << >>
  /\ at = "parse"

Next ==
  \/ ParseProject \/ ParseRedact \/ ParseUnwind
  \/ StartOp \/ TakePath \/ EndList \/ EndArray
  \/ FindPlain \/ FindAsItStands \/ FindNext \/ FindNoMore
  \/ RedactField \/ RedactEnd
  \/ MatchElement \/ MatchNull \/ MatchEnd
  \/ Destroy \/ Stopped

Spec == Init /\ [][Next]_vars
-----------------------------------------------------------------------------
(***************************************************************************)
(* What the output should be.                                              *)
(***************************************************************************)
Leaves[v \in Value] ==
  CASE v.type = "null"  -> << >>
    [] v.type = "array" -> FlattenSeq([k \in DOMAIN v.items |-> Leaves[v.items[k].val]])
    [] OTHER            -> <<v>>

LeavesOf(path) ==
  LET shown == Shown(doc, path) IN FlattenSeq([k \in DOMAIN shown |-> Leaves[shown[k]]])

Values(items) == [k \in DOMAIN items |-> items[k].val]

\* The paths of an entry.
PathsOf(op) ==
  IF op.list = << >> THEN IF op.path = Null THEN << >> ELSE <<op.path.text>>
  ELSE [k \in DOMAIN op.list |-> op.list[k].text]

Done == at \in {"done", "destroyed"}

\* "Output will always take the form of {key:[value1, value2,..., valueN]}"
\* (README.md): an entry with one path has every value that its path is shown,
\* in order, however deep its arrays are.  The keys of its array are 0, 1, .. as
\* those of an array must be, as long as no array among the values holds another
\* array or a value that is left out.
Plain(v) == v.type = "array" => \A k \in DOMAIN v.items :
                                  v.items[k].val.type \notin {"array", "null"}

OnePathComplete ==
  Done /\ command.name # "$redact" =>
    \A i \in {i \in DOMAIN projected : Len(PathsOf(ops[i])) = 1} :
      LET path  == PathsOf(ops[i])[1]
          items == projected[i].items
      IN  /\ Values(items) = LeavesOf(path)
          /\ (\A v \in Range(Shown(doc, path)) : Plain(v)) =>
               \A k \in DOMAIN items : items[k].key = k - 1

\* A $foundin of different paths has the values of each of them, in the order of
\* its list, as long as no path that is looked for through arrays comes after one
\* that counted values: the counters of the first are where the second starts.  Of
\* a path listed twice it says nothing: "duplicate strings will be ignored"
\* (mongoc-projection.c:177), and the code adds each of them.
Loops(path)  == Len(path) > 1 /\ FindDirect[path][doc] = << >>
Counts(path) == (Loops(path) \/ Len(path) = 1) /\ Shown(doc, path) # << >>

InStep(paths) ==
  \A k \in DOMAIN paths : Loops(paths[k]) => \A j \in 1 .. k - 1 : ~Counts(paths[j])

FoundinIs(items, paths) ==
  Values(items) = FlattenSeq([k \in DOMAIN paths |-> LeavesOf(paths[k])])

FoundinUnion ==
  Done /\ command.name # "$redact" =>
    \A i \in DOMAIN projected :
      LET paths == PathsOf(ops[i])
      IN  IsInjective(paths) /\ InStep(paths) => FoundinIs(projected[i].items, paths)

\* README.md: a $foundin is there to "condense multiple keys/namespaces down
\* into one" key.  It has the values of all of its paths.
FoundinKeepsAll ==
  Done /\ command.name # "$redact" =>
    \A i \in DOMAIN projected : FoundinIs(projected[i].items, PathsOf(ops[i]))

\* "If you want to find only documents where {"a":1,"b":2} in the SAME
\* subdocument, you need to unwind the subdocuments first" (README.md): an
\* $unwind matches when one of the values that its first entry is shown does by
\* itself, and not when two of them do between them.
UnwindIsSome ==
  Done /\ command.name = "$unwind" /\ Len(PathsOf(ops[1])) = 1 /\ query # NoQuery =>
    (result <=> \E v \in Range(LeavesOf(PathsOf(ops[1])[1])) : Matches(NameOf(ops[1]), v))

\* A $redact keeps every field at the top that it does not name, with the
\* values that it has, and no other.
RedactionKeeps ==
  Done /\ command.name = "$redact" =>
    LET entries == Kept(command.parts[1].entries)
        kept    == {i \in DOMAIN doc : \A j \in DOMAIN entries : entries[j].key # <<doc[i].key>>}
        nth(i)  == Cardinality({j \in kept : j <= i})
    IN  /\ Len(projected) = Cardinality(kept)
        /\ \A i \in kept : /\ projected[nth(i)].name = <<doc[i].key>>
                           /\ Values(projected[nth(i)].items) = Leaves[doc[i].val]

\* No string is freed twice, although the ops of a $foundin borrow the strings
\* of their list; and none is left, unless the command has two $project parts.
FreedOnce ==
  at = "destroyed" =>
    /\ IsInjective(freed)
    /\ Cardinality(PartsNamed("$project")) <= 1 => Range(freed) = strings

\* The program stops only at a $redact that names nothing or has a $foundin, and
\* at an $unwind of which a part is missing, empty or refused.
CrashExplained ==
  at \in {"assert", "crash"} =>
    \/ /\ command.name = "$redact"
       /\ LET entries == Kept(command.parts[1].entries)
          IN  entries = << >> \/ \E i \in DOMAIN entries : entries[i].type = "document"
    \/ /\ command.name = "$unwind"
       /\ \/ PartsNamed("$project") = {}
          \/ \E i \in PartsNamed("$project") : Kept(command.parts[i].entries) = << >>
          \/ PartsNamed("$query") = {}
          \/ \E i \in PartsNamed("$query") : command.parts[i].query = NoQuery
=============================================================================
