----------------------------- MODULE Descendants -----------------------------
(***************************************************************************)
(* How a dotted path finds its values in a document: the loop of           *)
(* _mongoc_matcher_op_compare_match (and of every other op with a path)    *)
(* around bson_iter_find_descendants, which it asks for the descendant     *)
(* number skip until there is none.  PathSearch has the search itself and  *)
(* says how documents, paths and places are written.                       *)
(***************************************************************************)
EXTENDS PathSearch

CONSTANTS Documents, \* the documents, as the items at their top
          Paths,     \* the dotted paths
          Positions  \* the keys of the items of arrays

ASSUME DocumentsAssumption == Documents \subseteq Items
ASSUME PathsAssumption     == Paths \subseteq DottedPath

\* The keys of an array are what the writers of BSON make them.
ASSUME PositionsAssumption ==
  \A v \in Value : v.type = "array" => \A i \in DOMAIN v.items : v.items[i].key \in Positions

VARIABLES document, \* the document
          path,     \* the path of the op
          toSkip,   \* what *skip is for the next call
          seen,     \* how many descendants were seen
          places,   \* the places they were at
          stage     \* where the loop is

loopVars == <<document, path, toSkip, seen, places, stage>>

-----------------------------------------------------------------------------
(***************************************************************************)
(* The loop of the caller, for an op that no descendant satisfies.         *)
(***************************************************************************)
LoopInit ==
  /\ document \in Documents
  /\ path \in Paths
  /\ toSkip = 0
  /\ seen = 0
  /\ places = << >>
  /\ stage = "direct"

DirectPlace == FindDirect[path][document]

TryDirect ==
  /\ stage = "direct"
  /\ IF DirectPlace # << >>
     THEN places' = <<DirectPlace>> /\ stage' = "done"
     ELSE places' = places /\ stage' = "loop"
  /\ UNCHANGED <<document, path, toSkip, seen>>

Answer == FindDescendants[path][document][toSkip]

\* Mutant: skip is what the call left.
FoundNextSkipLeft ==
  /\ stage = "loop" /\ Answer.found
  /\ places' = Append(places, Answer.place)
  /\ seen' = seen + 1
  /\ toSkip' = Answer.skip
  /\ UNCHANGED <<document, path, stage>>

FoundNext ==
  /\ stage = "loop" /\ Answer.found
  /\ places' = Append(places, Answer.place)
  /\ seen' = seen + 1
  /\ toSkip' = seen'
  /\ UNCHANGED <<document, path, stage>>

\* Mutant: the result of the call is not looked at.
NoneLeftGoesOn ==
  /\ stage = "loop" /\ ~Answer.found
  /\ UNCHANGED loopVars

NoneLeft ==
  /\ stage = "loop" /\ ~Answer.found
  /\ stage' = "done"
  /\ UNCHANGED <<document, path, toSkip, seen, places>>

LoopOver == stage = "done" /\ UNCHANGED loopVars

LoopNext == TryDirect \/ FoundNext \/ NoneLeft \/ LoopOver

LoopSpec == LoopInit /\ [][LoopNext]_loopVars /\ WF_loopVars(TryDirect \/ FoundNext \/ NoneLeft)
-----------------------------------------------------------------------------
(***************************************************************************)
(* What the path means: every value reached by following the keys, an      *)
(* array being followed by position and through each of its elements.      *)
(***************************************************************************)
Below(i, ps) == {<<i>> \o p : p \in ps}

\* The elements of an array that have items of their own.
Entered(v) == {k \in DOMAIN v.items : v.type = "array" /\ Container(v.items[k].val)}

Descends[keys \in DottedPath] ==
  [items \in Items |->
     LET rest   == Descends[Tail(keys)]
         At(v)  == IF ~Container(v) THEN {}
                   ELSE rest[v.items]
                          \cup UNION {Below(k, rest[v.items[k].val.items]) : k \in Entered(v)}
     IN  IF Len(keys) = 1 THEN {<<i>> : i \in Named(keys[1], items)}
         ELSE UNION {Below(i, At(items[i].val)) : i \in Named(keys[1], items)}]

\* No document that the path leads through has one of its keys twice.
KeysOnce[keys \in DottedPath] ==
  [items \in Items |->
     LET rest  == KeysOnce[Tail(keys)]
         At(v) == Container(v) =>
                    rest[v.items] /\ \A k \in Entered(v) : rest[v.items[k].val.items]
     IN  /\ \A i, j \in Named(keys[1], items) : i = j
         /\ Len(keys) > 1 => \A i \in Named(keys[1], items) : At(items[i].val)]

Reached == {places[k] : k \in DOMAIN places}

\* No op is shown a value that is not at its path.
OnlyDescendants == Reached \subseteq Descends[path][document]

\* A path of names is shown no value twice, else a sum over its values is wrong.
\* (With a position or a wildcard there may be two ways to the same value: by
\* the position in an array, and through the element that is there.)
OfNames == \A k \in DOMAIN path : path[k] \notin Positions \cup {"$any"}

NoneTwice ==
  OfNames => \A j, k \in DOMAIN places : places[j] = places[k] => j = k

\* What bson_iter_find_descendants shows an op is right: at its path, once.
ShownRight == OnlyDescendants /\ NoneTwice

\* The loop comes to an end on every document.
LoopEnds == <>(stage = "done")

\* A path of names that leads to a value is shown one: an op that any value
\* satisfies matches exactly the documents that have one.  (Where a document has
\* a key twice, the search may stop at the first.)
SomeFound ==
  stage = "done" /\ OfNames /\ KeysOnce[path][document] /\ Descends[path][document] # {} => places # << >>

\* {a: [{b: x}, ..]} and "a.b", the case the function is for: the value in
\* every element that has one is shown, in the order of the array.
FlatArray ==
  /\ Len(path) = 2
  /\ OfNames
  /\ KeysOnce[path][document]
  /\ Len(document) = 1
  /\ document[1].val.type = "array"
  /\ \A k \in DOMAIN document[1].val.items : document[1].val.items[k].val.type # "array"

FlatComplete ==
  stage = "done" /\ FlatArray =>
    /\ Reached = Descends[path][document]
    /\ \A j, k \in DOMAIN places : j < k => places[j][2] < places[k][2]
=============================================================================
