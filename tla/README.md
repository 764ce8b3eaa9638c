# A verification project for bsonsearch

bsonsearch is a C library (with a Python extension on top) that compiles a
MongoDB-like query, itself a BSON document, into a tree of ops and matches BSON
documents against it, one at a time, with no database. This directory holds TLA+
models of its core, the TLC configurations that check them on small instances,
and TLAPS proofs. Line numbers refer to the repository at the commit beside it;
`PROJECT.json` maps each definition to the lines it models.

The library has no threads and no locks. What makes it hard is elsewhere: two
mutually recursive descents over user data that allocate as they go and may
fail at any depth, ownership of a tree without reference counts, user code
called back in the middle of a match, global tables that outlive the objects
that use them, and a search that talks to its caller through one `skip` counter.

## 1. Inventory

| Component | Source | State | Operations | Modules here |
|---|---|---|---|---|
| Query compiler and op trees | `lib/mongoc-matcher.c`, `-op.c` (constructors, `op_match`, `op_destroy`), `-op-conditional.c` | the C stack, the ops allocated, `@error` | `mongoc_matcher_new`, `_match`, `_destroy` | `OpTree`, `OpTreeUse`, `OpTreeMeaning` |
| Module operator and store | `lib/mongoc-matcher-op-modules.c`, `matcher-module-*.c` | the global hash of modules, `module_data` of each op, the user memory of a match | startup, shutdown, `m_new`, `m_prep`, `m_search`, `m_cleanup`, `m_destroy` | `ModuleProtocol`, `ModuleOps`, `ModulePromises` |
| Compiled-regex cache | `lib/mongoc-matcher-op.c:1352-1406`, `lib/bsoncompare.c` | `global_compiled_regexes` | compare with a regex, `regex_destroy` | `RegexMatch`, `RegexCache` |
| Dotted paths | `lib/mongoc-bson-descendants.c` and the loop in every op with a path | `skip`, the iterators of the recursion | `bson_iter_find_descendants` | `PathSearch`, `Descendants` |
| Value comparison | `lib/mongoc-matcher-op.c:1320-2210` | none | `$eq $ne $gt $gte $lt $lte $in $nin $inset` | `LeafOps`, `LeafMatch` |
| `$exists`, `$type`, `$size`, `$strlen` | `lib/mongoc-matcher-op.c:71-324`, `778-1177` | the loop's flags | constructors and matches | `Lengths`, `LeafOps`, `LeafMatch` |
| `$near` and geo | `-op.c:342-424`, `1196-1249`, `-op-geojson.c` | the chain of points of an op | `$near` of an array and of a geometry, `$geoWithin` | `GeoShapes`, `Geo` |
| Projection, unwind, redaction | `lib/mongoc-projection.c`, `-op-unwind.c`, `lib/mongoc-redaction.c` | a chain of ops, three counters, the document being built | `project_bson`, `_mongoc_matcher_op_unwind` | `Projection` |
| Text, IP, sealed boxes (optional builds) | `-op-text.c`, `-op-ip.c`, `matcher-module-ip.c`, `-op-crypt.c` | what the op owns | `$text`, `$inIPrange`, `$inIPrangeset`, module `ip`, `$sealOpen` | `TextOps`, `IpOps`, `SealOps`, `OptionalOps` |
| C API | `lib/bsoncompare.c` | the two global tables | `bsonsearch_startup`, `generate_matcher`, `matcher_compare`, ... | `Library`, and the component each call reaches |
| Python extension | `bsonsearch/matcher_ext/module.c` | handles owned by Python objects | `Matcher`, `Document`, `match_doc`, `match_json` | `Library` |
| yara, disco, ether (optional builds) | `-op-yara.c`, `matcher-module-disco.c`, `matcher-module-ether.c` | | | not modelled |
| A matcher written back as BSON | `-op.c:2377-2470` | none | debugging output | not modelled |

How they interact. `mongoc_matcher_new` reads the query with libbson iterators;
for each clause it calls itself (lists, `$not`, `$exists`, `$cond`) or a
constructor. The tree it returns belongs to the caller. `mongoc_matcher_match`
walks the tree; a leaf with a dotted path runs the loop of `Descendants` and asks
its comparison (or the module, through the store looked up by *name*) about every
value found. A regex in a comparison goes through the process-wide cache.
`project_bson` runs the same search once more for every path that it projects,
and an `$unwind` projects first and then matches a query on each value by itself.
`mongoc_matcher_destroy` walks the tree once more, and the module ops look the
store up again. `bsonsearch_startup`, `bsonsearch_shutdown` and `regex_destroy`
change the tables under trees that exist already; nothing stops a program from
calling them at any time.

What is hard, and the property that is to catch it:

- *Ownership on failure paths.* `parse_logical` returns NULL from six places with
  ops already allocated, and folds three clauses with two nodes at once. One op
  under two parents is freed twice; one under none leaks. `OneOwner`,
  `NothingLeaks`, `DestroyIsSafe`; for the strings that the ops of a `$foundin`
  borrow, `FreedOnce`; for the optional operators, `NothingLost`; for the ops of a
  polygon, `OpsInBounds`; for the handles of Python objects, `HandlesOwned`.
- *What NULL means.* The same NULL is the end of a list, a refused clause, an
  empty spec and a missing part. `ValidCompiles`, `StopsExplained`, `CrashExplained`,
  `StopsOnlyIf`, `ReadyHasHandle`, and the divergence `BadClauseRefused`.
- *Meaning and order of evaluation.* Folding to the right must keep the meaning
  and the left-to-right, stop-early order users are told to rely on.
  `MatchMeaning`, `FailFast`.
- *Callbacks.* Four reasons to leave a loop and two flags; module data that may be
  absent; memory per match to be returned on each way out. `Protocol`,
  `AnswerMeaning`, `UsermemFreed`, `OnlyMisuseCrashes`, `MatchEnds`, and the
  divergence `QuietWithoutStartup`.
- *A cache that outlives its users*: `Stateless`.
- *A counter that is a request on the way down and a balance on the way up*:
  `ShownRight`, `SomeFound`, `FlatComplete`, `LoopEnds`; three such counters in a
  projection: `OnePathComplete`, `FoundinUnion`, and the divergence
  `FoundinKeepsAll`.
- *Tables and loops written out by hand*: five tables of some twenty type pairs,
  ten copies of the same loop. `TablesAgree`, `InsetIsIn`, `AnyValueWill`,
  `SizeCountsAll`, `TextMeaning`, `RangeMeaning`, `SealMeaning`, `UnwindIsSome`.
- *Boundaries of shapes*: the edge that closes a ring, the end of a line, a list
  of points that is full. `WithinMeaning`, `NearLine`, `NearByDistance`,
  `OpsInBounds`.
- *Numbers that are rounded before they are compared*: integers beside doubles
  (`TablesAgree`), totals that wrap (`AnswerMeaning`), percentages (`TextMeaning`).

`PROJECT.json` lists the hazards one by one, with the line where each bites.

## 2. The models

### OpTree, OpTreeUse, OpTreeMeaning

`OpTree` is the recursive descent with its C stack made explicit. `ctl` is the
call about to be made or the value being returned, `stack` the frames below it
with the locals that hold ops (`left`, `right`, the three parts of a `$cond`),
`heap` the ops allocated, `err` whether `@error` was set. One action is one call,
return or early return: `LogicalLeft`, `GotLeft`, `GotRight`, `GotMore`,
`GotNoMore`, ... are the places of `_mongoc_matcher_parse_logical` where a
recursive call is made or comes back; `Parse*` the branches of
`_mongoc_matcher_parse` and `_parse_compare`; `Cond*` the loop of the `$cond`
parser. The heap only grows, so a leak stays visible as a node without an owner.

Clauses are abstracted to what the compiler tells apart: a leaf (any operator
without a sub-query; which one is the atom), `$not`, `$exists` with a spec, a
logical list, `$cond`, and a clause that is refused, with the three ways the code
has of refusing: `@error` set, NULL alone, or an assertion.

`OpTreeUse` adds what is done with the tree: `mongoc_matcher_match` on any number
of documents and `matcher_destroy`, as two recursive walks in single calls and
returns. A document is the truth values it gives to the atoms.

`OpTreeMeaning` says what all of this should come to, by recursion on the query
alone: which queries are valid, what a query means, which atoms a match asks and
in which order.

### ModuleProtocol, ModuleOps, ModulePromises

`ModuleProtocol` is the abstract specification: what the comments on
`struct _module_storage` promise the author of a module (when each callback
comes) and the caller of a match (TRUE when the module said FOUND of a value).
`ModuleOps` is the code: the store as the number of times startup filled it
(`HASH_ADD` does not look for duplicates), each op with the life of its
`module_data`, and a match in single callbacks with the locals of
`_mongoc_matcher_op_module_match`; the three returns of the loop, each with a call of
`m_cleanup` of its own, are three actions. The four modules of the default build
(`between`, `sum`, `sample`, `dukjs`) are modelled by what each callback may answer
and by what it reads; the totals of `sum` wrap as `int64_t` does. The constant
`Ordered` restricts callers to the documented order (one startup before the first
matcher, shutdown after the last). `ModulePromises` has the properties and the
refinement mapping.

### RegexMatch, RegexCache

`RegexMatch` compiles every regex afresh; `RegexCache` is the hash, with hits,
misses, patterns that do not compile (cached as NULL), failed allocations and
`regex_destroy` at any time. PCRE is external: a pattern compiles or not and
accepts a set of subjects with and without `PCRE_CASELESS`.

### PathSearch, Descendants

`PathSearch` is the recursion of `bson_iter_find_descendants` (`FindDescendants` and
its two loops, `InItems` and `InSubDocuments`), returning what the C function returns
and leaves behind: whether it found a value, the new `*skip`, and the place
`*descendant` points to. The recursion is over the keys of the path, so documents and
paths may be of any depth. A key that begins with a dollar is the wildcard in a path;
fields with such a name are left out. `FindDirect` is libbson's own search, which is tried first. The actions
of `Descendants` are the loop of the caller (`TryDirect`, `FoundNext`, `NoneLeft`),
for an op that no value satisfies, so that every value is asked for. `Descends` is
the reference definition: every value reached by following the keys.

### Lengths, LeafOps, LeafMatch

`LeafOps` has the operators without a sub-query as relations between the value of
the query and one value of the document: `Eq` and `Ordered` are the type tables
of the comparison handlers (recursive functions, since arrays are entered: `EqOf` and
`OrderedOf` are one level of them, a row per disjunct),
`Native` the C comparison behind their macros, with integers rounded to double
where a double is on the other side; `Keys` and `InSet` the hash table of
`$inset`; `TypesOf` the constructor of `$type`. A text is a number, for its bytes, and a
second one, `cut`, for its bytes before the first zero byte: `$inset` and `$type` see
only those (`strlen`, `strcmp`), the other comparisons all of them. `Lengths` has the one of `$size` and
`$strlen`, which `$text` uses too. `LeafMatch` is the loop over the values of a path
that the five match functions share: `MatchDirect`, `MatchMissing`, `EnterLoop`,
`NextValue`, `EndLoop`. What the path leads to is an input here; `Descendants` says
how it is found.

### GeoShapes, Geo

`Geo` reads a spec part by part as the constructors do (`ReadGeometryPart`,
`ReadBox`, `AddPoint`, `SkipPart`, ...), with the op that is built, the points it
points to and the number of ops allocated; then matches it (`MatchNear`,
`MatchGeoNear`, `MatchBox`, `MatchPolygon`, and one action per point of a ring and
per vertex of a line) and destroys it. A polygon that fills its list is destroyed
while its caller goes on: `freed` is set and any later access is the place
`"useAfterFree"`. `GeoShapes` is the arithmetic. The code's is on a sphere and in
doubles; the model's is that of the plane on whole numbers, with distances as
squares of fractions. What is kept of the sphere is the range of `atan2`: `Wraps`
says for which arcs the difference of two bearings passes pi and the point is
taken to lie behind. A document is the value at the path of the query and the type of
the value at the *first* key of that path (`first`), which is what
`_mongoc_matcher_op_geonear` and `_mongoc_matcher_op_near_boundary` test (`IsPlaced`);
the two differ where the path has dots. What such a path leads to may be an array,
which is recursed into like a geometry without coordinates (`PlaceOf`).

### Projection

One behaviour parses one command (`ParseProject`, `ParseRedact`, `ParseUnwind`), runs
`mongoc_matcher_projection_execute` on one document (`StartOp`, `TakePath`, `FindPlain`,
`FindAsItStands`, `FindNext`, `FindNoMore`, `EndList`, `EndArray`) with its counters
`checked`, `skip` and `packed`, or redacts it (`RedactField`), matches the values of an
`$unwind` one by one (`MatchElement`), and destroys the ops. The search is that of
`PathSearch`; `Into` is `value_into_array`. String pointers are told apart by who
allocated them, so that a string that is borrowed, lost or freed twice shows. Of the
`$query` parts of an `$unwind` the last that is not empty is its query (`QueryOf`): an
empty one sets the flag and leaves the earlier.

### TextOps, IpOps, SealOps, OptionalOps

What each optional operator reads from its spec, entry by entry, asks of one
value and owns (`op.lost` counts what nothing points to any more); `OptionalOps` has
the behaviour around them: `Compile`, the loop of `LeafMatch` as each of the files
spells it, `Destroy`. Stemmer, dictionary and libsodium are constants: which
languages are accepted and which have a stemmer, what a word stems to, which words
are spelled right, who owns a key. `Outcomes` of a value is a set, since a read of
uninitialised memory or past a buffer may answer, or stop the program. `Percent` is
the truncated double of the code, exactly: `matches / total` is the double next to the
fraction, so that it depends on the fraction alone, and of the hundred shares k / 100
there are three whose product with 100 is below k (`RoundedBelow`, with the IEEE
doubles of the build); a percentage that is not whole is farther from the next than
any rounding. `TextMeaning` does not use this: it takes a whole percentage, but for
the quarters, which are doubles, to come out right or one less.

### Library

The Python objects and the C handles under them: `Call` (`__new__` and `__init__`), `New`
alone, `InitAgain`, `Dealloc`, matches of objects and of raw input, `CompareOnce` (the C
`compare`) and `Shutdown`, at any time. Matchers are of one regex, so that a match is
a step of `RegexCache`, which `Library` extends: the global cache and the owned
handles are one state. `lost` names the handles that a repeated `__init__` overwrote.
The module store at startup and shutdown is in `ModuleOps` and not repeated here.

## 3. The runs

| Run | Configuration | Asks |
|---|---|---|
| `optree` | `MCOpTree.cfg` | compile, match against every document and destroy every query of the instance: ownership, leaks, validity, meaning, order |
| `optree_bad_clause` | `MCOpTreeBadClauseRefused.cfg` | divergence: a bad third clause is dropped |
| `modules` | `MCModuleOps.cfg` | documented order, complete queries: the protocol is implemented, answers mean what they say, matches end |
| `modules_any_order` | `MCModuleOpsAnyOrder.cfg` | any order, any query: only the named misuses crash; nothing a match allocates is lost |
| `modules_quiet` | `MCModuleOpsQuietWithoutStartup.cfg` | divergence: late startup crashes |
| `paths` | `MCDescendants.cfg` | only values at the path, none twice, some if any, all in the documented case, the loop ends |
| `leaf_ops` | `MCLeafMatch.cfg` | one value on the path is enough, sizes add up, the comparison tables agree with each other, `$inset` answers like `$in` |
| `geo` | `MCGeo.cfg` | points by distance, inside and outside of polygons and boxes, near a line; no op read after it is freed but where the code does |
| `projection` | `MCProjection.cfg` | every value of a path in order, `$foundin`, `$unwind`, `$redact`; each string freed once; which commands abort |
| `projection_foundin` | `MCProjectionFoundinKeepsAll.cfg` | divergence: a `$foundin` loses values of its later paths |
| `optional_ops` | `MCOptionalOps.cfg` | what `$text`, the IP ranges and `$sealOpen` answer, what stops them, what they leave allocated |
| `library` | `MCLibrary.cfg` | handles have one owner, objects that are ready have one, the cache is invisible |

A property that names several things is a conjunction: `StopsExplained` of the
compiler is `FailureReported` (NULL comes with `@error`, with one exception),
`AbortsExplained` and `MatchReturns`; `DestroyIsSafe` is `DestroyFreesAll`,
`NoUseAfterFree` and `ChildrenFirst`; `ShownRight` is `OnlyDescendants` and
`NoneTwice`; `TablesAgree` is `OrEqual`, `OneRelation` and `WidthIgnored`;
`HandlesOwned` is `NoDangling`, `NoSharing` and `NoLeak`. `StopsExplained` of `Geo` is
another property of the same name.

Bounds, and why they are enough:

- *optree*: 561 queries over two atoms. Lists have up to three members, because
  the third is where `parse_logical` calls itself and makes two nodes; a fourth
  repeats the same call. Every kind of clause occurs first, second and last, each
  way of refusing is among them, and there is one level of nesting (two under
  `$not`): the locals of a frame do not depend on what is below it. `$cond` has its
  keys in two orders, a key twice, and a part missing. All four documents over two
  atoms are matched, in any order, and destruction may come before the first match.
- *modules*: two ops, which may be of the same module, so that each can be caught
  between the other's callbacks. Integers are 3 bits wide (`Half = 4`): two values
  overflow, as 64-bit totals can. Two startups without a shutdown (`MaxCopies = 2`)
  show the duplicate entries. Symmetry over ops is used in `modules_any_order`,
  which checks invariants only.
- *paths*: 862 documents with one field at the top and values up to three levels
  deep, 10 paths with names, positions and a wildcard. Two levels of arrays or
  documents below a key are what it takes for `skip` to be handed down and up
  through both loops. Documents have no repeated keys.

- *leaf_ops*: one to four values of each BSON type the tables name (33 in all,
  eight of them arrays, one nested), every operator with each of them as its
  spec, against every value and every list of two values of six kinds. Doubles
  are exact up to 4 (`Exact`), so that the integers 4 and 5 meet in one double as
  2^53 and 2^53 + 1 do; int32 stays in the exact range, as it does in C. Two
  values in a list are what it takes for the first to be overwritten or the
  second to be missed. Two texts differ only after their zero byte. A negative `$size` is cast to a length nothing has; 1000
  stands for it.

- *geo*: a grid of five by five. Legacy points have none to five axes, numbers or
  not; lines have none to six points, polygons none to five, convex either way
  round and not convex; `MONGOC_MAX_POLYGON_POINTS` is 6, so that lists just below,
  at and above it occur. A document is a point, a line, a polygon, or has no
  coordinates, at a path without dots, below an array or below a document; geometries
  of either side may be called LineString. A spec has one `$geometry`.
- *projection*: documents with two fields, one of them scalars, nulls, arrays and
  documents up to three levels deep, or a list of two or three documents. One or
  two entries, `$foundin` lists of up to three paths with each of the pairs of
  direct, plain and spread paths in both orders: two paths are what it takes for
  the counters of the first to be read by the second. `$unwind` has its parts in
  both orders, twice and missing, with five queries, empty and refused ones among
  them.
- *optional_ops*: a `$text` of up to two entries, of three with a `$size` among
  them, and of four in four orders; entries good, bad and given twice. Ranges are
  lists of none to three addresses, of two bits, good, short or of another type, and
  sets of none to two ranges. Two owners of keys, keys with and without a zero byte.
  Documents have a value at the path, a nested array, or up to two spread values.
  Texts have none to three words, or up to a hundred for percentages: 29 of 50 and of
  100, and 57 of 100, are the fewest words of the shares that are rounded below.
- *library*: two objects and three addresses, one more than objects can hold, so
  that a handle is lost and the program goes on. One pattern with the option and
  one that does not compile; input that is refused, invalid or of another type.

Deadlock is checked in every run but `library`, where a failed assertion leaves
the program nothing to do: it is gone.

Fairness. `FairSpec` of `ModuleOps` asks that a match under way goes on
(`WF` on `MatchStep`): the thread that called the library runs it, and nothing
else in the process can hold it up. Whether any other call is ever made is left
open. The same holds for the loop of `Descendants`, which is one C function.

## 4. The proofs

`OpTreeProofs`, `ModuleOpsProofs`, `LibraryProofs`, `LeafMatchProofs`, `GeoProofs`,
`DescendantsProofs` and `ProjectionProofs` prove for *every* value of the constants, under the
assumptions stated with them (clauses are well formed, closed under sub-clauses and
nest finitely deep, `Half > 0`, `None` is no other value, `Null` is no address, ...).
`Recursion` holds what they need about recursive definitions and about flattening a
list of lists. `ProjectionProofs` extends `DescendantsProofs` for its lemmas about the
search.

- `TypeCorrect` of `OpTree`, `ModuleOps` and `RegexCache`, and `LibTypeCorrect`. The
  first three are only proved; the runs spend their time on other properties.
- `OwnershipHolds` (`Spec => []OneOwner`): for every query, however invalid, no op
  hangs from two pointers and every pointer leads to an op that exists. The
  inductive invariant is `TypeOK /\ OneOwner`; the types are needed to know which
  locals a frame has. `OneOwner` is written over explicit arguments (heap, stack,
  value held), so that each action is one of four moves (push a frame without
  ops, pop, take the held op into the top frame, allocate a node over ops held
  by the top frame) and each move is a lemma: `PushOwned`, `PopOwned`, `TakeOwned`,
  `AllocOwned`.
- `ForestStays` (`UseSpec => []OneOwner`): matching and destroying leave the forest as
  the compiler left it.
- `DestroySafe` (`UseSpec => []DestroyIsSafe`): of any query that compiled, no op is
  read or freed after it was freed and each is freed after what it points to; of a
  valid one, all are freed. The invariant, `Descending` and `Ascending`, describes the
  walk: `walk` is a path from the root, each caller is at the place the path goes on,
  what was freed is closed downwards and is, for every caller, what hangs left of that
  place. `OneOwner` is what makes it inductive: with a second pointer to an op, the
  part of the tree still to be walked could reach a freed one. That *all* are freed
  needs more: an op nothing points to would be missed (next item).
- `NoneLeaks` (`UseSpec => []NothingLeaks`): while a valid query compiles, each op has
  one owner, not just at most one. The inductive invariant (`NodesInv`) says, for a
  valid query, what is in the hands of each frame and that every op is a kid, a local
  or the value held; it needs `StopInv` to know that no call of a valid query fails,
  since each early return of `parse_logical` drops an op.
- `ValidQueriesCompile`, `StopsHaveReasons`: nothing but the reasons in the query makes
  the parser fail, return NULL in silence or abort, and nothing but a repeated key of
  `$cond` leaves a NULL for a match to run into. The invariant `StopInv` says that all clauses
  that are still to be read, in `ctl` and in every frame, come from the query
  (`ReadsOnly`), that with a valid query the frames hold what succeeded so far
  (`SoundAbove`), the same of each `$cond` under way whatever the query around it
  (`CondsKnown`), and that NULL goes up with `@error` set (`FailsLoudly`).
  `DepthAssumption` is used here: validity is defined by recursion on clauses.
- `AnswersWhatIsMeant`, `AsksNoMore` (`UseSpec => []MatchMeaning`, `UseSpec =>
  []FailFast`): for every valid query whose lists of `$nor` are pairs, compiling and then
  matching, call by call, comes to what the query means, and asks for no more. The two
  need one another's bookkeeping, so they are proved together. The *outcome* of an op is
  a pair, its answer and the atoms it asks; outcomes are `Consistent` when each op has
  what `NodeOutcome` makes of those of its kids, and they exist because kids are older
  than parents (`OutcomesExist`, from `NodesInv` and `Recursion`). While compiling
  (`CompilesTo`), the register *promises* the outcome of the clause or the list still to
  be read, or has it, and each frame turns what it is given into what its caller waits
  for, down to the outcome of the query (`Leads`, `Answering`); ops added later do not
  change the outcome of older ones (`ConsistentBefore`). `AnswersStep` is this for every
  action of the parser. It is where the folding of `parse_logical` is shown to be right:
  a list holds, and asks, by its first clause and the rest (`ListHoldsUnfold`,
  `ListAsksUnfold`), which fails for a `$nor` of three; `Foldable` says so. While
  matching (`MatchesTo`), the callers turn the outcome of the op at hand, minus what was
  already asked, into that of the root (`Resumes`, `Awaits`, `Going`, one case for each
  action in `GoingStep`). At a result both come to the outcome of the root (`Answered`).
- `CrashesAreMisuse`, `UsermemIsFreed`, `CompleteNeverCrashes`: from one invariant
  that relates the place in the match to its locals (`CallOK`, `StopsOK`), the life
  of an op to its data (`OpsOK`) and, under `Ordered`, ops to the store (`OrderOK`).
  `UsermemIsFreed` has one case for each of the three returns of a match: what
  `m_prep` made is allocated exactly while the match runs, since the module that
  has an `m_prep` has an `m_cleanup`, and each return calls it before it leaves.
- `ModulesKeepProtocol`: under `Ordered` and with complete queries every step of
  `ModuleOps` is a step of `ModuleProtocol` or leaves it unchanged. `StopsOK` is
  what rules out a search after an answer.
- `CacheIsInvisible`: if no pattern is used with both options, `RegexCache`
  implements `RegexMatch`. The invariant says that an entry is what compiling some
  regex of the queries gives (`Sound`); `OneOption` makes it *this* regex.
  `CompiledOnce`: no pattern has two entries.
- `ObjectsOwnHandles`, `ReadyObjectsHaveHandles`, `LibraryIsStateless`: for any
  objects, addresses and regexes. The invariant is the types, the properties and that a
  lost handle stays allocated (`LostKept`): without it an address could be handed out again while
  it still counts as lost. Every action does one of four things to the memory
  (allocate for an object, empty an object, drop one, nothing), one lemma each:
  `MadeOwned`, `EmptiedOwned`, `DeallocOwned`, `UnchangedOwned`. `LibraryIsStateless`
  takes the step of the cache from `CacheIsInvisible`.
- `AnyValueDecides`: a comparison, `$type` or `$strlen` holds exactly when some value
  on its path satisfies it, whatever values there are and whatever satisfying
  means. The invariant is that of the loop: `found` says whether one of the first
  `checked` values does.
- `SizeCountsEveryItem` (`Spec => []SizeCountsAll`): `length` is the number of items of
  the first `checked` values; items are told apart by their place, so one value more adds
  as many as it has (`ItemsAdd`), and the loop of `$size` does not stop early.
- `ComparisonsAgree`, `InsetAnswersLikeIn` (`Spec => []TablesAgree`, `Spec =>
  []InsetIsIn`): for all values, however deep their arrays nest. `EqIs`, `OrderedIs` and
  `InSetIs` unfold the recursive tables once; `OrderingsAgree`, `WidthsAgree` and
  `InsetAgrees` compare them by induction on the value of the document; `NativeAgree` is
  the case of two numbers, where both sides round the same operands. `AnyValueDecides`
  carries it from one value to the answer. From `NumberAssumption` (what the tables take
  for a number is an integer or the NaN of a double), `DepthAssumption` and
  `TextAssumption` (equal bytes are cut to equal bytes). `InsetAnswersLikeIn` says in
  one direction that the cut loses no match, for all strings; in the other that the two
  agree where no string on either side is cut (`Whole`, through nested arrays). Section 5
  has a string for which they do not.
- `AnswersMeanWhatModulesSay` (`Spec => []AnswerMeaning` of `ModuleOps`): whatever order
  the calls come in. The invariant, `MeaningOK`, says of a match under way that `between`
  has not hit any of the values it was shown (`SeenBy` counts them) and that the memory
  of `sum` is their total, wrapped; and of one that is over, that the answer is the one
  all the values on the path ask for. Wrapping at each step comes to wrapping once
  (`WrapAdds`, from `Division` and `OneRemainder`).

- `GeoOpsInBounds`: for any queries, documents and `MaxPoints`, no point is stored past
  the list and the destroy gives back every op. The invariant, `GeoInv`, says what is
  counted at each place: the op and the points of its list (`Whole`) from its
  allocation to the destroy, except after a polygon filled its list and freed it; and
  that the list is empty until the `$geometry` is read, without which its ops would be
  added to others (`GeometryCounts`). From `QueriesAssumption`: a spec has at most one
  `$geometry` (with two, the code drops the first list and leaks it, see section 6), and
  filtering a list gives a sequence, which the provers cannot see through the recursion
  of `SelectSeq`; the runs evaluate it.
- `GeoStopsHaveReasons` (`Spec => []StopsExplained` of `Geo`): no other spec or document
  makes a geo operator abort, read what was freed or follow NULL. The invariant,
  `Reasons`, keeps what was seen on the way to each place: of the parts passed so far,
  that none gave a shape, or which polygon filled its list; of a boundary with ops, the
  list it came from (a LineString without a list has none), with as many points as there are ops (from `GeometryCounts`), since only a
  line of one point runs out of ops; of the point being read, that its number is one
  more than the points stored (from `GeoInv`), so that a full list is a long polygon.
- `NearMatchesByDistance`, `WithinMeansInside` and `LinesMatchByDistance`
  (`Spec => []NearByDistance`, `[]WithinMeaning` and `[]NearLine` of `Geo`): the answers
  are those of the distance and of the shape, for all whole coordinates and polygons of
  any number of points. They share an invariant, `AnswerInv`: the numbers of an op are
  numbers, those of a legacy `$near` are its query's, and the document that is looked at
  in a loop over a ring is one with points. From `NumbersAssumption`: what is read as a
  number is one or is `Bad`. `NearLine`, and so `LinesMatchByDistance`, is of paths whose
  first key is a document (`IsPlaced`); elsewhere the code answers false (section 5). The arithmetic is in lemmas of its own:
  - the loop of `_mongoc_matcher_op_near` adds the squares of the differences along
    the axes there are (`SumsAre`), and axes beyond those make no difference (`NearRight`);
  - a box asks of a point what the sides of the polygon of its corners do (`BoxIs`);
  - the arc of `bc_crossarc` is the distance to the segment, at both ends and where the
    point is level with one of them, too (`CrossArcIs`, with the square of what lies across
    being that of the distance less that of what lies along);
  - `point_in_poly` is right (`PointInConvex`). A ray to the right crosses an edge that
    rises with the point on its left, or falls with the point on its right (`CrossesIf`);
    of a convex polygon one edge at the height of the point rises and one falls
    (`OneOfEach`, `UpAndDown`), so that the parity is that of two crossings
    (`TwoCrossings`, over the recursion of the loop). Inside, one of the two is crossed.
    Outside, both are or none, or else the point would be left of every edge, because it
    lies between the places where those two are at its height (`AtHeight`, `Between`). A
    polygon all above the point, or all below, has no such edges; the point is not inside,
    because going round a point one gets above it and below it (`NotBelow`, `AroundPoint`).

  Proving `WithinMeansInside` showed that `WithinMeaning` was false as first written:
  `Convex` asked of a polygon only that it turn one way, and one that goes round twice
  does, while the parity has all of its inside outside (a triangle given twice). That takes
  six points and the run has polygons of five. `Convex` now asks that all other points lie on
  one side of each edge.

- `ShownIsRight`, `SomeIsFound`, `FlatIsComplete` (`LoopSpec => []ShownRight`,
  `[]SomeFound`, `[]FlatComplete` of `Descendants`): for documents and paths of any depth
  and length. What a call returns is described first, by induction on the path: it finds
  only places that the path leads to (`SearchSound`); the first call finds one if there is
  one (`SearchFirst`, where no document on the way has a key twice); and two
  calls for a path of names that skip different numbers never find the same place
  (`SearchApart`, which takes what they leave to skip into account, and that a name finds
  nothing among the items of an array). The invariant of the loop, `LoopInv`, says
  that `places` are what the calls with 0, 1, ... to skip found, and that `toSkip` and
  `seen` are their number; so none is seen twice. In a list of documents
  the calls find what is there one after the other (`InOrder`), so that the one that ends
  the loop comes after the last.
- `OnePathIsComplete`, `FoundinIsUnion`, `UnwindIsSomeElement`, `RedactionIsKept`,
  `StringsFreedOnce`, `CrashIsExplained` (`Spec => []OnePathComplete`, `[]FoundinUnion`,
  `[]UnwindIsSome`, `[]RedactionKeeps`, `[]FreedOnce`, `[]CrashExplained` of `Projection`):
  for any command, document and depth of values. All six are read off one inductive
  invariant, `ProjectionInv`, with one lemma for each action. It says of the ops that they
  are those the command was parsed to (`Chain`), but for the one string that an op of a
  `$foundin` may have borrowed (`OpsInv`); of the array that is filled, that its values are
  those of the paths done (`Filling`) and, inside a loop, of the first `checked` values of
  the path at hand (`Looping`), as long as no loop starts from counters that an earlier
  path left (`Fine`), which is the condition of `FoundinUnion` and holds of a single path;
  and of its keys that they are 0, 1, ... while the values are plain. The values of a path
  are defined as those the search shows until it finds no more, so the invariant also says
  that the search of each path done has come to its end (`Whole`): nothing else would make
  a list of them. A redaction and an `$unwind` are loops over fields and elements
  (`RedactInv`, `MatchInv`). `StringsFreedOnce` needs that the pointers of a chain are
  different, which the parser makes true by allocating each (`OpRight`, `ChainFreed`).
  From `ValueAssumption` (what is in a value is a value), `DepthAssumption` and
  `CommandsAssumption` (what a command may be made of).

Recursion over clauses. What a clause means is defined by a recursive function on the
constant `Clause`, and the prover knows of such a function only that it satisfies its
equation if *some* function does. `Recursion` proves that one does whenever the parts a
value depends on are less deep (`RecursionExists`), and that a set of data to which
every datum belongs whose shallower ones do is all of the data (`Shallowest`): sets in
place of the predicates that the library's induction theorems take. The constant
`Depth` gives each clause a number greater than those of its sub-clauses. The code
justifies it: a clause is a BSON document, of finite length. `MCDepth` computes it for
the instance. `ValueDepth` does the same for the values of `LeafOps`, whose tables enter
arrays: a document is of finite length too. A recursion that answers yes or no needs less
said about it (`PredicateExists`).

Only model-checked, and why. The liveness properties (`MatchEnds`, `LoopEnds`): the
prover has no rules for fairness. The properties of `OptionalOps` (`TextMeaning`,
`RangeMeaning`, `SealMeaning`, `StopsOnlyIf`, `NothingLost`): the values of a document and
what may come of one are RECURSIVE operators there, which take the SMT solver away from
every module that reaches them. Of the geo operators, the loop over a ring and what a
`$near` of a geometry matches have no property of their own. Of the search for paths,
that the loop ends, and what is shown of a path with a position or a wildcard beyond that it
is at the path: such a path may be shown values twice and may miss some (section 5).

## 5. Known divergences

With a run that exhibits them (see `findings` in `PROJECT.json`): a refused third
clause is dropped; a matcher compiled before startup follows NULL; a path of a
`$foundin` that is looked for through arrays goes on with the counters of the paths
before it and loses values.
In three more the code and its documentation disagree. The models have what the code
does, and the properties named are of the cases where the two agree:

- `$inset` is an `$in` with a hash table (`README.md:118`), but its strings are cut at
  a zero byte when they are put in (`mongoc-matcher-op.c:150`) and when they are looked
  up (1836), where `$in` compares length and bytes (1419). So `$inset` of `"a\0x"`
  matches `"a"`; what `$in` finds it never misses (`InsetIsIn`);
- of the paths of a `$foundin` "duplicate strings will be ignored"
  (`mongoc-projection.c:177`), and line 227 adds each without looking whether it is
  there: a path listed twice is asked twice, and its values come twice where the
  counters allow it. `FoundinUnion` is of lists of different paths;
- a point near a line matches (`mongoc-matcher-op-geojson.c:122`), unless the first key
  of its path holds no document: line 143, and 102 for a point near a point, test `iter`,
  which is left there, and not `desc`. A path such as `a.0` never matches,
  and an array at `a.b` is taken for the point (0, 0). `NearLine` is of the other paths.

Seen while modelling and kept in the models as the code has them, without a run:

- `$nor` over three clauses becomes `nor(a, nor(b, c))`, and over one the clause
  itself (`mongoc-matcher.c:406`); `MatchMeaning` leaves such lists out;
- the regex cache is looked up without the option (`mongoc-matcher-op.c:1371`), so
  that a pattern first used exactly stays exact (against `README.md:139`);
- where a document on the way has a key twice, the search may stop at the first of the
  two and find nothing; `SomeFound` and `FlatComplete` leave such documents out
  (`KeysOnce`). Nothing in the code keeps them from being made;
- a document on the way that has the key reports "not found" without using up a
  skip, and its later siblings are never shown (`mongoc-bson-descendants.c:102`):
  of `{a: [{b: {c: 1}}, {b: {c: 2}}]}` the path `a.b.c` is shown only 1;
- `{$exists: false}` on a dotted path that leads to nothing answers false
  (`mongoc-matcher-op.c:802`, against the comment at 767);
- the spec of an `$exists` that is refused is kept as no spec
  (`mongoc-matcher-op.c:97`), so the query compiles to a plain `$exists`;
- `$near` without a distance returns NULL without `@error`
  (`mongoc-matcher.c:180`); `StopsExplained` names it as the only such way out;
- some refused clauses abort the process through `BSON_ASSERT`
  (`mongoc-matcher.c:210`, `mongoc-matcher-op-conditional.c:91`);
  `StopsExplained` lists them;
- a matcher destroyed after `bsonsearch_shutdown` does not get `m_destroy`
  (`mongoc-matcher-op-modules.c:136`, against `mongoc-matcher-op-modules.h:55`);
- a plain path that is missing ends without the final empty search
  (`mongoc-matcher-op-modules.c:114`, against `matcher-module-sample.c:39`);
- `$ne` is to be true "if the field "path" was not found"
  (`mongoc-matcher-op.c:2088`) and is false then, as every comparison is; `$eq`
  is to work "for all types" and has no rows for two binaries or two timestamps;
- `a.$any.b` over a list of documents, and `a.b.0.c`, lose values: the loop over
  the elements overwrites what the position had found
  (`mongoc-bson-descendants.c:130`); with a wildcard or a position a value may
  also be shown twice, by both ways that lead to it.


Geo (`mongoc-matcher-op-geojson.c`):

- a document's polygon is to have "each point" inside the area (line 728); the
  loop ors the answers and goes on while they are true, so the first point decides;
- the walk along a boundary keeps its start at the first vertex (line 152), so
  every arc is taken from there; a line of one point is read through NULL (163),
  and the last op of a chain is no point of the line;
- `$minDistance` is not looked at for a point (line 88, against `README.md:301`);
- a fifth axis is ignored, and two points of less than two axes are of the same
  kind, UNDEFINED, and match at distance 0;
- a document without coordinates counts as the point (0, 0), and aborts in front
  of a polygon;
- a polygon that fills the list is freed and written to by the keys after it (483);
- the parity of the crossings decides (892), so that what a polygon goes round twice is
  not within it.

Projection: what collects the values is to give "a unique list of values"
(`mongoc-projection.c:243`) and gives equal values as often as they are found;
`value_into_array` skips or repeats keys when an array holds arrays or
values it leaves out (`mongoc-projection.c:440`); a dotted path that leads straight
to a value does not advance `checked` (280), so that the next path of a `$foundin`
uses its key again; a `$redact` of nothing and an `$unwind`
without one of its parts abort; a second `$project` of an `$unwind` leaks the first.

Text: "sweedish" and "tamil" are accepted and have no stemmer
(`mongoc-matcher-op-text.c:114`), which ends in an assertion; `$opcode` is compared
up to its own length, so that `"$"` is `$wordcount`; the percentage of no words is
0/0; a percentage is one less than it is where the division is rounded below
(`mongoc-matcher-op-text.c:359`): 29 of 50 words are 57 percent, 29 of 100 are 28; a `$dictionary` that no opcode uses is not freed; a `$text` without `$size`
aborts at its destroy or match.

IP: a set on a path through arrays never matches (`mongoc-matcher-op-ip.c:155`); only
the first range's subtype is compared; a third binary of a range overwrites the
mask; a set without a good range is followed through NULL (230); the module's
`{ips: [[]]}` accepts every generic address, and ranges it refuses are not freed.

Sealed boxes: keys are copied with `strncpy`, so that one with a zero byte is cut
(`mongoc-matcher-op-crypt.c:103`); an op that is not complete is destroyed with the
pointers that `sodium_malloc` left in it (52); a binary shorter than a seal
underflows the length of the buffer (160).

C API: `get_array_len` recurses into `iter` instead of the descendant it has just
found (`bsoncompare.c:359`), which differs on a dotted path; not modelled.

An empty document as a clause makes the parser read an iterator past its end.
That is undefined, and the models leave such queries out.

## 6. Not modelled, and what is left

- *yara*: almost all of it turns JSON rules into the text of a rule file and hands
  it to libyara.
- *disco and ether*: lookups in files through discodb and zlib; their callbacks keep
  the protocol that `ModuleOps` models for the default modules.
- *A matcher as BSON*: formatting, for debugging.
- *The conversions of the Python extension* and the printing functions of the C API.
- *Options given twice* are modelled, but the properties of the optional operators
  speak of specs with each option once; what a range set answers after some of its
  ranges were refused has no property.
- *Four orderings* are one operator, `OrderedOf`, as their tables are the same: a row
  that one of them lost would not show.
- *Trigonometry and rounding* of the geo operators; JSON parsing, PCRE, stemming,
  spelling and cryptography, which are other libraries'.

Done, in this order: `OpTree`, `ModuleOps`, `RegexCache`, `Descendants`, `LeafMatch`, each
with its proofs where there are some; `Projection`, `Geo`, `Library` with its proofs, and the
optional operators; the theorems about the walks, the validity and the meaning of queries. Left: a `$geometry` given twice in one spec; matches that
share module ops with the cache in one composed model.
