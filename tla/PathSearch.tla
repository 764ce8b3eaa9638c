------------------------------ MODULE PathSearch ------------------------------
(***************************************************************************)
(* The search that every op with a dotted path asks for its values:        *)
(* bson_iter_find_descendant of libbson and bson_iter_find_descendants of  *)
(* lib/mongoc-bson-descendants.c.                                          *)
(*                                                                         *)
(* A value is a scalar, or a document or an array as the sequence of its   *)
(* items; the keys of an array are "0", "1", ...  A path is the sequence   *)
(* of its keys, "$any" for one that begins with a dollar.  A found value   *)
(* is its place: the positions of the items that lead to it.               *)
(***************************************************************************)
EXTENDS Naturals, Sequences

CONSTANTS Keys, \* the keys that items and paths have
          Value \* the values

Container(v) == v.type \in {"doc", "array"}
Items        == Seq([key : Keys, val : Value])
DottedPath   == Seq(Keys \cup {"$any"}) \ {<< >>}

\* What is in a value is a value.
ASSUME ValueAssumption == \A v \in Value : Container(v) => v.items \in Items
-----------------------------------------------------------------------------
\* What a call returns: whether it found one, what it leaves in *skip, and the
\* place in *descendant, which nobody reads if it found none.
Results              == [found : BOOLEAN, skip : Nat, place : Seq(Nat)]
Result(found, s, pl) == [found |-> found, skip |-> s, place |-> pl]
NotFound(s)          == Result(FALSE, s, << >>)
Under(i, r)          == Result(r.found, r.skip, <<i>> \o r.place)

\* The positions of the items that a key names, one after the other for
\* _mongoc_bson_iter_move_to_key.
Named(key, items) == {i \in DOMAIN items : key \in {"$any", items[i].key}}
FirstOf(S)        == CHOOSE i \in S : \A j \in S : i <= j

\* The last key of a path: only a wildcard consumes skip.
LastKey(items, key, s) ==
  LET i    == FirstOf(Named(key, items))
      left == Len(items) - i
  IN  IF Named(key, items) = {}  THEN NotFound(s)
      ELSE IF key # "$any"       THEN Result(TRUE, s, <<i>>)
      ELSE IF s <= left          THEN Result(TRUE, 0, <<i + s>>)
      ELSE NotFound(s - left)

\* Mutant: a value that is passed over does not use up a skip.
InSubDocumentsKeepsSkip(search, items) ==
  LET from[k \in 1 .. Len(items) + 1] ==
        [last \in Results |->
           LET sub == search[items[k].val.items][last.skip]
           IN  IF k = Len(items) + 1 THEN last
               ELSE IF ~Container(items[k].val) THEN from[k + 1][last]
               ELSE IF sub.found /\ sub.skip = 0 THEN Under(k, sub)
               ELSE from[k + 1][NotFound(sub.skip)]]
  IN  from[1]

\* Mutant: the loop has no break.
InSubDocumentsRunsOn(search, items) ==
  LET from[k \in 1 .. Len(items) + 1] ==
        [last \in Results |->
           LET sub == search[items[k].val.items][last.skip]
           IN  IF k = Len(items) + 1 THEN last
               ELSE IF ~Container(items[k].val) THEN from[k + 1][last]
               ELSE IF sub.found /\ sub.skip = 0 THEN from[k + 1][Under(k, sub)]
               ELSE from[k + 1][NotFound(IF sub.found THEN sub.skip - 1 ELSE sub.skip)]]
  IN  from[1]

\* The elements of an array in turn, after the last result; one that can be
\* entered overwrites what the key as a position had found.
InSubDocuments(search, items) ==
  LET from[k \in 1 .. Len(items) + 1] ==
        [last \in Results |->
           LET sub == search[items[k].val.items][last.skip]
           IN  IF k = Len(items) + 1 THEN last
               ELSE IF ~Container(items[k].val) THEN from[k + 1][last]
               ELSE IF sub.found /\ sub.skip = 0 THEN Under(k, sub)
               ELSE from[k + 1][NotFound(IF sub.found THEN sub.skip - 1 ELSE sub.skip)]]
  IN  from[1]

\* The loop over the items that a key names, when there are keys after it, for
\* which search stands.  A value found with skip left over is passed over, and
\* the loop goes on; but after the last document the skip is left as it is.
InItems(search, key, items) ==
  LET from[k \in 1 .. Len(items) + 1] ==
        [s \in Nat |->
           LET val == items[k].val
               sub == search[val.items][s]
           IN  IF k = Len(items) + 1 THEN NotFound(s)
               ELSE IF k \notin Named(key, items) THEN from[k + 1][s]
               ELSE IF ~Container(val) THEN NotFound(s)
               ELSE IF sub.found /\ sub.skip > 0
                    THEN IF val.type = "doc" /\ \A j \in Named(key, items) : j <= k
                         THEN NotFound(sub.skip)
                         ELSE from[k + 1][sub.skip - 1]
               ELSE IF val.type = "doc" THEN Under(k, sub)
               ELSE Under(k, InSubDocuments(search, val.items)[sub])]
  IN  from[1]

\* bson_iter_find_descendants, for the items and the skip that it is given.
FindDescendants[keys \in DottedPath] ==
  [items \in Items |->
     IF Len(keys) = 1 THEN [s \in Nat |-> LastKey(items, keys[1], s)]
     ELSE InItems(FindDescendants[Tail(keys)], keys[1], items)]

\* bson_iter_find_descendant of libbson: each key as it stands, the first item
\* of that name, no elements of arrays but by position.  << >> if there is none.
FindDirect[keys \in DottedPath] ==
  [items \in Items |->
     LET named == {j \in DOMAIN items : items[j].key = keys[1]}
         i     == FirstOf(named)
         below == FindDirect[Tail(keys)][items[i].val.items]
     IN  IF named = {} THEN << >>
         ELSE IF Len(keys) = 1 THEN <<i>>
         ELSE IF ~Container(items[i].val) \/ below = << >> THEN << >>
         ELSE <<i>> \o below]
=============================================================================
