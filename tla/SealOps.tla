------------------------------ MODULE SealOps ------------------------------
(***************************************************************************)
(* $sealOpen (lib/mongoc-matcher-op-crypt.c): a query that is asked of the *)
(* document in a box sealed for its keys.                                  *)
(*                                                                         *)
(* libsodium is external: a box is made for the owner of a key pair, and   *)
(* opens with both keys of that owner.  A key is its owner's, and may have *)
(* a zero byte before its end.  sodium_init is taken to succeed.           *)
(***************************************************************************)
EXTENDS Naturals, Sequences, SequencesExt

CONSTANT Nobody \* whose key is none

SealOp0 ==
  [made |-> "op", has |-> {}, pk |-> Nobody, sk |-> Nobody, accepts |-> {}, lost |-> 0]

\* strncpy stops at a zero byte.
Kept(key) == IF key.zero THEN Nobody ELSE key.owner

\* _mongoc_matcher_parse_crypt_keys: what is no binary of the length is left out.
ReadKey(op, e) ==
  CASE e.key = "pk" /\ e.val.type = "key" ->
         [op EXCEPT !.pk = Kept(e.val), !.has = @ \cup {"pk"}]
    [] e.key = "sk" /\ e.val.type = "key" ->
         [op EXCEPT !.sk = Kept(e.val), !.has = @ \cup {"sk"}]
    [] OTHER -> op

\* _mongoc_matcher_parse_crypt_loop.  A query that is refused is left out.
ReadSeal(op, e) ==
  CASE e.key = "$query" /\ e.val.type = "query" ->
         [op EXCEPT !.accepts = e.val.accepts, !.has = @ \cup {"query"},
                    !.lost = @ + IF "query" \in op.has THEN 1 ELSE 0]
    [] e.key = "$keys" /\ e.val.type = "keys"   -> FoldLeft(ReadKey, op, e.val.entries)
    [] OTHER                                    -> op

\* An op that is not complete is destroyed, its query included: sodium_malloc
\* does not clear what it gives, so that without one the pointer is garbage.
BuildSeal(entries) ==
  LET op == FoldLeft(ReadSeal, SealOp0, entries)
  IN  CASE op.has = {"pk", "sk", "query"}                     -> op
        [] "query" \notin op.has                              -> [op EXCEPT !.made = "crash"]
        [] "query" \in op.has /\ op.has # {"pk", "sk", "query"} -> [op EXCEPT !.made = "null"]

\* A binary shorter than a seal makes the length of what is in it wrap: almost
\* 4 GB are asked for, and may be had.  An empty message is no data to bson.
SealOutcomes(op, v) ==
  CASE v.type = "address" -> {"no", "crash"}
    [] v.type = "box"     ->
         IF op.pk # v.owner \/ op.sk # v.owner THEN {"no"}
         ELSE IF v.content = "empty" THEN {"crash"}
         ELSE {IF v.content \in op.accepts THEN "yes" ELSE "no"}
    [] OTHER              -> {"no"}
=============================================================================
