------------------------------- MODULE IpOps -------------------------------
(***************************************************************************)
(* $inIPrange and $inIPrangeset (lib/mongoc-matcher-op-ip.c) and the ip    *)
(* module, which was made to do the same (lib/matcher-module-ip.c).        *)
(*                                                                         *)
(* An address is a binary: its subtype (IPv4 or IPv6), whether it has 16   *)
(* bytes, and the bits that are 1 in it.  A range is an address and a      *)
(* netmask, given as an array of two binaries.                             *)
(***************************************************************************)
EXTENDS Sequences, SequencesExt

CONSTANT Generic \* the subtype 0

IsBinary(v) == v.type = "address"

\* _mongoc_matcher_op_iniprange_build_ip: the loop does not stop at two.
ReadBinary(r, v) ==
  CASE r.made = "assert" \/ r.short              -> r
    [] ~r.short /\ ~IsBinary(v)                  -> [r EXCEPT !.made = "assert"]
    [] ~r.short /\ IsBinary(v) /\ ~v.full        -> [r EXCEPT !.short = TRUE]
    [] ~r.short /\ IsBinary(v) /\ v.full /\ r.made = "none" ->
         [r EXCEPT !.made = "low", !.base = v.bits, !.subtype = v.subtype]
    [] ~r.short /\ IsBinary(v) /\ v.full /\ r.made # "none" ->
         IF v.subtype = r.subtype THEN [r EXCEPT !.made = "op", !.mask = v.bits]
         ELSE [r EXCEPT !.made = "assert"]

NewRange(base, mask, subtype, made) ==
  [made |-> made, short |-> FALSE, base |-> base, mask |-> mask, subtype |-> subtype]

BuildRange(items) == FoldLeft(ReadBinary, NewRange({}, {}, Generic, "none"), items)

\* A chain of ranges: the op's own, or what follows it.
Chain(made, ranges) == [made |-> made, ranges |-> ranges, lost |-> 0]

RangeOp(spec) ==
  LET r == BuildRange(spec.items)
  IN  IF r.made = "op" THEN Chain("op", <<r>>)
      ELSE Chain(IF r.made = "assert" THEN "assert" ELSE "null", << >>)

\* Mutant: a list that is no range is fatal.
AddRangeStrict(op, r) ==
  IF r.made = "op" /\ op.made = "op" THEN [op EXCEPT !.ranges = Append(@, r)]
  ELSE [op EXCEPT !.made = "assert"]
\* A list that is no range is left out.
AddRange(op, r) ==
  CASE op.made = "assert" \/ r.made = "assert"  -> [op EXCEPT !.made = "assert"]
    [] op.made # "assert" /\ r.made = "op"      -> [op EXCEPT !.ranges = Append(@, r)]
    [] OTHER                                    -> op

\* _mongoc_matcher_op_iniprangeset_build_ip: what is no list is left out, and the
\* set may stay empty.
RangeSetOp(spec) ==
  LET add(op, v) == IF v.type = "array" THEN AddRange(op, BuildRange(v.items)) ELSE op
  IN  FoldLeft(add, Chain("op", << >>), spec.items)

\* matcher_module_ip_unload_ip: the first two, of 16 bytes and one subtype.
Unloads(items) ==
  /\ Len(items) >= 2 /\ IsBinary(items[2])
  /\ items[1].full /\ items[2].full
  /\ items[1].subtype = items[2].subtype

Unload(items) == NewRange(items[1].bits, items[2].bits, items[1].subtype, "op")

\* matcher_module_ip_startup and _unload_ips.  The head of the chain is there
\* before the first range is; one range refused refuses all, and frees the head.
ModuleOp(spec) ==
  LET given  == CASE spec.items # << >> /\ IsBinary(spec.items[1]) -> <<spec>>
                  [] OTHER -> SelectSeq(spec.items, LAMBDA v :
                                v.type = "array" /\ v.items # << >> /\ IsBinary(v.items[1]))
      good   == \A i \in DOMAIN given : Unloads(given[i].items)
      listed == spec.items # << >> /\ spec.items[1].type \in {"address", "array"}
  IN  CASE listed /\ good /\ given # << >> ->
             Chain("op", [i \in DOMAIN given |-> Unload(given[i].items)])
        [] listed /\ good /\ given = << >> ->
             Chain("op", <<NewRange({}, {}, Generic, "op")>>)
        [] listed /\ ~good -> [Chain("op", << >>) EXCEPT !.lost = Len(given) - 1]
        [] ~listed         -> Chain("op", << >>)
-----------------------------------------------------------------------------
Criteria(r)   == r.base \cap r.mask
InRange(r, v) == v.bits \cap r.mask = Criteria(r)

\* Mutant: the chain is not followed.
InChainHead(op, v) == InRange(op.ranges[1], v)
InChain(op, v)     == \E i \in DOMAIN op.ranges : InRange(op.ranges[i], v)

\* The three _match_iter.  Only the subtype of the first range is looked at, and
\* a chain without one is followed.
IpOutcomes(op, v) ==
  CASE ~v.full                      -> {"no"}
    [] v.full /\ op.ranges = << >>  -> {"crash"}
    [] v.full /\ op.ranges # << >>  ->
         {IF v.subtype = op.ranges[1].subtype /\ InChain(op, v) THEN "yes" ELSE "no"}
=============================================================================
