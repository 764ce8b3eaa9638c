----------------------------- MODULE MCModuleOps -----------------------------
(***************************************************************************)
(* Small instances of ModuleOps for TLC: 3-bit integers, so that a total   *)
(* of two values can overflow, and documents with up to two values.        *)
(***************************************************************************)
EXTENDS ModulePromises, TLC

V(k, n)  == [kind |-> k, n |-> n]
MCValues == {V("int", 1), V("int", 3), V("double", 2), V("array", 2), V("text", 0)}

\* A value at the path itself, or none and what find_descendants yields.
MCDocs ==
  {[direct |-> v, spread |-> << >>] : v \in MCValues}
    \cup {[direct |-> None, spread |-> vs] :
            vs \in {<< >>, <<V("array", 2)>>}
                     \cup [1 .. 2 -> {V("int", 1), V("int", 3), V("text", 0)}]}

Good(set) == [good |-> TRUE, accepts |-> set]
Bad       == [good |-> FALSE, accepts |-> {}]

SpecsOf(names, configs) ==
  [name : names, config : configs, dotted : BOOLEAN]

CompleteSpecs ==
  SpecsOf(Module \cup {"unregistered"}, {Good(1 .. 2), Good({-4, 0})})

AllSpecs ==
  SpecsOf(Module \cup {"unregistered", None}, {Good(0 .. 2), Bad, None})

\* Fewer documents where every query and order of calls is tried.
FewDocs ==
  {[direct |-> v, spread |-> << >>] : v \in {V("int", 1), V("text", 0)}}
    \cup {[direct |-> None, spread |-> vs] :
            vs \in {<< >>, <<V("int", 3), V("double", 2)>>, <<V("text", 0)>>}}

\* The ops are alike; sound for the runs that check invariants only.
Symmetry == Permutations(Op)
=============================================================================
