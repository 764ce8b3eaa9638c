------------------------------ MODULE Lengths ------------------------------
(***************************************************************************)
(* The comparison of a length with a $size, $strlen or $text ($size)       *)
(* (lib/mongoc-matcher-op.c).                                              *)
(***************************************************************************)
EXTENDS Integers

Rel(code, a, b) ==
  CASE code = "eq"  -> a = b
    [] code = "gt"  -> a > b
    [] code = "gte" -> a >= b
    [] code = "lt"  -> a < b
    [] code = "lte" -> a <= b

\* _mongoc_matcher_op_size_new: {$size: n} or {$size: {$gt: n}} with an int32; a
\* spec it does not know compares with nothing.  A negative n is cast to
\* uint32_t and is longer than anything there is.
SizeSpec(spec) ==
  CASE spec.type = "int32" ->
         [code |-> "eq", n |-> IF spec.n < 0 THEN 1000 ELSE spec.n]
    [] spec.type = "doc" /\ spec.key \in {"gte", "lte", "gt", "lt", "eq", "not"}
         /\ spec.val.type = "int32" /\ spec.val.n >= 0 ->
         [code |-> spec.key, n |-> spec.val.n]
    [] OTHER -> [code |-> "undefined", n |-> 0]

\* _mongoc_matcher_op_length_match_value
LengthMatch(spec, length) ==
  LET size == SizeSpec(spec)
  IN  CASE size.code = "undefined" -> FALSE
        [] size.code = "not"       -> length # size.n
        [] OTHER                   -> Rel(size.code, length, size.n)
=============================================================================
