-------------------------- MODULE MCPositionalOps --------------------------
(***************************************************************************)
(* Every type over one leaf type with nesting depth up to 3 and tuples of *)
(* up to two elements: 508 types, among them tuple<> at every depth and   *)
(* positions whose leaves start after an empty or a nested element.  The  *)
(* positions run from one below to one past the end of a two-element      *)
(* tuple, in lists of up to two (repeats and reversed order included).    *)
(***************************************************************************)
EXTENDS PositionalOps

CONSTANT I32   \* the leaf type i32, a model value

MCLeafTypes == {I32}

MCPositions == -1..2

=============================================================================
