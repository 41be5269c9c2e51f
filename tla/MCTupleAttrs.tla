---------------------------- MODULE MCTupleAttrs ----------------------------
(***************************************************************************)
(* Attribute construction with one leaf type, one integer attribute, one  *)
(* unit attribute, ArrayAttrs of up to two elements and up to three        *)
(* TupleAttrs, enough to nest a TupleAttr in another and pass each self   *)
(* type kind.                                                              *)
(***************************************************************************)
EXTENDS TupleAttrs

CONSTANT I32   \* the leaf type i32, a model value

MCLeafTypes    == {I32}
MCLeafAttrs    == {[type |-> I32, val |-> 7]}
MCUntypedAttrs == {[kind |-> "unit"]}
MCOtherTypes   == {I32, <<I32, I32>>}

=============================================================================
