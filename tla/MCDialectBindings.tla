------------------------- MODULE MCDialectBindings -------------------------
(***************************************************************************)
(* The Python bindings with two leaf types, one Python object that is not *)
(* a type, column lists of up to two entries, positions -1 to 2, and up   *)
(* to two TupleAttrs.                                                      *)
(***************************************************************************)
EXTENDS DialectBindings

CONSTANTS
  I32,     \* the leaf type i32, a model value
  F32,     \* the leaf type f32, a model value
  PyNone   \* a Python object that is not an MlirType

MCLeafTypes    == {I32, F32}
MCLeafAttrs    == {[type |-> I32, val |-> 7]}
MCUntypedAttrs == {}
MCOtherTypes   == {}
MCNotTypes     == {PyNone}
MCPositions    == -1..2

=============================================================================
