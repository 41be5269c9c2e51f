\* Every entry point, in a release build.
CONSTANTS
  LeafTypes <- MCLeafTypes
  LeafAttrs <- MCLeafAttrs
  UntypedAttrs <- MCUntypedAttrs
  OtherTypes <- MCOtherTypes
  Assertions = FALSE
  NoneType = NoneType
  NullType = NullType
  I32 = I32
  MaxElems = 2
  MaxAttrs = 3

SPECIFICATION Spec

\* Calls stop at the bound on created attributes, or after an abort.
CHECK_DEADLOCK FALSE

INVARIANTS
  ConstantsFlattenConsistently

