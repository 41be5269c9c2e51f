\* Python TupleAttr.get in a build with assertions.
CONSTANTS
  LeafTypes <- MCLeafTypes
  LeafAttrs <- MCLeafAttrs
  UntypedAttrs <- MCUntypedAttrs
  OtherTypes <- MCOtherTypes
  Assertions = TRUE
  NoneType = NoneType
  NullType = NullType
  I32 = I32
  MaxElems = 2
  MaxAttrs = 3

SPECIFICATION Spec

\* Calls stop at the bound on created attributes, or after an abort.
CHECK_DEADLOCK FALSE

PROPERTIES
  PythonGetNeverAborts
