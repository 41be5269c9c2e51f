\* A Python program that registers before use and reads any column position.
CONSTANTS
  LeafTypes <- MCLeafTypes
  LeafAttrs <- MCLeafAttrs
  UntypedAttrs <- MCUntypedAttrs
  OtherTypes <- MCOtherTypes
  NotTypes <- MCNotTypes
  Positions <- MCPositions
  Assertions = TRUE
  NoneType = NoneType
  NullType = NullType
  I32 = I32
  F32 = F32
  PyNone = PyNone
  MaxElems = 2
  MaxAttrs = 2
  MaxCols = 2
  LoadFlags = {TRUE}
  ClientRegisters = TRUE
  ClientInRange = FALSE

SPECIFICATION BindingsSpec

INVARIANTS
  NoCrash
