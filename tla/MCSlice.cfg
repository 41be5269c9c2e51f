\* The slice function, with the function signature and returns
\* converted as well (convert-func-ops).
CONSTANTS
  Prog <- SliceProg
  LeafTypes <- MCLeafTypes
  ConvertFuncOps = TRUE
  NoValue = NoValue
  I32 = I32

SPECIFICATION Spec

\* The pass stops once it has materialized the remaining casts.
CHECK_DEADLOCK FALSE

INVARIANTS
  ValuesPreserved
  AssertionsHold

PROPERTIES
  Refinement
