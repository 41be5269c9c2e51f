\* The empty function of MCDecomposeTuples, func ops converted.
CONSTANTS
  Prog <- EmptyProg
  LeafTypes <- MCLeafTypes
  ConvertFuncOps = TRUE
  NoValue = NoValue
  I32 = I32

SPECIFICATION Spec

\* The pass stops once it has materialized the remaining casts.
CHECK_DEADLOCK FALSE

INVARIANTS
  ValuesPreserved
  AssertionsHold

PROPERTIES
  Refinement
