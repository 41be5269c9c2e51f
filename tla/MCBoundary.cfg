\* The empty-tuple function without convert-func-ops: the argument and the
\* return keep their tuple types, so every boundary with them is a
\* materialization.
CONSTANTS
  Prog <- EmptyProg
  LeafTypes <- MCLeafTypes
  ConvertFuncOps = FALSE
  NoValue = NoValue
  I32 = I32

SPECIFICATION Spec

\* The pass stops once it has materialized the remaining casts.
CHECK_DEADLOCK FALSE

INVARIANTS
  ValuesPreserved
