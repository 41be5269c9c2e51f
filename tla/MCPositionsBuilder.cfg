\* An op with an out-of-range position fails the pass (spec.md section 8).
CONSTANTS
  LeafTypes <- MCLeafTypes
  I32 = I32
  MaxDepth = 3
  MaxWidth = 2
  Positions <- MCPositions
  MaxPositions = 2

SPECIFICATION Spec

INVARIANTS
  OutOfBoundsPositionFailsPass
