\* The flattening map, both materializations and the positional ops the
\* parser accepts, over all small types.
CONSTANTS
  LeafTypes <- MCLeafTypes
  I32 = I32
  MaxDepth = 3
  MaxWidth = 2
  Positions <- MCPositions
  MaxPositions = 2

SPECIFICATION Spec

INVARIANTS
  MappingMatchesLeaves
  MaterializationsRoundTrip
  ParsedPositionalOpsRewriteToSemantics
