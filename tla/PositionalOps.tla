--------------------------- MODULE PositionalOps ---------------------------
(***************************************************************************)
(* The four operations that address elements of a tuple by position       *)
(* (tuple.extract, tuple.insert, tuple.extract_slice, tuple.insert_slice), *)
(* from the custom parser that types them (Tuple.cpp) to the pattern that *)
(* decomposes them (DecomposeTuples.cpp).                                  *)
(*                                                                         *)
(* Only the parsers check a position against the tuple: the patterns look *)
(* every position up in the element mapping of the tuple operand without  *)
(* a check.  The state is the type of the tuple operand, as in            *)
(* FlatteningMap; every op over it with positions from Positions is       *)
(* considered, in range or not.  A converted value is represented by its  *)
(* leaf data: the tuple operand's leaves are 1, 2, ... (LeafData), the     *)
(* inserted operand's 101, 102, ..., so a value read from or written to a *)
(* wrong offset shows up in the pattern's result.                          *)
(***************************************************************************)
EXTENDS FlatteningMap

CONSTANTS
  Positions,     \* the integers a position attribute may hold
  MaxPositions   \* bound on the length of a positions array

(* Positional ops over a tuple operand of the current type.                *)
PositionalOps ==
  [kind : {"extract", "insert"}, pos : Positions]
    \cup [kind : {"extract_slice", "insert_slice"},
          positions : BoundedSeq(Positions, MaxPositions)]

OpPositions(op) ==
  IF op.kind \in {"extract", "insert"} THEN {op.pos} ELSE Range(op.positions)

(* The positions a pattern passes to getConvertedValues or getInputMapping *)
(* of the element mapping of its tuple operand: the one position of        *)
(* extract and insert, every listed position of the slice ops.  The        *)
(* int64_t/int32_t position becomes an unsigned index, so a negative one   *)
(* is at least 2^31: past the end of any mapping.                          *)
LookedUpPositions(op) == OpPositions(op)

(* The custom parser's verdict on the op: parseTupleElementType for       *)
(* extract and insert, parseTupleElementTypes with positions for          *)
(* extract_slice, parseInsertSliceTypes for insert_slice.                  *)
Parses(op) ==
  CASE op.kind \in {"extract", "insert"} -> ParseTupleElementType(type, op.pos) # {}
    [] op.kind = "extract_slice"          -> ParseTupleElementTypes(type, op.positions) # {}
    [] op.kind = "insert_slice"           -> ParseInsertSliceTypes(type, op.positions) # {}

(* The type of the op's result: the parsed element type of extract, the   *)
(* parsed slice type of extract_slice, the tuple type for the inserts.    *)
ResultType(op) ==
  CASE op.kind = "extract"       -> Get(ParseTupleElementType(type, op.pos))
    [] op.kind = "extract_slice" -> Get(ParseTupleElementTypes(type, op.positions))
    [] op.kind \in {"insert", "insert_slice"} -> type

(* The operand the parser types from the tuple: the element of insert,    *)
(* the slice of insert_slice.                                              *)
InsertedType(op) ==
  IF op.kind = "insert" THEN Get(ParseTupleElementType(type, op.pos))
                        ELSE Get(ParseInsertSliceTypes(type, op.positions))

(* The value of the inserted operand: leaves 101, 102, ...                *)
InsertedValue(op) ==
  LET e == InsertedType(op) IN Unflatten(e, [k \in 1..LeafCount(e) |-> 100 + k])

(* The converted values of the inserted operand.                           *)
InsertedLeaves(op) == Leaves(InsertedType(op), InsertedValue(op))

(* The values the op's pattern replaces it with, the inserted operand (if *)
(* any) first and the tuple second, as in the op's operand list.          *)
Rewritten(op) ==
  CASE op.kind = "extract" ->
         DecomposeExtractOp(type, SignatureMapping(<<type>>), LeafData, op.pos)
    [] op.kind = "extract_slice" ->
         DecomposeExtractSliceOp(type, SignatureMapping(<<type>>), LeafData, op.positions)
    [] op.kind = "insert" ->
         DecomposeInsertOp(type, SignatureMapping(<<InsertedType(op), type>>),
                           InsertedLeaves(op) \o LeafData, op.pos)
    [] op.kind = "insert_slice" ->
         DecomposeInsertSliceOp(InsertedType(op), type,
                                SignatureMapping(<<InsertedType(op), type>>),
                                InsertedLeaves(op) \o LeafData, op.positions)

(* The value of the op's result by the meaning of the op (TupleDialect),  *)
(* the reference the pattern's result is compared with.                    *)
Semantics(op) ==
  CASE op.kind = "extract"       -> ExtractValue(Value, op.pos)
    [] op.kind = "extract_slice" -> ExtractSliceValue(Value, op.positions)
    [] op.kind = "insert"        -> InsertValue(InsertedValue(op), Value, op.pos)
    [] op.kind = "insert_slice"  -> InsertSliceValue(InsertedValue(op), Value, op.positions)

(* The assertions the insert patterns make before writing.                *)
PatternAssertions(op) ==
  CASE op.kind = "insert" ->
         InsertOpAssertion(type, SignatureMapping(<<InsertedType(op), type>>),
                           InsertedLeaves(op) \o LeafData, op.pos)
    [] op.kind = "insert_slice" ->
         InsertSliceOpAssertion(InsertedType(op), type, op.positions)
    [] op.kind \in {"extract", "extract_slice"} -> TRUE

(* OneToNTypeMapping::getInputMapping(i) reads remappedInputs[i]: past    *)
(* the end SmallVector::operator[] asserts in a debug build and reads      *)
(* beyond the vector in a release build.  A pattern that only looks up    *)
(* mapped positions succeeds.                                              *)
RewriteOutcomes(op) ==
  IF LookedUpPositions(op) \subseteq DOMAIN SignatureMapping(type)
  THEN {"success"}
  ELSE {"abort", "undefined"}

-----------------------------------------------------------------------------
(* For every positional op the custom parser accepts, negative and        *)
(* past-the-end positions included in what it is offered, the pattern     *)
(* looks up only positions the element mapping has, the insert patterns'  *)
(* assertions hold, and the values the pattern produces are the leaves of *)
(* the op's result, in order: extract_slice appends repeats in list order, *)
(* insert and insert_slice write each element at its own offset (after    *)
(* empty and nested elements too), and the last write to a repeated       *)
(* position wins.  The parser's type inference in Tuple.cpp is what makes *)
(* the unchecked position lookups in DecomposeTuples.cpp safe.             *)
ParsedPositionalOpsRewriteToSemantics ==
  IsTupleType(type) =>
    \A op \in PositionalOps :
      Parses(op) =>
        /\ LookedUpPositions(op) \subseteq DOMAIN SignatureMapping(type)
        /\ PatternAssertions(op)
        /\ Rewritten(op) = Leaves(ResultType(op), Semantics(op))

(* spec.md section 7 and the failure scenario of section 8: an op whose   *)
(* position indexes beyond the tuple's children reports                    *)
(* PositionOutOfBounds and fails the pass.  The patterns have no such     *)
(* check: such an op, built without the parser, is rewritten by looking   *)
(* the position up past the end of the element mapping.                    *)
OutOfBoundsPositionFailsPass ==
  IsTupleType(type) =>
    \A op \in PositionalOps :
      (\E p \in OpPositions(op) : ~InBounds(type, p)) =>
        RewriteOutcomes(op) = {"failure"}

=============================================================================
