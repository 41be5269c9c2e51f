-------------------------- MODULE DecomposePatterns --------------------------
(***************************************************************************)
(* The rewrite patterns of DecomposeTuples.cpp and the materializations   *)
(* the pass registers with the one-to-N type converter.                    *)
(*                                                                         *)
(* A pattern works on values, not on data: given the operand type mapping *)
(* and the converted operands (a flat sequence of value handles) it        *)
(* returns the flat sequence of values that replace the op's results.      *)
(* Handles are opaque here; the driver (DecomposeTuples) gives them        *)
(* meaning.  The one handle a pattern creates is <<"cst", a>>, the result  *)
(* of an arith.constant built from the leaf attribute a.                   *)
(*                                                                         *)
(* The materializations build IR whose meaning is a data transformation;   *)
(* they are modelled on data: BuildFromElementsOp maps the leaf data of a  *)
(* tuple to the tuple, BuildToElementsOp a tuple to its leaf data.  Both   *)
(* return std::optional, modelled as a set with at most one element.       *)
(***************************************************************************)
EXTENDS TupleDialect

(* The element of a non-empty option.                                      *)
Get(opt) == CHOOSE x \in opt : TRUE

(* Mutants of DecomposeConcatOp: the operands appended in swapped order,  *)
(* and the rhs values never appended.                                      *)
DecomposeConcatOpSwapped(operandMapping, convertedOperands) ==
  GetConvertedValues(operandMapping, convertedOperands, 1)
    \o GetConvertedValues(operandMapping, convertedOperands, 0)
DecomposeConcatOpLhsOnly(operandMapping, convertedOperands) ==
  GetConvertedValues(operandMapping, convertedOperands, 0)

(* DecomposeConcatOp: lhs values followed by rhs values.                   *)
DecomposeConcatOp(operandMapping, convertedOperands) ==
  GetConvertedValues(operandMapping, convertedOperands, 0)
    \o GetConvertedValues(operandMapping, convertedOperands, 1)

(* DecomposeConstantOp::getFlattenedValues: the leaf attributes of a       *)
(* TupleAttr, nested TupleAttrs expanded in place.                         *)
RECURSIVE GetFlattenedValues(_)
GetFlattenedValues(attr) ==
  FlattenSeq([i \in DOMAIN attr.elems |->
                IF IsTupleAttr(attr.elems[i]) THEN GetFlattenedValues(attr.elems[i])
                                              ELSE <<attr.elems[i]>>])

(* DecomposeConstantOp: one arith.constant per flattened leaf attribute.   *)
DecomposeConstantOp(attr) ==
  LET flattenedValues == GetFlattenedValues(attr)
  IN  [k \in DOMAIN flattenedValues |-> <<"cst", flattenedValues[k]>>]

(* DecomposeExtractOp: the converted values of element `pos` of the       *)
(* input tuple, sliced out of the tuple's converted values.                *)
DecomposeExtractOp(tupleType, operandMapping, convertedOperands, pos) ==
  LET inputValues    == GetConvertedValues(operandMapping, convertedOperands, 0)
      elementMapping == SignatureMapping(tupleType)
  IN  GetConvertedValues(elementMapping, inputValues, pos)

(* Mutants of DecomposeExtractSliceOp: the positions visited in increasing *)
(* order, and visited as a set (repeats dropped).                          *)
DecomposeExtractSliceOpSorted(tupleType, operandMapping, convertedOperands, positions) ==
  LET inputValues    == GetConvertedValues(operandMapping, convertedOperands, 0)
      elementMapping == SignatureMapping(tupleType)
      sorted         == SortSeq(positions, <)
  IN  FlattenSeq([j \in DOMAIN sorted |->
                    GetConvertedValues(elementMapping, inputValues, sorted[j])])
DecomposeExtractSliceOpUnique(tupleType, operandMapping, convertedOperands, positions) ==
  LET inputValues    == GetConvertedValues(operandMapping, convertedOperands, 0)
      elementMapping == SignatureMapping(tupleType)
      unique         == SetToSortSeq(Range(positions), <)
  IN  FlattenSeq([j \in DOMAIN unique |->
                    GetConvertedValues(elementMapping, inputValues, unique[j])])

(* DecomposeExtractSliceOp: the converted values of the elements at the    *)
(* positions, appended in list order (repeats are not merged).             *)
DecomposeExtractSliceOp(tupleType, operandMapping, convertedOperands, positions) ==
  LET inputValues    == GetConvertedValues(operandMapping, convertedOperands, 0)
      elementMapping == SignatureMapping(tupleType)
  IN  FlattenSeq([j \in DOMAIN positions |->
                    GetConvertedValues(elementMapping, inputValues, positions[j])])

(* DecomposeFromElementsOp and DecomposeToElementsOp forward the converted *)
(* operands unchanged.                                                     *)
DecomposeFromElementsOp(convertedOperands) == convertedOperands
DecomposeToElementsOp(convertedOperands)   == convertedOperands

(* Mutant of DecomposeInsertOp: the element's values written from index 0 *)
(* of the tuple's values, ignoring mapping->inputNo.                       *)
DecomposeInsertOpNoOffset(tupleType, operandMapping, convertedOperands, pos) ==
  LET elementValues == GetConvertedValues(operandMapping, convertedOperands, 0)
      tupleValues   == GetConvertedValues(operandMapping, convertedOperands, 1)
      mapping       == SignatureMapping(tupleType)[pos]
  IN  IF mapping.has
      THEN [idx \in DOMAIN tupleValues |->
              IF idx - 1 \in 0..Len(elementValues) - 1
              THEN elementValues[idx] ELSE tupleValues[idx]]
      ELSE tupleValues

(* DecomposeInsertOp: the tuple's converted values with the range of       *)
(* element `pos` overwritten by the converted element values; nothing is   *)
(* overwritten when the element has no mapping (an empty tuple).           *)
DecomposeInsertOp(tupleType, operandMapping, convertedOperands, pos) ==
  LET elementValues == GetConvertedValues(operandMapping, convertedOperands, 0)
      tupleValues   == GetConvertedValues(operandMapping, convertedOperands, 1)
      mapping       == SignatureMapping(tupleType)[pos]
  IN  IF mapping.has
      THEN [idx \in DOMAIN tupleValues |->
              IF idx - 1 - mapping.inputNo \in 0..Len(elementValues) - 1
              THEN elementValues[idx - mapping.inputNo]
              ELSE tupleValues[idx]]
      ELSE tupleValues

(* The condition DecomposeInsertOp asserts before overwriting.             *)
InsertOpAssertion(tupleType, operandMapping, convertedOperands, pos) ==
  LET mapping == SignatureMapping(tupleType)[pos] IN
  mapping.has =>
    mapping.size = Len(GetConvertedValues(operandMapping, convertedOperands, 0))

(* Mutants of DecomposeInsertSliceOp: the input tuple's mapping looked up *)
(* at slicePos instead of inputPos, and the first write to an index kept   *)
(* instead of the last.                                                    *)
DecomposeInsertSliceOpSlicePos(sliceType, tupleType, operandMapping, convertedOperands, positions) ==
  LET sliceValues       == GetConvertedValues(operandMapping, convertedOperands, 0)
      tupleValues       == GetConvertedValues(operandMapping, convertedOperands, 1)
      sliceMapping      == SignatureMapping(sliceType)
      inputTupleMapping == SignatureMapping(tupleType)
      Covers(j, idx) ==
        /\ sliceMapping[j - 1].has
        /\ idx - 1 - inputTupleMapping[j - 1].inputNo \in 0..sliceMapping[j - 1].size - 1
  IN  [idx \in DOMAIN tupleValues |->
         LET writers == {j \in DOMAIN positions : Covers(j, idx)} IN
         IF writers = {} THEN tupleValues[idx]
         ELSE LET j == Max(writers) IN
              sliceValues[sliceMapping[j - 1].inputNo + idx - inputTupleMapping[j - 1].inputNo]]
DecomposeInsertSliceOpFirstWins(sliceType, tupleType, operandMapping, convertedOperands, positions) ==
  LET sliceValues       == GetConvertedValues(operandMapping, convertedOperands, 0)
      tupleValues       == GetConvertedValues(operandMapping, convertedOperands, 1)
      sliceMapping      == SignatureMapping(sliceType)
      inputTupleMapping == SignatureMapping(tupleType)
      Covers(j, idx) ==
        /\ sliceMapping[j - 1].has
        /\ idx - 1 - inputTupleMapping[positions[j]].inputNo \in 0..sliceMapping[j - 1].size - 1
  IN  [idx \in DOMAIN tupleValues |->
         LET writers == {j \in DOMAIN positions : Covers(j, idx)} IN
         IF writers = {} THEN tupleValues[idx]
         ELSE LET j == Min(writers) IN
              sliceValues[sliceMapping[j - 1].inputNo + idx
                            - inputTupleMapping[positions[j]].inputNo]]

(* DecomposeInsertSliceOp: for the j-th listed position (slicePos j - 1,  *)
(* inputPos positions[j]), the slice's range of element j - 1 overwrites   *)
(* the tuple's range of element inputPos; empty elements are skipped.  The *)
(* loop runs in list order, so an index keeps the value of the last j      *)
(* whose range covers it.                                                  *)
DecomposeInsertSliceOp(sliceType, tupleType, operandMapping, convertedOperands, positions) ==
  LET sliceValues       == GetConvertedValues(operandMapping, convertedOperands, 0)
      tupleValues       == GetConvertedValues(operandMapping, convertedOperands, 1)
      sliceMapping      == SignatureMapping(sliceType)
      inputTupleMapping == SignatureMapping(tupleType)
      curSliceMapping(j) == sliceMapping[j - 1]
      curInputMapping(j) == inputTupleMapping[positions[j]]
      Covers(j, idx) ==
        /\ curSliceMapping(j).has
        /\ idx - 1 - curInputMapping(j).inputNo \in 0..curSliceMapping(j).size - 1
  IN  [idx \in DOMAIN tupleValues |->
         LET writers == {j \in DOMAIN positions : Covers(j, idx)} IN
         IF writers = {} THEN tupleValues[idx]
         ELSE LET j == Max(writers) IN
              sliceValues[curSliceMapping(j).inputNo + idx - curInputMapping(j).inputNo]]

(* The conditions DecomposeInsertSliceOp asserts for every position.       *)
InsertSliceOpAssertion(sliceType, tupleType, positions) ==
  \A j \in DOMAIN positions :
    LET s == SignatureMapping(sliceType)[j - 1]
        t == SignatureMapping(tupleType)[positions[j]]
    IN  /\ s.has = t.has
        /\ s.has => s.size = t.size

-----------------------------------------------------------------------------
(***************************************************************************)
(* Materializations.                                                       *)
(***************************************************************************)

(* The materializations are evaluated also inside primed expressions,     *)
(* where TLC does not cache LET definitions and arguments; a value used    *)
(* several times is therefore bound with \in, which computes it once.     *)

RECURSIVE BuildFromElementsOp(_, _), BuildToElementsOp(_, _)

(* Mutants of buildFromElementsOp: a leaf element read at its position among *)
(* the element types instead of through the input mapping; no tuple built  *)
(* from an empty range of inputs.                                          *)
BuildFromElementsOpByPosition(type, inputs) ==
  IF ~IsTupleType(type) THEN {}
  ELSE
    LET Operand(inputMapping, i) ==
          IF IsTupleType(type[i])
          THEN BuildFromElementsOp(type[i], GetConvertedValues(inputMapping, inputs, i - 1))
          ELSE {inputs[i]}
    IN  UNION {IF \A i \in DOMAIN type : operands[i] # {}
               THEN {Strict([i \in DOMAIN type |-> Get(operands[i])])}
               ELSE {} :
               operands \in {Strict([i \in DOMAIN type |-> Operand(m, i)]) :
                               m \in {SignatureMapping(type)}}}
BuildFromElementsOpNoEmpty(type, inputs) ==
  IF ~IsTupleType(type) \/ inputs = <<>> THEN {}
  ELSE
    LET Operand(inputMapping, i) ==
          LET elementValues == GetConvertedValues(inputMapping, inputs, i - 1)
          IN  IF IsTupleType(type[i]) THEN BuildFromElementsOp(type[i], elementValues)
                                      ELSE {elementValues[1]}
    IN  UNION {IF \A i \in DOMAIN type : operands[i] # {}
               THEN {Strict([i \in DOMAIN type |-> Get(operands[i])])}
               ELSE {} :
               operands \in {Strict([i \in DOMAIN type |-> Operand(m, i)]) :
                               m \in {SignatureMapping(type)}}}

(* buildFromElementsOp: assembles a value of the (possibly nested) tuple  *)
(* type from its leaf data, recursing into nested tuple elements; fails   *)
(* for a non-tuple type or when a nested build fails.                      *)
BuildFromElementsOp(type, inputs) ==
  IF ~IsTupleType(type) THEN {}
  ELSE
    LET Operand(inputMapping, i) ==
          LET elementValues == GetConvertedValues(inputMapping, inputs, i - 1)
          IN  IF IsTupleType(type[i]) THEN BuildFromElementsOp(type[i], elementValues)
                                      ELSE {elementValues[1]}
    IN  UNION {IF \A i \in DOMAIN type : operands[i] # {}
               THEN {Strict([i \in DOMAIN type |-> Get(operands[i])])}
               ELSE {} :
               operands \in {Strict([i \in DOMAIN type |-> Operand(m, i)]) :
                               m \in {SignatureMapping(type)}}}

(* The condition buildFromElementsOp asserts for a leaf element: exactly  *)
(* one input value maps to it.                                             *)
RECURSIVE FromElementsAssertion(_, _)
FromElementsAssertion(type, inputs) ==
  IsTupleType(type) =>
    \E m \in {SignatureMapping(type)} :
      \A i \in DOMAIN type :
        LET elementValues == GetConvertedValues(m, inputs, i - 1)
        IN  IF IsTupleType(type[i]) THEN FromElementsAssertion(type[i], elementValues)
                                    ELSE Len(elementValues) = 1

(* Mutant of buildToElementsOp: no tuple.to_elements built for a tuple   *)
(* type without elements.                                                  *)
BuildToElementsOpNoEmpty(type, input) ==
  IF ~IsTupleType(type) \/ type = <<>> THEN {}
  ELSE
    LET Part(toElements, i) ==
          IF IsTupleType(type[i]) THEN BuildToElementsOp(type[i], toElements[i])
                                  ELSE {<<toElements[i]>>}
    IN  UNION {IF \A i \in DOMAIN type : parts[i] # {}
               THEN {FlattenSeq([i \in DOMAIN type |-> Get(parts[i])])}
               ELSE {} :
               parts \in {Strict([i \in DOMAIN type |-> Part(toElements, i)]) :
                            toElements \in {Strict([i \in DOMAIN type |-> input[i]])}}}

(* buildToElementsOp: the leaf data of a tuple value, obtained by one     *)
(* tuple.to_elements per nesting level; fails for a non-tuple value.       *)
BuildToElementsOp(type, input) ==
  IF ~IsTupleType(type) THEN {}
  ELSE
    LET Part(toElements, i) ==
          IF IsTupleType(type[i]) THEN BuildToElementsOp(type[i], toElements[i])
                                  ELSE {<<toElements[i]>>}
    IN  UNION {IF \A i \in DOMAIN type : parts[i] # {}
               THEN {FlattenSeq([i \in DOMAIN type |-> Get(parts[i])])}
               ELSE {} :
               parts \in {Strict([i \in DOMAIN type |-> Part(toElements, i)]) :
                            toElements \in {Strict([i \in DOMAIN type |-> input[i]])}}}

=============================================================================
