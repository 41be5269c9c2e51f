---------------------------- MODULE FlatteningMap ----------------------------
(***************************************************************************)
(* The flattening map and the materializations, checked against reference *)
(* definitions over every type up to a bounded nesting depth and width.   *)
(*                                                                         *)
(* The type converter and the materializations are pure functions; the    *)
(* driver queries them with one type after another.  The state is the     *)
(* type of the current query, and every type of the bounded universe is   *)
(* an initial state, so each invariant is checked for each such type.     *)
(***************************************************************************)
EXTENDS DecomposePatterns

CONSTANTS
  MaxDepth,  \* bound on the nesting depth of tuple types
  MaxWidth   \* bound on the number of elements of a tuple type

VARIABLE type  \* the type the driver queries the converter with

(* The types of nesting depth at most d whose tuples have at most MaxWidth *)
(* elements, tuple<> included.                                             *)
RECURSIVE TypesUpTo(_)
TypesUpTo(d) ==
  IF d = 0 THEN LeafTypes
  ELSE LeafTypes \cup UNION {[1..n -> TypesUpTo(d - 1)] : n \in 0..MaxWidth}

AllTypes == TypesUpTo(MaxDepth)

Init == type \in AllTypes

(* The driver converts the next type it meets.                             *)
Query == type' \in AllTypes

Spec == Init /\ [][Query]_type

-----------------------------------------------------------------------------
(* Leaf data for the current type: the leaves numbered 1, 2, ... in       *)
(* depth-first order, and the structured value that has these leaves.     *)
LeafData == [k \in 1..LeafCount(type) |-> k]
Value    == Unflatten(type, LeafData)

(* The type converter turns a tuple type into its leaves in depth-first   *)
(* order (DecomposeTuplesTypeConverter, TupleType::getFlattenedTypes), and *)
(* the mapping convertSignatureArgs builds from it gives every element    *)
(* exactly the slice of the flattened values holding that element's       *)
(* leaves: extracting element i of a tuple built from c1..cn yields the   *)
(* leaves of ci (spec.md section 8, Extract consistency).  Every pattern  *)
(* that slices converted values relies on this.                           *)
MappingMatchesLeaves ==
  IsTupleType(type) =>
    /\ ConvertType(type) = Leaves(type, type)
    /\ \A i \in DOMAIN type :
         GetConvertedValues(SignatureMapping(type), LeafData, i - 1)
           = Leaves(type[i], Value[i])

(* Taking a tuple apart through nested tuple.to_elements                 *)
(* (buildToElementsOp) yields exactly its leaves, and building it from    *)
(* those leaves through nested tuple.from_elements (buildFromElementsOp)  *)
(* yields the tuple again; neither fails, whatever the nesting and empty  *)
(* tuples (spec.md section 8, round trip).  The driver inserts these two  *)
(* at every boundary between converted and unconverted code.              *)
MaterializationsRoundTrip ==
  IsTupleType(type) =>
    /\ BuildToElementsOp(type, Value) = {LeafData}
    /\ BuildFromElementsOp(type, LeafData) = {Value}

=============================================================================
