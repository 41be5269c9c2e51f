---------------------------- MODULE TupleDialect ----------------------------
(***************************************************************************)
(* The tuple dialect (lib/Dialect/Tuple/IR/Tuple.cpp): the attribute of    *)
(* tuple.constant, the type rules its custom parsers and type inference    *)
(* implement, and the meaning of each tuple operation.                     *)
(*                                                                         *)
(* An attribute is a TypedAttr [type |-> t, val |-> n] of a leaf type or a *)
(* TupleAttr [elems |-> <<a1, ..., ak>>] whose self type is derived from   *)
(* its elements.  A parser result is a set: {t} on success, {} where the   *)
(* parser emits "position ... out of bounds".                              *)
(***************************************************************************)
EXTENDS TupleTypes

IsTupleAttr(a) == "elems" \in DOMAIN a

(* getTupleType: the tuple type of a TupleAttr is the sequence of the      *)
(* types of its element attributes (a nested TupleAttr has the self type   *)
(* it was built with, itself derived the same way).                        *)
RECURSIVE AttrType(_)
AttrType(a) ==
  IF IsTupleAttr(a) THEN [i \in DOMAIN a.elems |-> AttrType(a.elems[i])]
                    ELSE a.type

(* The runtime value a tuple.constant with attribute a produces.           *)
RECURSIVE AttrValue(_)
AttrValue(a) ==
  IF IsTupleAttr(a) THEN Strict([i \in DOMAIN a.elems |-> AttrValue(a.elems[i])])
                    ELSE a.val

(* A position is in bounds when, cast to size_t, it is below the number    *)
(* of elements: a negative position wraps around and is rejected.          *)
InBounds(t, idx) == idx >= 0 /\ idx < Len(t)

(* parseTupleElementType: the type of element `position` of tuple type t   *)
(* (tuple.extract, tuple.insert).                                          *)
ParseTupleElementType(t, position) ==
  IF InBounds(t, position) THEN {t[position + 1]} ELSE {}

(* parseTupleElementTypes with positions: the result type of               *)
(* tuple.extract_slice, the tuple of the elements at the positions.        *)
ParseTupleElementTypes(t, positions) ==
  IF \A j \in DOMAIN positions : InBounds(t, positions[j])
  THEN {[j \in DOMAIN positions |-> t[positions[j] + 1]]}
  ELSE {}

(* parseInsertSliceTypes: the type the slice operand of tuple.insert_slice *)
(* must have.                                                              *)
ParseInsertSliceTypes(t, positions) ==
  IF \A j \in DOMAIN positions : InBounds(t, positions[j])
  THEN {[j \in DOMAIN positions |-> t[positions[j] + 1]]}
  ELSE {}

(* parseTupleElementTypes without positions: the result types of          *)
(* tuple.to_elements and the operand types of tuple.from_elements are the  *)
(* element types of the tuple type.                                        *)
ElementTypes(t) == t

(* ConcatOp::inferReturnTypes.                                             *)
ConcatResultType(lhs, rhs) == lhs \o rhs

-----------------------------------------------------------------------------
(***************************************************************************)
(* The meaning of the operations (TupleOps.td): the result values of an   *)
(* operation given the values of its operands.                             *)
(***************************************************************************)
FromElementsValue(elements)       == elements
ExtractValue(tuple, position)     == tuple[position + 1]
ExtractSliceValue(tuple, positions) ==
  Strict([j \in DOMAIN positions |-> tuple[positions[j] + 1]])
InsertValue(element, tuple, position) == [tuple EXCEPT ![position + 1] = element]
(* Positions are written in list order; a repeated position keeps the      *)
(* element written last.                                                   *)
InsertSliceValue(slice, tuple, positions) ==
  Strict([p \in DOMAIN tuple |->
            LET writers == {j \in DOMAIN positions : positions[j] + 1 = p}
            IN  IF writers = {} THEN tuple[p] ELSE slice[Max(writers)]])
ConcatValue(lhs, rhs) == lhs \o rhs

=============================================================================
