------------------------------ MODULE TupleAttrs ------------------------------
(***************************************************************************)
(* Building #tuple attributes (Tuple.cpp, TupleAttr) through its entry    *)
(* points: the unchecked get overloads (C++ builders, and the Python      *)
(* binding through the C API mlirTupleAttrGet), the checked getChecked    *)
(* overloads (diagnostics instead of assertions, as the parser uses them) *)
(* and the verifier they share.                                            *)
(*                                                                         *)
(* An attribute is a typed leaf [type |-> t, val |-> n], a TupleAttr       *)
(* [elems |-> <<a1, ..., ak>>, type |-> selfType], or an attribute that is *)
(* not a TypedAttr (a unit attribute).  An ArrayAttr is the sequence of    *)
(* its elements.  The uniquer is the set of TupleAttrs created so far; a   *)
(* TupleAttr used as an element must have been created before.             *)
(***************************************************************************)
EXTENDS DecomposePatterns, FiniteSets

CONSTANTS
  Assertions,    \* TRUE in a build with assertions, FALSE in a release build
  LeafAttrs,     \* typed leaf attributes (integer attributes)
  UntypedAttrs,  \* attributes that are not TypedAttrs
  NoneType,      \* the builtin none type: "no self type given"
  NullType,      \* a null Type, what a default-constructed TupleType holds
  OtherTypes,    \* further self types a caller may pass, fitting or not
  MaxElems,      \* bound on the number of elements of an ArrayAttr
  MaxAttrs       \* bound on the number of TupleAttrs created

VARIABLES
  attrs,   \* the TupleAttrs in the context's uniquer
  status,  \* "ok", or "aborted" once an assertion has failed
  result   \* what the last call returned to its caller

vars == <<attrs, status, result>>

IsTypedAttr(a) == "type" \in DOMAIN a

ElementAttrs == LeafAttrs \cup UntypedAttrs \cup attrs
ArrayAttrs   == BoundedSeq(ElementAttrs, MaxElems)

(* The result of a call: the process aborts, or it returns an attribute    *)
(* or the null attribute.                                                  *)
Null  == [null |-> TRUE]
Abort == [abort |-> TRUE, attr |-> Null]
Ok(a) == [abort |-> FALSE, attr |-> a]

(* assert(cond): only a build with assertions stops on a false condition.  *)
AssertOrAbort(cond, outcome) == IF cond \/ ~Assertions THEN outcome ELSE Abort

(* getTupleType: the tuple type of the element types; fails, with an      *)
(* error through emitError, if an element is not a TypedAttr.              *)
GetTupleType(values) ==
  IF \A i \in DOMAIN values : IsTypedAttr(values[i])
  THEN {[i \in DOMAIN values |-> values[i].type]}
  ELSE {}

(* Mutant of TupleAttr::verify: the self type never compared.            *)
VerifyNoCompare(values, selfType) == GetTupleType(values) # {}

(* TupleAttr::verify: the self type is the type derived from the values.  *)
Verify(values, selfType) ==
  /\ GetTupleType(values) # {}
  /\ selfType = Get(GetTupleType(values))

(* StorageUserBase::get asserts the verifier; getChecked reports its      *)
(* failure as a diagnostic and returns the null attribute.                *)
BaseGet(values, selfType) ==
  AssertOrAbort(Verify(values, selfType), Ok([elems |-> values, type |-> selfType]))
BaseGetChecked(values, selfType) ==
  IF Verify(values, selfType) THEN Ok([elems |-> values, type |-> selfType])
                              ELSE Ok(Null)

RECURSIVE GetDerived(_), GetWithSelf(_, _), GetChecked(_), GetCheckedWithSelf(_, _)

(* TupleAttr::get(context, values): derive the self type, assert that it  *)
(* could be derived, and continue with whatever selfType holds (null when *)
(* derivation failed in a release build).                                  *)
GetDerived(values) ==
  LET derived == GetTupleType(values)
      selfType == IF derived = {} THEN NullType ELSE Get(derived)
  IN  AssertOrAbort(derived # {}, GetWithSelf(values, selfType))

(* TupleAttr::get(context, values, selfType): a none self type means      *)
(* "derive it"; any other is taken as is.                                  *)
GetWithSelf(values, selfType) ==
  IF selfType = NoneType THEN GetDerived(values) ELSE BaseGet(values, selfType)

(* Mutant of getChecked with a self type: none forwarded to the unchecked *)
(* get(context, values) instead of getChecked(emitError, context, values). *)
GetCheckedWithSelfUnchecked(values, selfType) ==
  IF selfType = NoneType THEN GetDerived(values) ELSE BaseGetChecked(values, selfType)

(* TupleAttr::getChecked(emitError, context, values).                     *)
GetChecked(values) ==
  LET derived == GetTupleType(values)
  IN  IF derived = {} THEN Ok(Null) ELSE GetCheckedWithSelf(values, Get(derived))

(* TupleAttr::getChecked(emitError, context, values, selfType).           *)
GetCheckedWithSelf(values, selfType) ==
  IF selfType = NoneType THEN GetChecked(values) ELSE BaseGetChecked(values, selfType)

(* TupleAttr::get(values): the context is the ArrayAttr's.                *)
GetFromArray(values) == GetDerived(values)

(* The C API mlirTupleAttrGet: casts its argument to ArrayAttr (the       *)
(* caller has checked that it is one) and calls TupleAttr::get(values).   *)
MlirTupleAttrGet(values) == GetFromArray(values)

(* The self types a caller may pass with values: none, the right one, or  *)
(* one that does not fit.                                                  *)
SelfTypes(values) ==
  {NoneType} \cup {t : t \in GetTupleType(values)} \cup OtherTypes

(* The caller gets the outcome of a call; an abort ends the process.      *)
Return(outcome) ==
  IF outcome.abort
  THEN /\ status' = "aborted" /\ result' = [raised |-> "abort"] /\ UNCHANGED attrs
  ELSE /\ attrs' = IF outcome.attr = Null THEN attrs ELSE attrs \cup {outcome.attr}
       /\ result' = outcome.attr
       /\ UNCHANGED status

CanCall == status = "ok" /\ Cardinality(attrs) < MaxAttrs

-----------------------------------------------------------------------------
(* mlirAttributeIsATupleAttr: isa<TupleAttr>.                              *)
MlirAttributeIsATupleAttr(attr) == IsTupleAttr(attr)

(* Python TupleAttr.get(values): an attribute that is not an ArrayAttr    *)
(* raises invalid_argument; an ArrayAttr goes to mlirTupleAttrGet, whose   *)
(* result cls(...) checks with mlirAttributeIsATupleAttr.                  *)
PyTupleAttrGet ==
  /\ CanCall
  /\ \/ \E a \in ElementAttrs :
          /\ result' = [raised |-> "invalid_argument"]
          /\ UNCHANGED <<attrs, status>>
     \/ \E values \in ArrayAttrs :
          LET outcome == MlirTupleAttrGet(values) IN
          /\ outcome.abort \/ MlirAttributeIsATupleAttr(outcome.attr)
          /\ Return(outcome)

(* A C++ builder calls TupleAttr::get(context, values, selfType).          *)
BuilderGet ==
  /\ CanCall
  /\ \E values \in ArrayAttrs :
       \E selfType \in SelfTypes(values) : Return(GetWithSelf(values, selfType))

(* A checked construction (the attribute parser): getChecked with the     *)
(* parsed self type, none when it was omitted.                            *)
GetCheckedCall ==
  /\ CanCall
  /\ \E values \in ArrayAttrs :
       \E selfType \in SelfTypes(values) : Return(GetCheckedWithSelf(values, selfType))

Init ==
  /\ attrs = {}
  /\ status = "ok"
  /\ result = Null

Next == PyTupleAttrGet \/ BuilderGet \/ GetCheckedCall

Spec == Init /\ [][Next]_vars

-----------------------------------------------------------------------------
(* The leaf type of a flattened leaf attribute, null for an attribute     *)
(* without a type.                                                         *)
LeafType(a) == IF IsTypedAttr(a) THEN a.type ELSE NullType

(* Every TupleAttr in the context, once the decomposition pass flattens   *)
(* it (DecomposeConstantOp::getFlattenedValues, one arith.constant per    *)
(* leaf), yields constants of exactly the types the type converter gives  *)
(* its self type; replaceOp relies on this.  The verifier only compares   *)
(* one level, so this holds only if every way to build an attribute,      *)
(* nested ones included, verifies or fails.                                *)
ConstantsFlattenConsistently ==
  \A a \in attrs :
    /\ a.type \notin {NullType, NoneType} \cup LeafTypes
    /\ LET flat == GetFlattenedValues(a)
       IN  [i \in DOMAIN flat |-> LeafType(flat[i])] = ConvertType(a.type)

(* A checked construction reports bad input as a diagnostic and a null    *)
(* attribute: it never stops the process on an assertion.                 *)
GetCheckedNeverAborts == [][GetCheckedCall => status' = "ok"]_vars

(* A call from Python never stops the interpreter on an assertion: bad    *)
(* input raises or is reported (spec.md section 7: a type mismatch is a   *)
(* diagnostic, not fatal to the host process).                            *)
PythonGetNeverAborts == [][PyTupleAttrGet => status' = "ok"]_vars

=============================================================================
