--------------------------- MODULE DialectBindings ---------------------------
(***************************************************************************)
(* The Python module _iteratorsDialects (python/IteratorsDialects.cpp)   *)
(* over the C API (lib/CAPI/Dialects.cpp): register_dialect for the       *)
(* iterators, tabular and tuple dialects, StreamType.get,                 *)
(* TabularViewType.get and its accessors, and TupleAttr.get (TupleAttrs), *)
(* all in one context.                                                     *)
(*                                                                         *)
(* A type or attribute can only be created in a context where its dialect *)
(* is loaded: loading runs the dialect's initialize (TupleDialect::       *)
(* initialize for tuple), which registers the storage of its types and    *)
(* attributes.  Creating one without that storage stops the process: a    *)
(* debug build reports a fatal error, a release build dereferences the    *)
(* missing storage uniquer.                                                *)
(***************************************************************************)
EXTENDS TupleAttrs

CONSTANTS
  NotTypes,        \* Python objects in a column list that are not MlirTypes
  MaxCols,         \* bound on the length of a column list
  Positions,       \* the integers a Python caller passes as pos
  LoadFlags,       \* the values a Python caller passes as load
  ClientRegisters, \* TRUE: callers register a dialect before using it
  ClientInRange    \* TRUE: callers pass only pos < get_num_column_types()

VARIABLES
  registered,  \* dialects in the context's registry
  loaded,      \* dialects loaded in the context
  types        \* the stream and tabular view types created in the context

bindingVars == <<registered, loaded, types>>
allVars     == <<attrs, status, result, registered, loaded, types>>

Dialects == {"iterators", "tabular", "tuple"}

StreamType(elementType) == [dialect |-> "iterators", element |-> elementType]
TabularViewType(cols)   == [dialect |-> "tabular", columns |-> cols]

(* getOrLoadDialect: the dialect's initialize registers the storage of    *)
(* its attributes, operations and types.                                   *)
LoadDialect(d) == loaded' = loaded \cup {d}

(* mlirDialectHandleRegisterDialect, then mlirDialectHandleLoadDialect    *)
(* if load is set.                                                         *)
RegisterDialect(d, doLoad) ==
  /\ registered' = registered \cup {d}
  /\ IF doLoad THEN LoadDialect(d) ELSE UNCHANGED loaded
  /\ result' = [none |-> TRUE]
  /\ UNCHANGED <<attrs, status, types>>

(* TypeUniquer::get: the uniqued type, if its dialect's storage exists.    *)
Uniqued(t) == IF t.dialect \in loaded THEN {Ok(t)} ELSE {Abort}

(* mlirTypeIsAIteratorsStreamType and mlirTypeIsATabularView.             *)
IsAStreamType(t)   == "element" \in DOMAIN t
IsATabularView(t)  == "columns" \in DOMAIN t

(* mlirIteratorsStreamTypeGet: StreamType::get(context, elementType).     *)
MlirIteratorsStreamTypeGet(elementType) == Uniqued(StreamType(elementType))

(* mlirTabularViewTypeGet: the first numColumns types of the array         *)
(* (unwrapList) as the columns of TabularViewType::get.                    *)
MlirTabularViewTypeGet(numColumns, columnTypes) ==
  Uniqued(TabularViewType(SubSeq(columnTypes, 1, numColumns)))

(* mlirTabularViewTypeGetNumColumnTypes.                                   *)
MlirTabularViewTypeGetNumColumnTypes(type) == {Ok([count |-> Len(type.columns)])}

(* mlirTabularViewTypeGetColumnType: getColumnTypes()[size_t(pos)], with  *)
(* no range check.  A negative pos becomes a size_t of at least 2^63.     *)
(* Out of range, ArrayRef::operator[] asserts in a debug build; a release *)
(* build reads past the array: any type, or a crash.                       *)
MlirTabularViewTypeGetColumnType(type, pos) ==
  IF 0 <= pos /\ pos < Len(type.columns)
  THEN {Ok([column |-> type.columns[pos + 1]])}
  ELSE IF Assertions THEN {Abort} ELSE {Abort} \cup {Ok([column |-> t]) : t \in LeafTypes}

(* TabularViewType::getRowType: the tuple type of one row, its elements   *)
(* the column types (Dialects.h: "tuple type that represents one row").   *)
TabularRowType(type) == type.columns

(* mlirTabularViewTypeGetRowType.                                          *)
MlirTabularViewTypeGetRowType(type) == {Ok([row |-> TabularRowType(type)])}

(* Python receives the outcome of a C call; an abort ends the process, a  *)
(* created type stays in the context.                                      *)
ReturnType(outcome) ==
  IF outcome.abort
  THEN /\ status' = "aborted" /\ result' = [raised |-> "abort"] /\ UNCHANGED types
  ELSE /\ types' = IF IsAStreamType(outcome.attr) \/ IsATabularView(outcome.attr)
                   THEN types \cup {outcome.attr} ELSE types
       /\ result' = outcome.attr
       /\ UNCHANGED status

(* The dialects a client may call into.                                   *)
Usable(d) == ClientRegisters => d \in registered

Views == {t \in types : IsATabularView(t)}

-----------------------------------------------------------------------------
(* iterators.register_dialect(context, load).                              *)
IteratorsRegisterDialect ==
  /\ status = "ok"
  /\ \E doLoad \in LoadFlags : RegisterDialect("iterators", doLoad)

(* tabular.register_dialect(context, load).                                *)
TabularRegisterDialect ==
  /\ status = "ok"
  /\ \E doLoad \in LoadFlags : RegisterDialect("tabular", doLoad)

(* tuple.register_dialect(context, load).                                  *)
TupleRegisterDialect ==
  /\ status = "ok"
  /\ \E doLoad \in LoadFlags : RegisterDialect("tuple", doLoad)

(* StreamType.get(element_type): cls(...) checks the result with          *)
(* mlirTypeIsAIteratorsStreamType.                                         *)
PyStreamTypeGet ==
  /\ status = "ok"
  /\ Usable("iterators")
  /\ \E elementType \in LeafTypes :
       \E outcome \in MlirIteratorsStreamTypeGet(elementType) :
         /\ outcome.abort \/ IsAStreamType(outcome.attr)
         /\ ReturnType(outcome)
  /\ UNCHANGED <<attrs, registered, loaded>>

(* TabularViewType.get(column_types): every list element is cast to       *)
(* MlirType first (a cast_error is raised before any C call), then        *)
(* mlirTabularViewTypeGet(context, len(list), data).                       *)
PyTabularViewTypeGet ==
  /\ status = "ok"
  /\ Usable("tabular")
  /\ \E list \in BoundedSeq(LeafTypes \cup NotTypes, MaxCols) :
       IF \A i \in DOMAIN list : list[i] \in LeafTypes
       THEN \E outcome \in MlirTabularViewTypeGet(Len(list), list) :
              /\ outcome.abort \/ IsATabularView(outcome.attr)
              /\ ReturnType(outcome)
       ELSE /\ result' = [raised |-> "cast_error"]
            /\ UNCHANGED <<status, types>>
  /\ UNCHANGED <<attrs, registered, loaded>>

(* TabularViewType.get_column_type(pos).                                   *)
PyGetColumnType ==
  /\ status = "ok"
  /\ \E view \in Views, pos \in Positions :
       /\ ClientInRange => pos \in 0..Len(view.columns) - 1
       /\ \E outcome \in MlirTabularViewTypeGetColumnType(view, pos) : ReturnType(outcome)
  /\ UNCHANGED <<attrs, registered, loaded>>

(* TabularViewType.get_num_column_types().                                 *)
PyGetNumColumnTypes ==
  /\ status = "ok"
  /\ \E view \in Views :
       \E outcome \in MlirTabularViewTypeGetNumColumnTypes(view) : ReturnType(outcome)
  /\ UNCHANGED <<attrs, registered, loaded>>

(* TabularViewType.get_row_type().                                         *)
PyGetRowType ==
  /\ status = "ok"
  /\ \E view \in Views :
       \E outcome \in MlirTabularViewTypeGetRowType(view) : ReturnType(outcome)
  /\ UNCHANGED <<attrs, registered, loaded>>

(* TupleAttr.get(values), where TupleAttr::get reaches AttributeUniquer:  *)
(* without the tuple dialect loaded an ArrayAttr stops the process.       *)
PyTupleAttrGetInContext ==
  /\ Usable("tuple")
  /\ IF "tuple" \in loaded
     THEN PyTupleAttrGet
     ELSE /\ CanCall
          /\ \/ \E a \in ElementAttrs :
                  /\ result' = [raised |-> "invalid_argument"]
                  /\ UNCHANGED <<attrs, status>>
             \/ Return(Abort)
  /\ UNCHANGED bindingVars

BindingsInit ==
  /\ Init
  /\ registered = {}
  /\ loaded = {}
  /\ types = {}

BindingsNext ==
  \/ IteratorsRegisterDialect
  \/ TabularRegisterDialect
  \/ TupleRegisterDialect
  \/ PyStreamTypeGet
  \/ PyTabularViewTypeGet
  \/ PyGetColumnType
  \/ PyGetNumColumnTypes
  \/ PyGetRowType
  \/ PyTupleAttrGetInContext

BindingsSpec == BindingsInit /\ [][BindingsNext]_allVars

-----------------------------------------------------------------------------
(* A Python call never stops the interpreter: bad input raises a Python  *)
(* exception (cast_error, invalid_argument), as pybind11 turns C++        *)
(* exceptions into.  For a program that registers each dialect with the   *)
(* default load = True before using it and asks only for columns below    *)
(* get_num_column_types(), this needs every type and attribute to find    *)
(* its dialect's storage and every column read to stay inside the view:   *)
(* a registration, a construction and a query through three bindings.     *)
NoCrash == status = "ok"

=============================================================================
