# TLA+ models of the tuple decomposition pass

These modules model `DecomposeTuplesPass`
(`src/experimental/iterators/lib/Dialect/Tuple/Transforms/DecomposeTuples.cpp`)
together with the parts of the tuple dialect it relies on
(`lib/Dialect/Tuple/IR/Tuple.cpp`). They also model the construction of
`#tuple` attributes through the C++, C (`lib/CAPI/Dialects.cpp`) and Python
(`python/IteratorsDialects.cpp`) entry points. TLC checks them over small
functions, types and attributes.

## The system

The pass replaces every value of a (possibly nested) `tuple<...>` type by the
flat sequence of its leaf values. Four parts work together:

* **Type converter and type mapping.** `DecomposeTuplesTypeConverter` maps a
  tuple type to its flattened leaf types. The MLIR one-to-N framework builds a
  `OneToNTypeMapping` from it: original position `i` maps to the range
  `[inputNo, inputNo + size)` of the converted values. An empty tuple has no
  mapping (`nullopt`).
* **Patterns.** There is one pattern per tuple op: concat, constant, extract,
  extract_slice, from_elements, insert, insert_slice and to_elements. Each
  receives the converted operands as one flat range and returns the values
  that replace the op's results. It computes these purely by slicing with the
  type mappings.
* **Materializations.** `buildFromElementsOp` rebuilds a tuple from its leaves
  through nested `tuple.from_elements`. `buildToElementsOp` takes a tuple
  apart through nested `tuple.to_elements`. The framework inserts them where
  rewritten and unrewritten code meet.
* **Driver.** `runOnOperation` registers the patterns, the func patterns when
  `convert-func-ops` is set, and the materializations. It then runs
  `applyPartialOneToNConversion`. The greedy rewrite driver inside that call
  applies the patterns in its own worklist order. Unrealized casts join the
  rewritten and unrewritten parts. At the end these casts become
  materializations, or fold away when a cast meets its inverse.

The pass reads `#tuple` attributes through `DecomposeConstantOp`, which
flattens them to one `arith.constant` per leaf. Such an attribute is built by
one of the `TupleAttr::get`/`getChecked` overloads in `Tuple.cpp`:
* `get` derives the self type from the element types when none is given and
  asserts that it could;
* `getChecked` reports failures as diagnostics and returns a null attribute;
* `verify` compares a given self type with the derived one.

The C API `mlirTupleAttrGet` and the Python `TupleAttr.get` reach the
unchecked `get`.

The Python module `_iteratorsDialects` wraps the whole C API. It has:
* a `register_dialect(context, load)` for each of the iterators, tabular and
  tuple dialects;
* `StreamType.get`;
* `TabularViewType.get`, `get_column_type`, `get_num_column_types` and
  `get_row_type`;
* `TupleAttr.get`.

All of them act on one context. A type or attribute can only be created once
its dialect is loaded: loading runs the dialect's `initialize`, which sets up
the storage of its types and attributes.

## Modules

| module | models | state / actions |
|---|---|---|
| `TupleTypes` | the type converter; `convertSignatureArgs` / `getConvertedValues` | operators only: `FlattenedTypes`, `ConvertType`, `SignatureMapping` (records `[has, inputNo, size]` on 0-based positions), `GetConvertedValues`; reference operators `LeafCount`, `Leaves`, `Unflatten` |
| `TupleDialect` | `Tuple.cpp`: `getTupleType`, the custom type parsers, `ConcatOp::inferReturnTypes`; the meaning of each tuple op | operators only |
| `TupleIR` | a function body in SSA form (constant `Prog`), its result types, and what the unconverted function computes (`OrigValues`) | operators only |
| `DecomposePatterns` | the eight patterns and both materializations | one operator per pattern, on sequences of value handles; the materializations work on data and return `{}` for `std::nullopt` |
| `DecomposeTuples` | the pass on one function | variables `converted` (the ops rewritten so far), `replaced` (the handles that replace each rewritten op's results), `phase`, `input`; actions `Rewrite<Op>(i)` for each pattern, `ConvertFuncSignature`, `ConvertReturn(i)` and `Finalize` (the end of `applyPartialOneToNConversion`) |
| `DecomposeTuplesAbstract` | what the pass promises | `observed` (every value the environment sees: return operands and operands of ops the pass does not touch) is fixed to the unconverted function's; one step `Finish` |
| `MCDecomposeTuples` | the functions that are checked | `SliceProg`, `ElementProg`, `EmptyProg` |
| `FlatteningMap` | the converter, the mapping and the materializations as pure functions | variable `type`, the type of the driver's current query; every type up to `MaxDepth`/`MaxWidth` is an initial state; action `Query` |
| `TupleAttrs` | `TupleAttr::get`/`getChecked`/`verify` (`Tuple.cpp` 62–151), `mlirTupleAttrGet`, `mlirAttributeIsATupleAttr`, Python `TupleAttr.get` (its class check included) | variables `attrs` (the TupleAttrs the context has uniqued), `status` (`"aborted"` once an assertion fails), `result`; actions `PyTupleAttrGet`, `BuilderGet` (a C++ caller of `get` with a self type), `GetCheckedCall` (the attribute parser's `getChecked`); one operator per overload, recursing as the overloads call each other; constant `Assertions` chooses a debug or a release build |
| `DialectBindings` | the Python bindings over the C API (`IteratorsDialects.cpp`, `Dialects.cpp`), composed with `TupleAttrs` | adds variables `registered`, `loaded` (the context's registry and loaded dialects) and `types` (the stream and tabular view types created); one action per binding (`IteratorsRegisterDialect`, `TabularRegisterDialect`, `TupleRegisterDialect`, `PyStreamTypeGet`, `PyTabularViewTypeGet`, `PyGetColumnType`, `PyGetNumColumnTypes`, `PyGetRowType`, `PyTupleAttrGetInContext`), one operator per C API function; constants `ClientRegisters` and `ClientInRange` describe the calling program |
| `MCDialectBindings` | the bindings that are checked | leaf types `i32`, `f32`; one Python object that is not a type; positions -1 to 2 |
| `PositionalOps` | the four positional ops (`extract`, `insert`, `extract_slice`, `insert_slice`) from the custom parser that types them (`Tuple.cpp`) to the pattern that rewrites them (`DecomposeTuples.cpp`) | extends `FlatteningMap` (state `type`, the tuple operand's type); every op over it with positions from `Positions`, in range or not; `LookedUpPositions` (the positions a pattern looks up unchecked), `Parses`, `Rewritten` (the pattern's result, a converted value represented by its type), `PatternAssertions`, `RewriteOutcomes` (`getInputMapping` out of range asserts, or is undefined in a release build) |
| `MCPositionalOps` | the type universe and positions that are checked (for `FlatteningMap` too) | one leaf type `I32`; positions -1 to 2 |
| `MCTupleAttrs` | the attributes that are checked | an `i32` attribute, a unit attribute (not a `TypedAttr`), self types `i32` and `tuple<i32, i32>` besides none and the derived one |

A converted value is a handle:
* `<<"cst", a>>`: an `arith.constant`;
* `<<"val", u>>`: the unconverted leaf value `u`;
* `<<"arg", a, k>>`: a converted block argument;
* `<<"mat", u, k>>`: the k-th result of a 1:N cast of tuple value `u`.

`Data` evaluates the current IR over the def-use DAG. It reads every cast as
the materialization it becomes. A 1:N cast of a value whose producer has been
rewritten folds away. A failed materialization yields `NoValue`, and so does
everything computed from it.

`Refinement` checks that `DecomposeTuples` implements `DecomposeTuplesAbstract`
through `INSTANCE ... WITH observed <- Observed, finished <- (phase = "done")`.

## Runs

| run | cfg | properties | shows |
|---|---|---|---|
| slice | `MCSlice.cfg` | ValuesPreserved, AssertionsHold, Refinement | out-of-order `extract_slice` and `insert_slice` on `tuple<i32, tuple<i32, i32>>`, followed by a concat, with the signature and return converted, are correct in every rewrite order |
| element | `MCElement.cfg` | ValuesPreserved, Refinement | extract and insert of a nested element; `to_elements` then `from_elements` into a differently nested type |
| empty | `MCEmpty.cfg` | ValuesPreserved, AssertionsHold, Refinement | `tuple<i32, tuple<>, i32>`: values without mapping, an `insert_slice` with a repeated position and an empty position, an `extract_slice` with repeats |
| boundary | `MCBoundary.cfg` | ValuesPreserved | the empty-tuple function without `convert-func-ops`: the argument and the return stay tuples and are reached only through materializations |
| flattening | `MCFlattening.cfg` | MappingMatchesLeaves, MaterializationsRoundTrip, ParsedPositionalOpsRewriteToSemantics | over all 508 types of depth ≤ 3 and width ≤ 2, the converter, the mapping's slices and both materializations agree with the reference operators `LeafCount`, `Leaves` and `Unflatten`. Every positional op the parser accepts, with positions in -1..2 and lists of up to two, is rewritten safely to exactly the leaves of its result value (10 s) |
| attr_checked | `MCAttrChecked.cfg` | ConstantsFlattenConsistently, GetCheckedNeverAborts | in a build with assertions, any sequence of up to three attribute constructions through any entry point leaves only attributes whose flattened constants have the converted self type; `getChecked` never aborts |
| attr_python | `MCAttrPython.cfg` | PythonGetNeverAborts (expected violation) | Python `TupleAttr.get([unit])` aborts in `TupleAttr::get` (see Findings) |
| bindings_column | `MCBindingsColumn.cfg` | NoCrash (expected violation) | `TabularViewType.get([]).get_column_type(0)` stops the interpreter (see Findings) |
| bindings_noload | `MCBindingsNoLoad.cfg` | NoCrash (expected violation) | `register_dialect(load=False)` followed by `StreamType.get` stops the interpreter |
| positions_builder | `MCPositionsBuilder.cfg` | OutOfBoundsPositionFailsPass (expected violation) | an op with an out-of-range position is not rejected at rewrite time as spec.md §8 says (see Findings) |
| attr_release | `MCAttrRelease.cfg` | ConstantsFlattenConsistently (expected violation) | in a release build the same call stores a `TupleAttr` with a null self type |

The properties:
* **ValuesPreserved.** Every value of the function, as an unrewritten op would
  read it, equals the unconverted function's value, in every reachable mix of
  rewritten and unrewritten ops.
* **AssertionsHold.** The code's `assert`s hold:
  * `replaceOp` gets as many values as the results convert to;
  * the insert patterns find equal-sized ranges;
  * `buildFromElementsOp` finds one value per leaf.
* **Refinement.** Two things: everything the environment observes stays
  unchanged at every step, and the pass eventually finishes successfully.
* **MappingMatchesLeaves.** Two things: the converter gives the leaves in
  depth-first order, and the mapping's slice for element `i` holds exactly
  the leaves of element `i` (spec.md §8, Extract consistency).
* **MaterializationsRoundTrip.** `buildToElementsOp` of a value gives its
  leaves, and `buildFromElementsOp` of those leaves gives the value back.
  Neither fails, at any nesting and with empty tuples.
* **ConstantsFlattenConsistently.** Every attribute in the context flattens,
  as `DecomposeConstantOp` does it, to constants whose types are the
  converted self type. `verify` only checks one level, so this depends on
  every construction path verifying.
* **GetCheckedNeverAborts.** `getChecked` turns every failure into a null
  result, including a none self type with an untyped element.
* **PythonGetNeverAborts.** A Python call never stops the process.
* **ParsedPositionalOpsRewriteToSemantics.** This composes the parser with
  the patterns. For every positional op the custom parser accepts, three
  things hold:
  * the pattern looks up only positions the element mapping has;
  * the insert patterns' assertions hold, including the `insert_slice`
    assertions that spec.md §9 questions;
  * the values the pattern produces are exactly the leaves of the op's
    result value, as the op's meaning defines it.

  The tuple's leaves are numbered 1, 2, ... and the inserted operand's 101,
  102, .... A read or a write at a wrong offset therefore shows up, and so
  does a lost repeat or the wrong write winning.

  The patterns have no bounds check of their own, so this is what makes them
  safe on parsed IR.
* **OutOfBoundsPositionFailsPass.** This is spec.md §8's failure scenario: a
  position beyond the tuple fails the pass.
* **NoCrash.** No Python call of the bindings stops the interpreter; bad
  input raises a Python exception instead. It is checked only by the two
  violation runs. The bindings are thin wrappers, and their only hazards are
  the crash paths these runs show. A program that avoids those paths stops
  nowhere, because the bindings have nothing else that could go wrong: a
  passing run would only restate that `register_dialect(load=True)` loads.

Every property has a mutant in `PROJECT.json`: a plausible bug in the mapped
code that TLC finds.
* insert_slice looks up the input mapping at the slice position.
* insert_slice lets the first write to an index win.
* insert ignores `inputNo`.
* concat swaps its operands, or drops the rhs.
* extract_slice sorts or deduplicates its positions.
* `buildFromElementsOp` reads a leaf at its type position, or fails on an empty
  range.
* `buildToElementsOp` fails on `tuple<>`.
* The converter returns a tuple's element types instead of its flattened
  types.
* `verify` does not compare the self type.
* `getChecked` with a none self type calls the unchecked `get`.
* insert ignores `inputNo` (flattening run). Over all 508 types, any
  element after a non-empty one is written at offset 0.

## Bounds and why they suffice

The pass only moves values; it never computes on leaf data. `FunctionInput`
therefore gives every argument leaf a distinct number (`100 * a + k`), and
every constant leaf differs from these. A leaf that ends up in a wrong place
shows up as a wrong value. This one input stands for all inputs.

The three functions together have:
* every tuple op and every pattern;
* nesting depth 2;
* out-of-order, repeated and empty positions;
* the empty tuple as an argument element, a constant element and an extracted
  value;
* every kind of boundary: rewritten op to unrewritten op, the reverse, and
  argument or return to op.

TLC explores every order in which the driver can rewrite the ops (2^n subsets
of n pattern ops, times the func conversions). The runs reach 144 to 1852
distinct states and take 10 s to 1 min.

The flattening run checks every type over one leaf type up to depth 3 and
width 2. These 508 types include:
* `tuple<>` at every depth;
* elements that follow an empty or a nested element;
* a tuple whose only leaves are nested two levels down.

The leaf type's identity does not matter to any of the operators. Depth 4
would give about 258,000 types.

The same run also checks the positional ops. Positions run from -1 to 2,
so the run has:
* a negative position;
* every in-range position of a two-element tuple;
* the position equal to the size;
* positions past the end of smaller tuples.

Position lists of up to two give repeats and reversed order. The single
leaf type does not weaken the comparison, because the leaves are told apart
by their numbers, not their types.

Positions of 2^31 or more cannot be represented in TLC. At such a position
the `int64_t` would be narrowed to an unsigned index. The parser rejects every position
at or beyond the tuple's size before that happens.

The attribute runs allow ArrayAttrs of up to two elements and up to three
TupleAttrs, so a TupleAttr can nest one that holds another. Each call draws
its elements from the leaf, the unit attribute and the TupleAttrs created so
far. It draws its self type from none, the derived type, a leaf type and a
tuple type of the right shape.

The bindings violation runs use two leaf types, column lists of up to two
entries, and positions -1 to 2. These cover:
* an empty view;
* the position equal to the column count;
* a negative position;
* a list element that is not a type.

Each register, construct and query call can happen in any order. Up to two
TupleAttrs cover `TupleAttr.get` after and before loading.

## Fairness

The greedy driver is a single-threaded loop. It keeps applying patterns while
one applies, and then materializes. `Spec` therefore has `WF_vars(Next)`, and
the abstract `Spec` has `WF_vars(Finish)`.

The attribute runs need no fairness: they check safety only, and construction
calls stop at the bound (`CHECK_DEADLOCK FALSE`).

## Findings

* **Python `TupleAttr.get` can abort the interpreter (run attr_python).**
  The binding checks only that its argument is an `ArrayAttr`
  (IteratorsDialects.cpp:130). It then calls `mlirTupleAttrGet`, which calls
  `TupleAttr::get(values)`. There the result of `getTupleType` is only
  asserted (Tuple.cpp:88).
  * An element that is not a `TypedAttr`, such as a unit attribute, aborts a
    build with assertions.
  * A release build goes on and creates a `TupleAttr` with a null self type
    (run attr_release). `get(context, values, selfType)` passes the null type
    to `Base::get`, which verifies only under assertions.

  spec.md §7 says a type mismatch is a diagnostic, "fatal to the current pass
  invocation, not to the host process". `getChecked` behaves that way, and
  GetCheckedNeverAborts holds for it.

* **`get_column_type` has no range check (run bindings_column).**
  `mlirTabularViewTypeGetColumnType` indexes the column list with
  `static_cast<size_t>(pos)` and no check (Dialects.cpp:67). The Python method
  passes any integer to it. A position equal to the column count, or -1,
  fails `ArrayRef`'s index assertion in a debug build and reads past the array
  in a release build. A Python user would expect an `IndexError`.
* **`register_dialect(load=False)` leaves the constructors unusable (run
  bindings_noload).** The dialect is registered but not loaded, so its type
  and attribute storage does not exist. `StreamType.get`,
  `TabularViewType.get` and `TupleAttr.get` then stop the process. The
  bindings neither load on demand nor raise.

* **The patterns do not report an out-of-range position (run
  positions_builder).** spec.md §7–8 say such a position is detected "at the
  point of rewrite", reported as PositionOutOfBounds, and fails the pass. No
  positional pattern checks it:
  * DecomposeExtractOp (DecomposeTuples.cpp:131);
  * DecomposeExtractSliceOp (:165);
  * DecomposeInsertOp (:218);
  * DecomposeInsertSliceOp (:268).

  Each hands the position to `OneToNTypeMapping::getInputMapping`. That
  asserts in a debug build and reads out of bounds in a release build. Only
  the custom parsers check the bounds (Tuple.cpp:175, 197, 223). The
  flattening run shows that this suffices for parsed IR. For an op made by a
  builder, the outcome depends on the generated verifier, which is not in the
  repository.

## Not modelled

* `convert-scf-ops`: the MLIR structural SCF conversion over regions.
* The greedy driver's iteration limit. A rewrite adds the ops it creates to
  the worklist of the same iteration. A function is therefore converted in
  one iteration and confirmed in the next, far below the limit.
* Ill-formed programs. `ASSUME WellFormed` holds them out, since the parser
  and verifier reject them.
* The inliner interface (`TupleInlinerInterface` answers "legal" for every
  op). Dialect registration is modelled only as the loading that a
  construction needs.
* Whether a builder-made positional op can carry an out-of-range position.
  Only the custom parsers check it (Tuple.cpp:175, 197, 223), and the op
  definitions are not in the repository. PositionalOps shows both sides:
  what parsed ops do, and what an unchecked op does.
* The op, type and attribute definitions (`.td`) and the code generated from
  them (`.inc`: accessors, generic parsers, verifiers). They are not in the
  repository. The custom printers print nothing and change no state.
* The headers (`Dialects.h`, `Tuple.h`, `DecomposeTuples.h`). They hold only
  declarations of what the `.cpp` files define. The contracts that
  `Dialects.h` documents are what the C API actions are checked against.

The upstream MLIR parts are modelled from the design in `spec.md` and marked
`spec_modelled` in the map. They are:
* `OneToNTypeMapping`;
* the op semantics;
* the driver's casts and folding;
* `StorageUserBase::get`/`getChecked`;
* the type and attribute uniquers;
* the dialect handles.

`TabularViewType::getRowType` is defined outside `src/`. It is modelled from
its C API documentation (Dialects.h: "tuple type that represents one row").

One difference from the design does not matter to the pass. spec.md §4.2
lets Reconstruct return a leaf's single input. The code's
`buildFromElementsOp` instead returns `nullopt` for a non-tuple type
(DecomposeTuples.cpp:335-337). No non-tuple type is ever materialized, since
such a type converts 1:1.

## Open ends

* The failure path of the pass is modelled (`Finalize` to `"failed"`), and
  Refinement shows that no modelled function takes it. A function that does
  take it needs `convert-scf-ops`, which is not modelled. Modelling it would
  mean adding regions to the IR model and translating MLIR library patterns
  (`populateSCFStructuralOneToNTypeConversions`) that are not in the
  repository.
