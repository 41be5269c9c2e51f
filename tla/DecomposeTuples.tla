--------------------------- MODULE DecomposeTuples ---------------------------
(***************************************************************************)
(* The decompose-tuples pass (DecomposeTuplesPass::runOnOperation) run on  *)
(* one function, with the one-to-N conversion driver it calls.             *)
(*                                                                         *)
(* The greedy driver applies the patterns to the tuple operations in an    *)
(* order it chooses (its worklist order), so each rewrite is an action     *)
(* that may happen in any order.  A rewritten op's results are replaced by *)
(* the flat sequence of values the pattern returns (replaceOp).  Where a   *)
(* rewritten op meets one that is not (yet) rewritten, the driver puts an  *)
(* unrealized cast that, at the end, becomes a materialization:            *)
(*  - a rewritten op reading a tuple produced by an unrewritten op gets    *)
(*    handles <<"mat", u, k>>, the k-th result of a 1:N cast of u, which   *)
(*    becomes buildToElementsOp, or folds away when u's producer is        *)
(*    rewritten later (cast of cast);                                      *)
(*  - an unrewritten op reading a tuple produced by a rewritten op reads   *)
(*    an N:1 cast that becomes buildFromElementsOp.                        *)
(* A leaf-typed value converts 1:1 to itself: <<"val", u>> is u itself.    *)
(* With ConvertFuncOps the function signature and its returns are          *)
(* converted too; a converted argument is <<"arg", a, k>>, the k-th        *)
(* converted block argument that replaces argument a.                      *)
(*                                                                         *)
(* The data the program computes is derived from this IR by evaluating it *)
(* (Data), casts read as the materializations they become.                 *)
(***************************************************************************)
EXTENDS TupleIR, DecomposePatterns

CONSTANTS
  ConvertFuncOps,  \* the convert-func-ops option of the pass
  NoValue          \* the result of a failed materialization

VARIABLES
  input,      \* the function's arguments (fixed for a run)
  converted,  \* the operations the driver has rewritten
  replaced,   \* replaced[i]: the values that replace the results of i
  phase       \* "rewrite" (greedy driver), "done" or "failed"

vars == <<input, converted, replaced, phase>>

(* The type mappings of every op's results and operands (fixed by Prog).   *)
ResultMappings  == [j \in Ops |-> SignatureMapping(ResultTypes[j])]
OperandMappings == [i \in Ops |-> SignatureMapping(OperandTypes(i))]
ResultMapping(j)  == ResultMappings[j]
OperandMapping(i) == OperandMappings[i]

(* The converted values the driver hands a pattern for operand u: the     *)
(* values replacing u if its producer was rewritten, else the results of  *)
(* a 1:N cast of u (u itself when its type is a leaf type).               *)
OperandValues(u) ==
  IF u[1] \in converted
  THEN GetConvertedValues(ResultMapping(u[1]), replaced[u[1]], u[2] - 1)
  ELSE IF IsTupleType(TypeOf(u))
       THEN [k \in 1..Len(ConvertType(TypeOf(u))) |-> <<"mat", u, k>>]
       ELSE <<<<"val", u>>>>

ConvertedOperands(i) ==
  FlattenSeq([k \in DOMAIN Prog[i].args |-> OperandValues(Prog[i].args[k])])

(* OneToNPatternRewriter::replaceOp: the results of op i are replaced by  *)
(* values; the op is erased.                                              *)
ReplaceOp(i, values) ==
  /\ converted' = converted \cup {i}
  /\ replaced' = [replaced EXCEPT ![i] = values]
  /\ UNCHANGED <<input, phase>>

(* A pattern applies to an op of its kind the driver has not rewritten.   *)
Matches(i, kind) ==
  /\ phase = "rewrite"
  /\ i \in PatternOps \ converted
  /\ Prog[i].kind = kind

-----------------------------------------------------------------------------
(* The patterns, applied by the greedy driver.                             *)

RewriteConcat(i) ==
  /\ Matches(i, "concat")
  /\ ReplaceOp(i, DecomposeConcatOp(OperandMapping(i), ConvertedOperands(i)))

RewriteConstant(i) ==
  /\ Matches(i, "constant")
  /\ ReplaceOp(i, DecomposeConstantOp(Prog[i].attr))

RewriteExtract(i) ==
  /\ Matches(i, "extract")
  /\ ReplaceOp(i, DecomposeExtractOp(OperandTypes(i)[1], OperandMapping(i),
                                     ConvertedOperands(i), Prog[i].pos))

RewriteExtractSlice(i) ==
  /\ Matches(i, "extract_slice")
  /\ ReplaceOp(i, DecomposeExtractSliceOp(OperandTypes(i)[1], OperandMapping(i),
                                          ConvertedOperands(i), Prog[i].positions))

RewriteFromElements(i) ==
  /\ Matches(i, "from_elements")
  /\ ReplaceOp(i, DecomposeFromElementsOp(ConvertedOperands(i)))

RewriteInsert(i) ==
  /\ Matches(i, "insert")
  /\ ReplaceOp(i, DecomposeInsertOp(OperandTypes(i)[2], OperandMapping(i),
                                    ConvertedOperands(i), Prog[i].pos))

RewriteInsertSlice(i) ==
  /\ Matches(i, "insert_slice")
  /\ ReplaceOp(i, DecomposeInsertSliceOp(OperandTypes(i)[1], OperandTypes(i)[2],
                                         OperandMapping(i), ConvertedOperands(i),
                                         Prog[i].positions))

RewriteToElements(i) ==
  /\ Matches(i, "to_elements")
  /\ ReplaceOp(i, DecomposeToElementsOp(ConvertedOperands(i)))

(* populateFuncTypeConversionPatterns: the function signature pattern      *)
(* replaces every tuple argument by its converted block arguments.         *)
ConvertFuncSignature ==
  /\ ConvertFuncOps
  /\ phase = "rewrite"
  /\ ArgOps # {} /\ ArgOps \cap converted = {}
  /\ converted' = converted \cup ArgOps
  /\ replaced' = [i \in Ops |->
                    IF i \in ArgOps
                    THEN [k \in 1..Len(ConvertType(Prog[i].type)) |-> <<"arg", i, k>>]
                    ELSE replaced[i]]
  /\ UNCHANGED <<input, phase>>

(* The return pattern returns the converted operands.                      *)
ConvertReturn(i) ==
  /\ ConvertFuncOps
  /\ phase = "rewrite"
  /\ i \in ReturnOps \ converted
  /\ ReplaceOp(i, ConvertedOperands(i))

-----------------------------------------------------------------------------
(***************************************************************************)
(* The data the current IR computes, by recursion over the def-use DAG.   *)
(* Data[i] is, for a rewritten op, the data of the values replacing its  *)
(* results; for a sink, the data of its operands; for any other op, its   *)
(* result values.                                                          *)
(***************************************************************************)
OptValue(opt) == IF opt = {} THEN NoValue ELSE Get(opt)

(* A tuple value assembled from its leaf data by buildFromElementsOp; a   *)
(* leaf-typed value is its single converted value.                         *)
FromLeaves(type, leaves) ==
  IF IsTupleType(type) THEN OptValue(BuildFromElementsOp(type, leaves)) ELSE leaves[1]

(* The k-th leaf of a tuple value taken apart by buildToElementsOp.       *)
(* A failed materialization leaves no value (the pass fails at the end);   *)
(* whatever is computed from it has none either.                           *)
ToLeaf(type, value, k) ==
  LET leaves == BuildToElementsOp(type, value)
  IN  IF value = NoValue \/ leaves = {} THEN NoValue ELSE Get(leaves)[k]

(* The values replacing value u of a rewritten producer.                  *)
ReplacedData(ev, u) == GetConvertedValues(ResultMapping(u[1]), ev[u[1]], u[2] - 1)

(* The value an unrewritten op reads for operand u: through an N:1 cast   *)
(* (buildFromElementsOp) when u's producer was rewritten.                 *)
StructOf(ev, u) ==
  IF u[1] \in converted THEN FromLeaves(TypeOf(u), ReplacedData(ev, u))
                        ELSE ev[u[1]][u[2]]

(* The data of a value handle; a 1:N cast of a value whose producer was   *)
(* rewritten folds away (cast of cast), else it is buildToElementsOp.     *)
HandleValue(ev, h) ==
  CASE h[1] = "cst" -> h[2].val
    [] h[1] = "val" -> StructOf(ev, h[2])
    [] h[1] = "arg" -> Leaves(Prog[h[2]].type, input[h[2]])[h[3]]
    [] h[1] = "mat" ->
         IF h[2][1] \in converted THEN ReplacedData(ev, h[2])[h[3]]
         ELSE ToLeaf(TypeOf(h[2]), ev[h[2][1]][h[2][2]], h[3])

EntryOf(ev, i) ==
  IF i \in converted
  THEN Strict([k \in DOMAIN replaced[i] |-> HandleValue(ev, replaced[i][k])])
  ELSE CHOOSE d \in {CASE i \in SinkOps        -> v
                         [] NoValue \in Range(v) -> [r \in DOMAIN ResultTypes[i] |-> NoValue]
                         [] OTHER                -> OpSemantics(i, v, input) :
                       v \in {Strict([k \in DOMAIN Prog[i].args |->
                                        StructOf(ev, Prog[i].args[k])])}} : TRUE

(* ev holds the data of ops 1..n-1.  Binding the prefix with \in makes    *)
(* TLC compute it once, also where it evaluates Data in a primed context. *)
RECURSIVE EvalFrom(_, _)
EvalFrom(ev, n) ==
  IF n > N THEN ev
  ELSE EvalFrom(CHOOSE next \in {Append(e, EntryOf(e, n)) : e \in {ev}} : TRUE, n + 1)

Data == EvalFrom(<<>>, 1)

(* The operand values of every return and external use; a converted       *)
(* return returns its operands' leaves.                                   *)
ObservedIn(ev) ==
  [i \in SinkOps |-> IF i \in converted THEN Unflatten(OperandTypes(i), ev[i])
                                        ELSE ev[i]]

Observed == CHOOSE o \in {ObservedIn(ev) : ev \in {Data}} : TRUE

(* Every cast left at a boundary materializes.                             *)
MaterializationsSucceed ==
  LET ev == Data IN
  /\ \A i \in Ops \ converted : \A k \in DOMAIN Prog[i].args :
       LET u == Prog[i].args[k] IN
       (u[1] \in converted /\ IsTupleType(TypeOf(u))) =>
         BuildFromElementsOp(TypeOf(u),
           ReplacedData(ev, u)) # {}
  /\ \A i \in converted : \A k \in DOMAIN replaced[i] :
       LET h == replaced[i][k] IN
       (h[1] = "mat" /\ h[2][1] \notin converted) =>
         BuildToElementsOp(TypeOf(h[2]), ev[h[2][1]][h[2][2]]) # {}

(* applyPartialOneToNConversion: once no pattern applies, the remaining    *)
(* casts are replaced by materializations; the pass fails if one fails.    *)
Finalize ==
  /\ phase = "rewrite"
  /\ PatternOps \subseteq converted
  /\ ConvertFuncOps => ArgOps \cup ReturnOps \subseteq converted
  /\ phase' = IF MaterializationsSucceed THEN "done" ELSE "failed"
  /\ UNCHANGED <<input, converted, replaced>>

-----------------------------------------------------------------------------
Init ==
  /\ input = FunctionInput
  /\ converted = {}
  /\ replaced = [i \in Ops |-> <<>>]
  /\ phase = "rewrite"

Next ==
  \/ \E i \in Ops :
       \/ RewriteConcat(i)
       \/ RewriteConstant(i)
       \/ RewriteExtract(i)
       \/ RewriteExtractSlice(i)
       \/ RewriteFromElements(i)
       \/ RewriteInsert(i)
       \/ RewriteInsertSlice(i)
       \/ RewriteToElements(i)
       \/ ConvertReturn(i)
  \/ ConvertFuncSignature
  \/ Finalize

(* The greedy driver keeps rewriting while a pattern applies, then         *)
(* materializes: a single-threaded loop, so the whole pass is weakly fair. *)
Spec == Init /\ [][Next]_vars /\ WF_vars(Next)

-----------------------------------------------------------------------------
(* Whatever order the driver rewrites in, every value of the function, as *)
(* an unrewritten op would read it (through a materialization where its   *)
(* producer was rewritten), is the value the unconverted function         *)
(* computes: the patterns, the slicing by type mappings and the casts     *)
(* between rewritten and unrewritten ops agree.                            *)
ValuesPreserved ==
  LET ev == Data IN
  \A i \in Ops \ SinkOps : \A r \in DOMAIN ResultTypes[i] :
    StructOf(ev, <<i, r>>) = OrigValues[i][r]

(* The conditions the code only asserts hold whenever they are checked:   *)
(* replaceOp gets as many values as the results convert to, the insert    *)
(* patterns find the element and slice ranges they overwrite of equal     *)
(* size, and buildFromElementsOp finds one value per leaf element.        *)
AssertionsHold ==
  LET ev == Data IN
  /\ \A i \in converted \ (ArgOps \cup SinkOps) :
       Len(replaced[i]) = Len(ConvertTypes(ResultTypes[i]))
  /\ \A i \in ReturnOps \cap converted :
       Len(replaced[i]) = Len(ConvertTypes(OperandTypes(i)))
  /\ \A i \in PatternOps \ converted :
       /\ Prog[i].kind = "insert" =>
            InsertOpAssertion(OperandTypes(i)[2], OperandMapping(i),
                              ConvertedOperands(i), Prog[i].pos)
       /\ Prog[i].kind = "insert_slice" =>
            InsertSliceOpAssertion(OperandTypes(i)[1], OperandTypes(i)[2],
                                   Prog[i].positions)
  /\ \A i \in Ops \ converted : \A k \in DOMAIN Prog[i].args :
       LET u == Prog[i].args[k] IN
       (u[1] \in converted /\ IsTupleType(TypeOf(u))) =>
         FromElementsAssertion(TypeOf(u),
           ReplacedData(ev, u))

(* The pass implements its promise: it finishes, and what the function's  *)
(* environment observes is, at every step, what the unconverted function  *)
(* computes.                                                               *)
Abstract == INSTANCE DecomposeTuplesAbstract
              WITH observed <- Observed, finished <- (phase = "done")
Refinement == Abstract!Spec

=============================================================================
