------------------------------- MODULE TupleIR -------------------------------
(***************************************************************************)
(* The body of one function in SSA form: the input of the pass.            *)
(*                                                                         *)
(* Prog is a sequence of operation records.  Every operation has a kind   *)
(* and args, the sequence of its operand values; a value is <<j, r>>, the  *)
(* r-th result of operation j, and only results of earlier operations are  *)
(* operands (definition before use).  Kind-specific fields:                *)
(*   "arg"           type      a block argument of the function            *)
(*   "constant"      attr      tuple.constant                              *)
(*   "from_elements" type      tuple.from_elements                         *)
(*   "to_elements"             tuple.to_elements                           *)
(*   "extract"       pos       tuple.extract                               *)
(*   "extract_slice" positions tuple.extract_slice                         *)
(*   "insert"        pos       tuple.insert   (operands: element, tuple)   *)
(*   "insert_slice"  positions tuple.insert_slice (operands: slice, tuple) *)
(*   "concat"                  tuple.concat   (operands: lhs, rhs)         *)
(*   "return"                  func.return                                 *)
(*   "use"                     an operation no pattern converts (an        *)
(*                             external call), consuming its operands      *)
(***************************************************************************)
EXTENDS TupleDialect

CONSTANT Prog

N == Len(Prog)
Ops == 1..N

(* The operations the decomposition patterns rewrite.                      *)
TupleOpKinds == {"constant", "from_elements", "to_elements", "extract",
                 "extract_slice", "insert", "insert_slice", "concat"}
PatternOps == {i \in Ops : Prog[i].kind \in TupleOpKinds}
ArgOps     == {i \in Ops : Prog[i].kind = "arg"}
ReturnOps  == {i \in Ops : Prog[i].kind = "return"}
SinkOps    == {i \in Ops : Prog[i].kind \in {"return", "use"}}

(* The result types of every operation, as the parser and the type        *)
(* inference of Tuple.cpp derive them from the operand types.             *)
ResultTypesOf(rt, i) ==
  LET op == Prog[i]
      T(k) == rt[op.args[k][1]][op.args[k][2]]
      The(S) == CHOOSE t \in S : TRUE
  IN  CASE op.kind = "arg"           -> <<op.type>>
        [] op.kind = "constant"      -> <<AttrType(op.attr)>>
        [] op.kind = "from_elements" -> <<op.type>>
        [] op.kind = "to_elements"   -> ElementTypes(T(1))
        [] op.kind = "extract"       -> <<The(ParseTupleElementType(T(1), op.pos))>>
        [] op.kind = "extract_slice" -> <<The(ParseTupleElementTypes(T(1), op.positions))>>
        [] op.kind = "insert"        -> <<T(2)>>
        [] op.kind = "insert_slice"  -> <<T(2)>>
        [] op.kind = "concat"        -> <<ConcatResultType(T(1), T(2))>>
        [] op.kind \in {"return", "use"} -> <<>>

(* rt holds the result types of ops 1..n-1; ops n..N are typed in order.  *)
RECURSIVE ResultTypesFrom(_, _)
ResultTypesFrom(rt, n) ==
  IF n > N THEN rt ELSE ResultTypesFrom(Append(rt, ResultTypesOf(rt, n)), n + 1)

ResultTypes == ResultTypesFrom(<<>>, 1)

TypeOf(u) == ResultTypes[u[1]][u[2]]
OperandTypes(i) == [k \in DOMAIN Prog[i].args |-> TypeOf(Prog[i].args[k])]
Values(i) == {<<i, r>> : r \in DOMAIN ResultTypes[i]}

(* The program is one the parser and the verifiers accept: operands are   *)
(* results of earlier operations, positions are in bounds, and operand    *)
(* types are those the operation requires.                                *)
WellFormed ==
  \A i \in Ops :
    LET op == Prog[i]  ts == OperandTypes(i) IN
    /\ \A k \in DOMAIN op.args : op.args[k][1] < i
                                 /\ op.args[k][2] \in DOMAIN ResultTypes[op.args[k][1]]
    /\ op.kind = "from_elements" => ts = ElementTypes(op.type)
    /\ op.kind = "extract" => ParseTupleElementType(ts[1], op.pos) # {}
    /\ op.kind = "extract_slice" => ParseTupleElementTypes(ts[1], op.positions) # {}
    /\ op.kind = "insert" => ParseTupleElementType(ts[2], op.pos) = {ts[1]}
    /\ op.kind = "insert_slice" => ParseInsertSliceTypes(ts[2], op.positions) = {ts[1]}
    /\ op.kind \in {"to_elements", "extract", "extract_slice", "concat"} =>
         IsTupleType(ts[1])
    /\ op.kind \in {"insert_slice", "insert", "concat"} => IsTupleType(ts[2])

(* The input of the function: for every argument a value of its type      *)
(* whose leaves are 100 * a + 1, 100 * a + 2, ...  The pass never computes *)
(* with leaf data, it only moves values, so one input whose leaves differ *)
(* from each other and from every constant reveals any value that ends up *)
(* in a wrong place: checking this input covers all inputs.               *)
FunctionInput ==
  [a \in ArgOps |-> Unflatten(Prog[a].type,
                              [k \in 1..LeafCount(Prog[a].type) |-> 100 * a + k])]

(* The result values of operation i of the unconverted program, given the *)
(* values of its operands and the function's input.                       *)
OpSemantics(i, v, input) ==
  LET op == Prog[i] IN
  CASE op.kind = "arg"           -> <<input[i]>>
    [] op.kind = "constant"      -> <<AttrValue(op.attr)>>
    [] op.kind = "from_elements" -> <<FromElementsValue(v)>>
    [] op.kind = "to_elements"   -> v[1]
    [] op.kind = "extract"       -> <<ExtractValue(v[1], op.pos)>>
    [] op.kind = "extract_slice" -> <<ExtractSliceValue(v[1], op.positions)>>
    [] op.kind = "insert"        -> <<InsertValue(v[1], v[2], op.pos)>>
    [] op.kind = "insert_slice"  -> <<InsertSliceValue(v[1], v[2], op.positions)>>
    [] op.kind = "concat"        -> <<ConcatValue(v[1], v[2])>>
    [] op.kind \in {"return", "use"} -> <<>>

(* The values of the results of every op of the unconverted program, by  *)
(* recursion over the def-use DAG.                                         *)
OrigValues[i \in Ops] ==
  OpSemantics(i, Strict([k \in DOMAIN Prog[i].args |->
                           OrigValues[Prog[i].args[k][1]][Prog[i].args[k][2]]]),
              FunctionInput)

(* What the function's environment observes of the unconverted program:   *)
(* the operand values of every return and every external use.             *)
OrigObservations ==
  [i \in SinkOps |-> [k \in DOMAIN Prog[i].args |->
                        OrigValues[Prog[i].args[k][1]][Prog[i].args[k][2]]]]

=============================================================================
