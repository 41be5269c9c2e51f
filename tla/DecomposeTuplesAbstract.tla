---------------------- MODULE DecomposeTuplesAbstract ----------------------
(***************************************************************************)
(* What the decomposition pass promises about one function: it finishes,  *)
(* and while and after it rewrites, everything the function's environment  *)
(* can observe (the values it returns, the values it passes to operations  *)
(* the pass does not rewrite) is what the unconverted function computes.   *)
(***************************************************************************)
EXTENDS TupleIR

VARIABLES
  input,      \* the function's arguments
  observed,   \* the operand values of every return and external use
  finished    \* the pass has returned successfully

vars == <<input, observed, finished>>

Init ==
  /\ input = FunctionInput
  /\ observed = OrigObservations
  /\ finished = FALSE

Finish ==
  /\ ~finished
  /\ finished' = TRUE
  /\ UNCHANGED <<input, observed>>

Spec == Init /\ [][Finish]_vars /\ WF_vars(Finish)

=============================================================================
