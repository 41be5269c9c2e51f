-------------------------- MODULE MCDecomposeTuples --------------------------
(***************************************************************************)
(* Functions to run the decomposition pass on.                             *)
(***************************************************************************)
EXTENDS DecomposeTuples

CONSTANT I32   \* the leaf type i32, a model value

I == I32
MCLeafTypes == {I}

Leaf(n) == [type |-> I, val |-> n]

T == <<I, <<I, I>>>>                 \* tuple<i32, tuple<i32, i32>>
C == [elems |-> <<Leaf(7), [elems |-> <<Leaf(8), Leaf(9)>>]>>]

(***************************************************************************)
(* Slices of nested tuples, read and written out of order.                *)
(*   %a = argument : tuple<i32, tuple<i32, i32>>                           *)
(*   %c = constant (7, (8, 9))                                             *)
(*   %x = extract_slice %a [1, 0]        : tuple<tuple<i32, i32>, i32>     *)
(*   %y = insert_slice %x into %c [1, 0] (equals %a)                       *)
(*   %z = concat %y, %x                                                    *)
(*   return %z                                                             *)
(*   use %x                                                                *)
(***************************************************************************)
SliceProg ==
  << [kind |-> "arg", args |-> <<>>, type |-> T],
     [kind |-> "constant", args |-> <<>>, attr |-> C],
     [kind |-> "extract_slice", args |-> <<<<1, 1>>>>, positions |-> <<1, 0>>],
     [kind |-> "insert_slice", args |-> <<<<3, 1>>, <<2, 1>>>>, positions |-> <<1, 0>>],
     [kind |-> "concat", args |-> <<<<4, 1>>, <<3, 1>>>>],
     [kind |-> "return", args |-> <<<<5, 1>>>>],
     [kind |-> "use", args |-> <<<<3, 1>>>>] >>

(***************************************************************************)
(* Single elements: a nested element moved, split and rebuilt.            *)
(*   %a = argument : tuple<i32, tuple<i32, i32>>                           *)
(*   %c = constant (7, (8, 9))                                             *)
(*   %e = extract %a [1]                 : tuple<i32, i32>                 *)
(*   %w = insert %e into %c [1]                                            *)
(*   %p, %q = to_elements %w                                               *)
(*   %f = from_elements %q, %p           : tuple<tuple<i32, i32>, i32>     *)
(*   return %f                                                             *)
(*   use %e                                                                *)
(***************************************************************************)
ElementProg ==
  << [kind |-> "arg", args |-> <<>>, type |-> T],
     [kind |-> "constant", args |-> <<>>, attr |-> C],
     [kind |-> "extract", args |-> <<<<1, 1>>>>, pos |-> 1],
     [kind |-> "insert", args |-> <<<<3, 1>>, <<2, 1>>>>, pos |-> 1],
     [kind |-> "to_elements", args |-> <<<<4, 1>>>>],
     [kind |-> "from_elements", args |-> <<<<5, 2>>, <<5, 1>>>>,
      type |-> <<<<I, I>>, I>>],
     [kind |-> "return", args |-> <<<<6, 1>>>>],
     [kind |-> "use", args |-> <<<<3, 1>>>>] >>

(***************************************************************************)
(* Empty tuples, which convert to no values at all, and repeated slice     *)
(* positions.                                                              *)
(*   %a = argument : tuple<i32, tuple<>, i32>                              *)
(*   %c = constant (4, (), 5)                                              *)
(*   %s = extract_slice %a [2, 0, 2]     : tuple<i32, i32, i32>            *)
(*   %e = extract %a [1]                 : tuple<>                         *)
(*   %w = insert %e into %c [1]                                            *)
(*   %v = insert_slice %a into %w [0, 1, 0]  (position 0 written twice,    *)
(*                                            position 1 empty)            *)
(*   %z = concat %v, %e                  : tuple<i32, tuple<>, i32>        *)
(*   return %z, %s                                                         *)
(*   use %e                                                                *)
(***************************************************************************)
U == <<I, <<>>, I>>                  \* tuple<i32, tuple<>, i32>

EmptyProg ==
  << [kind |-> "arg", args |-> <<>>, type |-> U],
     [kind |-> "constant", args |-> <<>>,
      attr |-> [elems |-> <<Leaf(4), [elems |-> <<>>], Leaf(5)>>]],
     [kind |-> "extract_slice", args |-> <<<<1, 1>>>>, positions |-> <<2, 0, 2>>],
     [kind |-> "extract", args |-> <<<<1, 1>>>>, pos |-> 1],
     [kind |-> "insert", args |-> <<<<4, 1>>, <<2, 1>>>>, pos |-> 1],
     [kind |-> "insert_slice", args |-> <<<<1, 1>>, <<5, 1>>>>, positions |-> <<0, 1, 0>>],
     [kind |-> "concat", args |-> <<<<6, 1>>, <<4, 1>>>>],
     [kind |-> "return", args |-> <<<<7, 1>>, <<3, 1>>>>],
     [kind |-> "use", args |-> <<<<4, 1>>>>] >>

ASSUME WellFormed

=============================================================================
