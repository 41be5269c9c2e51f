----------------------------- MODULE TupleTypes -----------------------------
(***************************************************************************)
(* Tuple types, the type converter of the decomposition pass and the      *)
(* one-to-N type mapping the pass builds from it.                          *)
(*                                                                         *)
(* A type is either a leaf type (an element of LeafTypes: i32, f32, ...)   *)
(* or a tuple type, represented as the sequence of its element types; the  *)
(* empty sequence is tuple<>.  A runtime value of a leaf type is an        *)
(* integer, a value of a tuple type is the sequence of its element values. *)
(*                                                                         *)
(* Positions are 0-based, as in the IR; a type mapping is a function on    *)
(* 0..n-1, and inputNo is a 0-based offset into the converted values.     *)
(***************************************************************************)
EXTENDS Integers, Sequences, SequencesExt

CONSTANT LeafTypes   \* the leaf (non-tuple) types that occur in the IR

IsTupleType(t) == t \notin LeafTypes

(***************************************************************************)
(* TupleType::getFlattenedTypes: the leaf types of a tuple type, nested    *)
(* tuples expanded in place, left to right.                                *)
(***************************************************************************)
RECURSIVE FlattenedTypes(_)
FlattenedTypes(t) ==
  FlattenSeq([i \in DOMAIN t |->
                IF IsTupleType(t[i]) THEN FlattenedTypes(t[i]) ELSE <<t[i]>>])

(* Mutant of DecomposeTuplesTypeConverter: a tuple converts to its       *)
(* element types (TupleType::getTypes) instead of its flattened types.    *)
ConvertTypeElements(t) == IF IsTupleType(t) THEN t ELSE <<t>>

(***************************************************************************)
(* DecomposeTuplesTypeConverter: any type converts to itself, a tuple type *)
(* to its flattened types (the later-added conversion is tried first).     *)
(***************************************************************************)
ConvertType(t) == IF IsTupleType(t) THEN FlattenedTypes(t) ELSE <<t>>

(***************************************************************************)
(* OneToNTypeMapping filled by convertSignatureArgs: position i of the     *)
(* original types maps to the converted range [inputNo, inputNo + size).   *)
(* A position whose type converts to nothing (an empty tuple) gets no      *)
(* mapping: getInputMapping returns nullopt, modelled as has = FALSE.      *)
(***************************************************************************)
SignatureMapping(types) ==
  LET n        == Len(types)
      sizes    == [i \in 0..n-1 |-> Len(ConvertType(types[i+1]))]
      offset[i \in 0..n] == IF i = 0 THEN 0 ELSE offset[i-1] + sizes[i-1]
  IN  [i \in 0..n-1 |->
         IF sizes[i] = 0
         THEN [has |-> FALSE, inputNo |-> 0, size |-> 0]
         ELSE [has |-> TRUE, inputNo |-> offset[i], size |-> sizes[i]]]

(* OneToNTypeMapping::getConvertedValues: the converted values of          *)
(* original position i, empty when the position has no mapping.           *)
GetConvertedValues(mapping, values, i) ==
  IF mapping[i].has
  THEN SubSeq(values, mapping[i].inputNo + 1, mapping[i].inputNo + mapping[i].size)
  ELSE <<>>

(* The converted types of a whole list of original types.                  *)
ConvertTypes(types) == FlattenSeq([i \in DOMAIN types |-> ConvertType(types[i])])

(* The sequence s, its elements computed once: TLC evaluates a function    *)
(* constructor [k \in D |-> e] again on every application.                *)
Strict(s) == s \o <<>>

-----------------------------------------------------------------------------
(***************************************************************************)
(* Reference definitions, independent of the code, that the properties    *)
(* compare the code against.                                               *)
(***************************************************************************)

(* The number of leaves of a type, by structural recursion.                *)
RECURSIVE LeafCount(_)
LeafCount(t) ==
  IF IsTupleType(t)
  THEN LET c[i \in 0..Len(t)] == IF i = 0 THEN 0 ELSE c[i-1] + LeafCount(t[i])
       IN  c[Len(t)]
  ELSE 1

(* The leaf values of a value v of type t, in depth-first order.           *)
RECURSIVE Leaves(_, _)
Leaves(t, v) ==
  IF IsTupleType(t)
  THEN LET l[i \in 0..Len(t)] == IF i = 0 THEN <<>> ELSE l[i-1] \o Leaves(t[i], v[i])
       IN  l[Len(t)]
  ELSE <<v>>

(* The value of type t whose leaves, in depth-first order, are xs.         *)
RECURSIVE Unflatten(_, _)
Unflatten(t, xs) ==
  IF IsTupleType(t)
  THEN LET start[i \in 1..Len(t)+1] ==
             IF i = 1 THEN 1 ELSE start[i-1] + LeafCount(t[i-1])
       IN  Strict([i \in 1..Len(t) |->
                     Unflatten(t[i], SubSeq(xs, start[i], start[i+1] - 1))])
  ELSE xs[1]

=============================================================================
