------------------------------ MODULE Sorting ------------------------------
(***************************************************************************)
(* Lists in order.  A list is put together from the positions its elements *)
(* come to, and not step by step: that is what proofs can make use of.     *)
(***************************************************************************)
EXTENDS Integers, Sequences, FiniteSets

(* The elements of a finite set, each behind those that are before it; the *)
(* order is a set of pairs.                                                *)
InOrder(S, before) == [k \in 1..Cardinality(S) |->
    CHOOSE x \in S : Cardinality({y \in S : <<y, x>> \in before}) = k - 1]

(* The numbers of a set in their order *)
Ascending(I) == InOrder(I, {p \in I \X I : p[1] < p[2]})

(* The elements of a list at the positions I *)
Sublist(list, I) == [k \in 1..Cardinality(I) |-> list[Ascending(I)[k]]]
=============================================================================
