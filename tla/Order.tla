------------------------------- MODULE Order --------------------------------
(* Python's sorted() of distinct integers, and a list comprehension with a  *)
(* condition, as definitions the provers can unfold.                        *)
EXTENDS Integers, Sequences, FiniteSets

(* The members of a finite set of integers, each where its rank puts it. *)
InOrder(S) == [i \in 1..Cardinality(S) |-> CHOOSE x \in S : Cardinality({y \in S : y < x}) = i - 1]

(* What a list has at a set of positions. *)
Picked(list, at) ==
    LET order == InOrder(at) IN [i \in 1..Cardinality(at) |-> list[order[i]]]
=============================================================================
