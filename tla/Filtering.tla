------------------------------ MODULE Filtering ------------------------------
(* What Array.prototype.filter() makes of a list, in a form that can be       *)
(* reasoned about: SelectSeq is recursive.                                    *)
EXTENDS Integers, FiniteSets

(* The j-th smallest of the positions I.                                      *)
Place(I, j) == CHOOSE i \in I : Cardinality({m \in I : m < i}) = j - 1

(* The elements of q at the positions I, in their order.                      *)
Picked(q, I) == [j \in 1..Cardinality(I) |-> q[Place(I, j)]]
=============================================================================
