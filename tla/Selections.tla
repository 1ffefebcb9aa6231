------------------------------ MODULE Selections ---------------------------
(* Parts of a sequence.                                                      *)
EXTENDS Integers, Sequences, FiniteSets

(* The position of k among ks, and the elements at some positions of a      *)
(* sequence, in their order                                                 *)
Rank(ks, k) == Cardinality({j \in ks : j <= k})
Chosen(q, ks) == [i \in 1..Cardinality(ks) |-> q[CHOOSE k \in ks : Rank(ks, k) = i]]
=============================================================================
