------------------------------ MODULE Sorting ------------------------------
(***************************************************************************)
(* sorted() of Python over a finite set.  The sorting of the community     *)
(* modules chooses a permutation, which the provers do not look into; here *)
(* each place is chosen by how many come before it.                        *)
(***************************************************************************)
EXTENDS Integers, FiniteSets

\* A finite set in order: the k-th has k - 1 before it.
InOrder(S, order) ==
    [k \in 1..Cardinality(S) |->
        CHOOSE x \in S : Cardinality({y \in S : <<y, x>> \in order}) = k - 1]
=============================================================================
