------------------------------ MODULE Positions ------------------------------
(***************************************************************************)
(* What a filter of a sequence keeps: the elements at some of its positions, *)
(* in their order. (SelectSeq and SetToSortSeq would do, but they take an    *)
(* operator, which the proofs could not look into.)                          *)
(***************************************************************************)
EXTENDS Integers, Sequences, FiniteSets

\* Positions in their order: the k-th is the one that k - 1 others come before.
InOrder(S) ==
    [k \in 1..Cardinality(S) |-> CHOOSE i \in S : Cardinality({j \in S : j < i}) = k - 1]

Only(s, S) == [k \in 1..Cardinality(S) |-> s[InOrder(S)[k]]]
=============================================================================
