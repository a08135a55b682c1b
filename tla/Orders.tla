------------------------------- MODULE Orders -------------------------------
(***************************************************************************)
(* Sets of indices in order, and the elements of a vector that are kept    *)
(* when the others are taken out: what sorting, flatten and retain do.     *)
(* Selected does what SelectSeq does, by way of the indices of what is     *)
(* selected, about which one can reason.                                   *)
(***************************************************************************)
EXTENDS Integers, Sequences, FiniteSets

\* The elements of a finite set of numbers, in increasing order.
InOrder(S) ==
    CHOOSE s \in [1 .. Cardinality(S) -> S] : \A i, j \in DOMAIN s : i < j => s[i] < s[j]

\* The elements of s at the indices P, in order.
Selected(s, P) == [k \in 1 .. Cardinality(P) |-> s[InOrder(P)[k]]]

\* The elements of s that are in S, in the order of their indices.
Among(s, S) == Selected(s, {i \in DOMAIN s : s[i] \in S})
=============================================================================
