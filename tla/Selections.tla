----------------------------- MODULE Selections -----------------------------
(***************************************************************************)
(* Choosing elements of a sequence by their places.                        *)
(***************************************************************************)
EXTENDS Integers, Sequences, FiniteSets

\* The members of a finite set of numbers in increasing order.
Increasing(K) ==
    CHOOSE f \in [1 .. Cardinality(K) -> K] :
        \A i, j \in 1 .. Cardinality(K) : i < j => f[i] < f[j]

\* The items of s at the places K, in their order.
AtPlaces(s, K) == [n \in 1 .. Cardinality(K) |-> s[Increasing(K)[n]]]
=============================================================================
