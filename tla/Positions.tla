------------------------------ MODULE Positions ------------------------------
(***************************************************************************)
(* Parts of sequences, named by the positions they are made of.             *)
(***************************************************************************)
EXTENDS Integers, Sequences, FiniteSets

\* How many positions of K come up to k.
Rank(K, k) == Cardinality({j \in K : j <= k})

\* What s has at the positions K, in its order.
Picked(s, K) == [n \in 1..Cardinality(K) |-> s[CHOOSE k \in K : Rank(K, k) = n]]
=============================================================================
