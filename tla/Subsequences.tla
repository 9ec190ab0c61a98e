---------------------------- MODULE Subsequences ----------------------------
(***************************************************************************)
(* Parts of sequences that keep the order, by the positions they keep.     *)
(***************************************************************************)
EXTENDS Integers, Sequences, FiniteSets

\* How many of the positions I there are up to i.
Rank(I, i) == Cardinality({j \in I : j <= i})

\* The k-th of the positions I.
Place(I, k) == CHOOSE i \in I : Rank(I, i) = k

\* The elements of s at the positions I, in their order.
Subsequence(s, I) == [k \in 1..Cardinality(I) |-> s[Place(I, k)]]

\* The positions of s at which c is not, and what is left of s when every c is
\* taken out.
Others(s, c) == {i \in 1..Len(s) : s[i] # c}
Without(s, c) == Subsequence(s, Others(s, c))
=============================================================================
