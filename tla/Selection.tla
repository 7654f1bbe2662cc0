------------------------------ MODULE Selection ------------------------------
(* Going through a set of positions in order, as a loop with a test does. *)
EXTENDS Naturals, FiniteSets

Rank(S, i) == Cardinality({j \in S : j <= i})

\* The elements of the finite set S of naturals, in increasing order.
InOrder(S) == [k \in 1 .. Cardinality(S) |-> CHOOSE i \in S : Rank(S, i) = k]
==============================================================================
