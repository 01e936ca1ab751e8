------------------------------ MODULE Selection ------------------------------
(***************************************************************************)
(* Iterator::filter and Vec::retain: the elements of a sequence that pass a *)
(* test, in their order.  What passes is given as a set of positions.       *)
(***************************************************************************)
EXTENDS Integers, Sequences, FiniteSets

\* How many of the positions at are no larger than i.
Rank(at, i) == Cardinality({j \in at : j <= i})

\* The position of rank k.
Nth(at, k) == CHOOSE i \in at : Rank(at, i) = k

Kept(s, at) == [k \in 1..Cardinality(at) |-> s[Nth(at, k)]]
=============================================================================
