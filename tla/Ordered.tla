------------------------------ MODULE Ordered ------------------------------
(***************************************************************************)
(* Finite sets put in sequence: the result of a sort, or of a scan that    *)
(* goes up.  The order is a relation, a set of pairs, so that lemmas can   *)
(* be stated for every order.                                              *)
(***************************************************************************)
EXTENDS Integers, Sequences, FiniteSets

\* How many elements of S come before x.
Rank(S, R, x) == Cardinality({y \in S : <<y, x>> \in R})

\* The elements of S in the order of R.
InSequence(S, R) == [i \in 1..Cardinality(S) |-> CHOOSE x \in S : Rank(S, R, x) = i - 1]

\* Numbers, the smallest first.
Increasing(S) == InSequence(S, {p \in S \X S : p[1] < p[2]})
=============================================================================
