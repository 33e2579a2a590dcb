-------------------------------- MODULE Ranking --------------------------------
(***************************************************************************)
(* A finite set in the order of a relation, and a sequence without some of *)
(* its elements.  An element's place is the number of elements before it:  *)
(* said this way, not by recursion, so that it can be reasoned about.      *)
(***************************************************************************)
EXTENDS Integers, Sequences, FiniteSets

Rank(S, R, x) == Cardinality({y \in S : <<y, x>> \in R})
InOrder(S, R) == [i \in 1 .. Cardinality(S) |-> CHOOSE x \in S : Rank(S, R, x) = i - 1]

\* The elements of s with an index in I.
Selected(s, I) ==
  LET at == InOrder(I, {ij \in I \X I : ij[1] < ij[2]})
  IN [k \in 1 .. Cardinality(I) |-> s[at[k]]]
================================================================================
