----------------------------- MODULE Selections -----------------------------
(* Parts of a sequence, and sets put in order.                             *)
EXTENDS Naturals, Sequences, FiniteSets

(* S as a sequence, in the strict and total order of the pairs R.          *)
Ranked(S, R) ==
  [n \in 1..Cardinality(S) |-> CHOOSE x \in S : Cardinality({y \in S : <<y, x>> \in R}) = n - 1]

Ascending(I) == Ranked(I, {p \in I \X I : p[1] < p[2]})

(* What s holds at the indices I, in its order.                            *)
Select(s, I) == LET at == Ascending(I) IN [n \in 1..Cardinality(I) |-> s[at[n]]]
=============================================================================
