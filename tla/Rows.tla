--------------------------------- MODULE Rows ---------------------------------
(* Lists and the rows in them, for the models that keep one.                  *)
EXTENDS Naturals, Sequences, FiniteSets

\* The members of S, ranked by the pairs of before.
Ranked(S, before) ==
  [k \in 1..Cardinality(S) |->
     CHOOSE x \in S : Cardinality({y \in S : <<y, x>> \in before}) = k - 1]

\* Row numbers in their order.
Ascending(I) == Ranked(I, {p \in I \X I : p[1] < p[2]})

\* The rows of s at the places I.
RowsAt(s, I) ==
  LET places == Ascending(I) IN [k \in DOMAIN places |-> s[places[k]]]

\* The rows of s other than x.
Without(s, x) == RowsAt(s, {i \in DOMAIN s : s[i] # x})

===============================================================================
