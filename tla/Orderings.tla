----------------------------- MODULE Orderings ------------------------------
(***************************************************************************)
(* Sorting and filtering, as Python's sorted and comprehensions and SQL's  *)
(* ORDER BY do them.  An order is the set of its pairs: a pair <<x, y>> is *)
(* in it if x comes before y.                                              *)
(***************************************************************************)
EXTENDS Integers, Sequences, FiniteSets

\* The elements of S in an order that tells any two of them apart: each one
\* comes after as many as are before it.
InOrder(S, order) ==
  [k \in 1..Cardinality(S) |->
     CHOOSE x \in S : Cardinality({y \in S : <<y, x>> \in order}) = k - 1]

Ascending(I) == {e \in I \X I : e[1] < e[2]}

\* What the sequence s has at the positions I, in its order.
Selected(s, I) ==
  LET positions == InOrder(I, Ascending(I))
  IN [k \in 1..Cardinality(I) |-> s[positions[k]]]
=============================================================================
