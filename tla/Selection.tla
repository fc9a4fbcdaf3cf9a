------------------------------ MODULE Selection ------------------------------
(***************************************************************************)
(* What a list comprehension keeps of a list: the elements at some of its  *)
(* positions, in their order.  Stated by ranks, not by recursion, so that  *)
(* it can be reasoned about.                                               *)
(***************************************************************************)
EXTENDS Naturals, FiniteSets, Sequences

\* How many positions of I there are up to i.
Rank(I, i) == Cardinality({j \in I : j <= i})

\* The elements of s at the positions I.
Picked(s, I) == [k \in 1..Cardinality(I) |-> s[CHOOSE i \in I : Rank(I, i) = k]]
=============================================================================
