----------------------------- MODULE Selections -----------------------------
(***************************************************************************)
(* What a loop keeps of a list: the elements at some of its positions, in  *)
(* their order.  It is said by counting, so that what it keeps follows     *)
(* from what sets and their sizes do.                                      *)
(***************************************************************************)
EXTENDS Integers, FiniteSets, Sequences

\* The position that n - 1 others of at precede.
Nth(at, n) == CHOOSE k \in at : Cardinality({j \in at : j < k}) = n - 1

\* The elements of s at the positions in at, in the order of s.
Picked(s, at) == [n \in 1..Cardinality(at) |-> s[Nth(at, n)]]

=============================================================================
