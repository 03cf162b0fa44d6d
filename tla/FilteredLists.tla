----------------------------- MODULE FilteredLists -----------------------------
(***************************************************************************)
(* What a filter leaves of a list.                                         *)
(***************************************************************************)
EXTENDS Integers, Sequences, FiniteSets

\* The items of a list at some of its places, in the list's order: the k-th has k - 1 before it.
\* SelectSeq says the same by recursion over the list.
ItemsAt(list, places) ==
  LET at[p \in SUBSET Nat] == [k \in 1..Cardinality(p) |-> list[CHOOSE i \in p : Cardinality({j \in p : j < i}) = k - 1]]
  IN  at[places]
=============================================================================
