---------------------------- MODULE StableSorting ----------------------------
(***************************************************************************)
(* sort.SliceStable, as the storage planner and the artifacts use it: the  *)
(* entries of lower rank come first, and those of one rank keep their      *)
(* order; and the selection of some entries in their order.                *)
(***************************************************************************)
EXTENDS Integers, Sequences, FiniteSets

\* The place of entry k among the entries that are kept: it counts those of
\* lower rank and those of its own rank that are not after it.
Place(kept, rank, k) ==
  Cardinality({j \in kept : rank[j] < rank[k] \/ (rank[j] = rank[k] /\ j <= k)})

\* The entries of s at the places kept, sorted by their ranks.
InOrder(s, kept, rank) ==
  [n \in 1..Cardinality(kept) |-> s[CHOOSE k \in kept : Place(kept, rank, k) = n]]

\* The entries of s at some places, in the order of s: what a loop sees that
\* skips the others.
Selected(s, places) == InOrder(s, places, [k \in places |-> 0])
=============================================================================
