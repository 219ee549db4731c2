----------------------------- MODULE MCHashPool -----------------------------
(* Instances of HashPool for TLC. *)
EXTENDS HashPool

\* Four resources; the order of the full identities swaps the middle two, and
\* one of the swapped ones cannot be hashed.
MCRank == <<10, 30, 20, 40>>
MCUnhashable == {2}
=============================================================================
