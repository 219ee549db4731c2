-------------------------- MODULE MCCompilePipeline --------------------------
(* Instances of CompilePipeline for TLC. *)
EXTENDS CompilePipeline

\* Three documents, the second with two resources and the third with none; the order of the full
\* identities swaps the last two.
MCDocOf == <<1, 2, 2>>
MCRank == <<10, 30, 20>>
=============================================================================
