-------------------------- MODULE ResourceHashing --------------------------
(***************************************************************************)
(* The pure part of internal/compiler/compiler.go hashResources: what      *)
(* resourcePlan answers for one resource, and how the answers of a set of  *)
(* resources are assembled into the slice of plans and the diagnostics.    *)
(*                                                                         *)
(* A resource is its index in the slice ParseDocuments sorted.  The plans  *)
(* are sorted again by an identity that also carries the target and the    *)
(* adapter, and that order is another one: without a target "name=a" is    *)
(* before "name=a-b", with one "name=a-b;target=" is before                *)
(* "name=a;target=", so the rank of an identity is a constant of its own.  *)
(***************************************************************************)
EXTENDS Integers, Sequences, FiniteSets, SequencesExt

CONSTANTS
  N,          (* the number of resources given to hashResources           *)
  Rank,       (* Rank[i]: place of resource i in the order of the full    *)
              (* identities; ranks are distinct (DVAL001 refuses two      *)
              (* resources of one identity)                               *)
  Unhashable  (* the resources whose canonical form cannot be built       *)

Resources == 1..N

ASSUME ResourcesAssumption ==
  /\ N \in Nat
  /\ Rank \in [Resources -> Nat \ {0}]
  /\ \A i, j \in Resources : Rank[i] = Rank[j] => i = j
  /\ Unhashable \subseteq Resources

-----------------------------------------------------------------------------
\* The plan of resource i; the empty plan (whose identity is before every
\* other) when its material cannot be canonicalised or hashed.
ResourcePlan(i) ==
  IF i \in Unhashable THEN [rank |-> 0, resource |-> 0]
                      ELSE [rank |-> Rank[i], resource |-> i]

\* The diagnostics resourcePlan returns beside the plan (DIR001 or DHASH001).
ResourceDiags(i) ==
  IF i \in Unhashable THEN {[code |-> "DHASH001", resource |-> i]} ELSE {}

\* The diagnostic of a cancelled context; it names no resource.
CancelDiag == [code |-> "DCOMP001", resource |-> 0]

\* The results are put in index order, then their plans are sorted by
\* identity with a stable sort: equal identities keep the index order.
PlanBefore(i, j) ==
  \/ ResourcePlan(i).rank < ResourcePlan(j).rank
  \/ ResourcePlan(i).rank = ResourcePlan(j).rank /\ i < j

PlansOf(S) ==
  LET sorted == SetToSortSeq(S, PlanBefore)
  IN  [k \in DOMAIN sorted |-> ResourcePlan(sorted[k])]

\* The diagnostics of the resources in S, and DCOMP001 if the context was
\* found cancelled. Their order is that of a later SortDiagnostics.
DiagsOf(S, cancelled) ==
  (UNION {ResourceDiags(i) : i \in S})
    \cup (IF cancelled THEN {CancelDiag} ELSE {})
=============================================================================
