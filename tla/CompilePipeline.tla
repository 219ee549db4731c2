--------------------------- MODULE CompilePipeline ---------------------------
(***************************************************************************)
(* internal/compiler/compiler.go CompileDocuments: parse, validate, plan,  *)
(* hash and render, each looking at the context in its own places, and the *)
(* record of passes kept beside the diagnostics.  The call of              *)
(* hashResources is a step of HashContract, which HashPool implements.     *)
(*                                                                         *)
(* The specification is abstracted to its resources and to what is at      *)
(* fault in it; warnings, which stop nothing, are left out.                *)
(***************************************************************************)
EXTENDS ResourceHashing

CONSTANTS
  D,         (* the number of documents                                   *)
  DocOf      (* DocOf[r]: the document resource r is declared in          *)

Docs == 1..D

ASSUME DocumentsAssumption == D \in Nat /\ DocOf \in [Resources -> Docs]

\* The names of result.Passes, by the step that settles them.
ParsePasses == {"parse"}
ValidationPasses == {"schema validation", "semantic validation"}
PlanningPasses ==
  {"definition registration", "reference resolution",
   "provider registration", "binding resolution", "policy enforcement",
   "normalization", "dependency graph construction",
   "execution-plan derivation", "target planning"}
HashingPasses == {"per-resource hashing"}
RenderPass == {"artifact rendering"}
BundlePasses ==
  RenderPass \cup
  {"canonicalization", "bundle hashing", "provenance generation",
   "documentation generation", "conformance-test generation",
   "recovery-artifact generation"}

passNames == ParsePasses \cup ValidationPasses \cup PlanningPasses
               \cup HashingPasses \cup BundlePasses

VARIABLES
  faults,     (* what is at fault in the specification                    *)
  ctxDone,    (* ctx.Err() # nil                                          *)
  pc,         (* the stage CompileDocuments is in                         *)
  k,          (* the document or resource its loop is at                  *)
  resources,  (* the resources parsed so far                              *)
  hashed,     (* the answer of hashResources                              *)
  plan,       (* result.Plan.Resources                                    *)
  diags,      (* result.Diagnostics, errors only, as [code, resource]     *)
  passes,     (* result.Passes                                            *)
  files       (* result.Files, as the plans they are rendered from        *)

vars == <<faults, ctxDone, pc, k, resources, hashed, plan, diags, passes,
          files>>

Hash == INSTANCE HashContract WITH answer <- hashed

NoFiles == [rendered |-> FALSE, plans |-> <<>>]

\* references: a duplicate identity, a wrong definition or a dangling
\* reference. planning: an error of any planner BuildPlan calls. rendering:
\* an error of renderArtifacts.
Faults == [docs : SUBSET Docs, resources : SUBSET Resources,
           references : BOOLEAN, planning : BOOLEAN, rendering : BOOLEAN]

Init ==
  /\ faults \in Faults
  /\ Hash!Init
  /\ pc = "parse" /\ k = 1
  /\ resources = {}
  /\ plan = <<>>
  /\ diags = {}
  /\ passes = [p \in passNames |-> "pending"]
  /\ files = NoFiles

Diag(code, r) == [code |-> code, resource |-> r]

-----------------------------------------------------------------------------
(* result.markPass of a set of passes, and result.skipRemaining. *)

markPass(names, status) ==
  [p \in passNames |-> IF p \in names THEN status ELSE passes[p]]

skipRemaining_Forgets(marked) == marked

skipRemaining_SettledToo(marked) ==
  [p \in passNames |-> IF marked[p] # "failed" THEN "skipped" ELSE marked[p]]

skipRemaining(marked) ==
  [p \in passNames |-> IF marked[p] = "pending" THEN "skipped" ELSE marked[p]]

\* One of the early returns: passes `names` have failed, the rest is skipped.
Stop(found, names) ==
  /\ diags' = found
  /\ passes' = skipRemaining(markPass(names, "failed"))
  /\ pc' = "returned"
  /\ UNCHANGED <<faults, ctxDone, hashed, files>>

-----------------------------------------------------------------------------
(* spec.ParseDocuments *)

ParseDocument_PastTheEnd ==
  /\ pc = "parse" /\ k <= D + 1 /\ ~ctxDone
  /\ resources' = resources \cup {r \in Resources : DocOf[r] = k}
  /\ diags' = diags \cup (IF k \in faults.docs THEN {Diag("DSPEC", k)} ELSE {})
  /\ k' = k + 1
  /\ UNCHANGED <<faults, ctxDone, pc, hashed, plan, passes, files>>

ParseDocument ==
  /\ pc = "parse" /\ k <= D /\ ~ctxDone
  /\ resources' = resources \cup {r \in Resources : DocOf[r] = k}
  /\ diags' = diags \cup (IF k \in faults.docs THEN {Diag("DSPEC", k)} ELSE {})
  /\ k' = k + 1
  /\ UNCHANGED <<faults, ctxDone, pc, hashed, plan, passes, files>>

\* With a cancelled context ParseDocuments returns what it has.
ParseDiags == diags \cup (IF k <= D THEN {CancelDiag} ELSE {})

EndParse_KeepsIndex ==
  /\ pc = "parse"
  /\ k > D \/ ctxDone
  /\ UNCHANGED <<resources, plan, k>>
  /\ \/ /\ ParseDiags # {}
        /\ Stop(ParseDiags, ParsePasses)
     \/ /\ ParseDiags = {}
        /\ pc' = "validate"
        /\ passes' = markPass(ParsePasses, "ok")
        /\ UNCHANGED <<faults, ctxDone, hashed, diags, files>>

EndParse ==
  /\ pc = "parse"
  /\ k > D \/ ctxDone
  /\ UNCHANGED <<resources, plan>>
  /\ \/ /\ ParseDiags # {}
        /\ Stop(ParseDiags, ParsePasses)
        /\ UNCHANGED k
     \/ /\ ParseDiags = {}
        /\ pc' = "validate" /\ k' = 1
        /\ passes' = markPass(ParsePasses, "ok")
        /\ UNCHANGED <<faults, ctxDone, hashed, diags, files>>

-----------------------------------------------------------------------------
(* validation.ValidateResources *)

ValidateResource ==
  /\ pc = "validate" /\ k <= N /\ ~ctxDone
  /\ diags' = diags \cup
       (IF k \in resources \cap faults.resources THEN {Diag("DVAL", k)} ELSE {})
  /\ k' = k + 1
  /\ UNCHANGED <<faults, ctxDone, pc, resources, hashed, plan, passes, files>>

\* A cancelled context breaks the loop; duplicates, definitions and
\* references are validated all the same.
ValidationDiags ==
  diags \cup (IF k <= N THEN {CancelDiag} ELSE {})
        \cup (IF faults.references THEN {Diag("DREF", 0)} ELSE {})

\* The planning passes are marked before anything is planned.
EndValidation ==
  /\ pc = "validate"
  /\ k > N \/ ctxDone
  /\ UNCHANGED <<resources, plan, k>>
  /\ \/ /\ ValidationDiags # {}
        /\ Stop(ValidationDiags, ValidationPasses)
     \/ /\ ValidationDiags = {}
        /\ pc' = "plan"
        /\ passes' = markPass(ValidationPasses \cup PlanningPasses, "ok")
        /\ UNCHANGED <<faults, ctxDone, hashed, diags, files>>

-----------------------------------------------------------------------------
(* BuildPlan *)

\* The context is looked at once, before the planners.
StartPlan ==
  /\ pc = "plan"
  /\ UNCHANGED <<k, resources, plan>>
  /\ \/ /\ ctxDone
        /\ Stop({CancelDiag}, {})
     \/ /\ ~ctxDone
        /\ pc' = "hash"
        /\ UNCHANGED <<faults, ctxDone, hashed, diags, passes, files>>

\* hashResources: one step of its contract.
HashResources ==
  /\ pc = "hash"
  /\ \E n \in 0..N : Hash!Return(n)
  /\ UNCHANGED <<faults, pc, k, resources, plan, diags, passes, files>>

PlanDiags_HashOnly == hashed.diags

\* The diagnostics of the hashing and of the other planners.
PlanDiags ==
  hashed.diags \cup (IF faults.planning THEN {Diag("DPLAN", 0)} ELSE {})

\* The plan is kept in the result whatever the diagnostics, and no pass is
\* marked as failed for them.
EndPlan ==
  /\ pc = "hash" /\ hashed.returned
  /\ plan' = hashed.plans
  /\ UNCHANGED <<k, resources>>
  /\ \/ /\ PlanDiags # {}
        /\ Stop(PlanDiags, {})
     \/ /\ PlanDiags = {}
        /\ pc' = "render"
        /\ passes' = markPass(HashingPasses, "ok")
        /\ UNCHANGED <<faults, ctxDone, hashed, diags, files>>

-----------------------------------------------------------------------------
(* renderArtifacts *)

StartRender_IgnoresContext ==
  /\ pc = "render"
  /\ pc' = "assemble"
  /\ UNCHANGED <<faults, ctxDone, k, resources, hashed, plan, diags, passes,
                 files>>

StartRender_Silent ==
  /\ pc = "render"
  /\ UNCHANGED <<k, resources, plan>>
  /\ \/ /\ ctxDone
        /\ Stop({}, RenderPass)
     \/ /\ ~ctxDone
        /\ pc' = "assemble"
        /\ UNCHANGED <<faults, ctxDone, hashed, diags, passes, files>>

\* Either renderer looks at the context when it is called, and never again.
StartRender ==
  /\ pc = "render"
  /\ UNCHANGED <<k, resources, plan>>
  /\ \/ /\ ctxDone
        /\ Stop({Diag("DART001", 0)}, RenderPass)
     \/ /\ ~ctxDone
        /\ pc' = "assemble"
        /\ UNCHANGED <<faults, ctxDone, hashed, diags, passes, files>>

EndRender ==
  /\ pc = "assemble"
  /\ UNCHANGED <<k, resources, plan>>
  /\ \/ /\ faults.rendering
        /\ Stop({Diag("DART001", 0)}, RenderPass)
     \/ /\ ~faults.rendering
        /\ files' = [rendered |-> TRUE, plans |-> plan]
        /\ passes' = markPass(BundlePasses, "ok")
        /\ pc' = "returned"
        /\ UNCHANGED <<faults, ctxDone, hashed, diags>>

-----------------------------------------------------------------------------
Cancel ==
  /\ Hash!Cancel
  /\ UNCHANGED <<faults, pc, k, resources, plan, diags, passes, files>>

Returned == pc = "returned" /\ UNCHANGED vars

Compile ==
  \/ ParseDocument \/ EndParse
  \/ ValidateResource \/ EndValidation
  \/ StartPlan \/ HashResources \/ EndPlan
  \/ StartRender \/ EndRender

Next == Cancel \/ Compile \/ Returned

SafeSpec == Init /\ [][Next]_vars

\* CompileDocuments runs to its end: it waits for nothing but hashResources,
\* which returns (HashPool, ImplementsContract).
Spec == SafeSpec /\ WF_vars(Compile)

-----------------------------------------------------------------------------
TypeOK ==
  /\ faults \in Faults
  /\ ctxDone \in BOOLEAN
  /\ pc \in {"parse", "validate", "plan", "hash", "render", "assemble", "returned"}
  /\ k \in (1..(D + 1)) \cup (1..(N + 1))
  /\ resources \subseteq Resources
  /\ passes \in [passNames -> {"pending", "ok", "failed", "skipped"}]
  /\ files.rendered \in BOOLEAN

Flawless ==
  /\ faults.docs = {} /\ faults.resources = {} /\ Unhashable = {}
  /\ ~faults.references /\ ~faults.planning /\ ~faults.rendering

\* A bundle is rendered only from every resource of every document, with
\* nothing at fault anywhere: at whatever moment the context is cancelled, no
\* stage hands a truncated slice to the next one as if it were complete.
BundleComplete ==
  files # NoFiles =>
    /\ Flawless
    /\ resources = Resources
    /\ files.plans = PlansOf(Resources)

\* The commands judge a result by its diagnostics alone (cmdGenerate,
\* failOnDiagnostics): there are none exactly when there is a bundle, and a
\* cancellation is reported only when there was one.
AnswerExplained ==
  /\ pc = "returned" => (diags = {} <=> files # NoFiles)
  /\ CancelDiag \in diags => ctxDone

\* What each of the four stages finds, if it is reached and not cancelled.
ParseFaults == {Diag("DSPEC", d) : d \in faults.docs}
ValidationFaults == {Diag("DVAL", r) : r \in faults.resources}
                      \cup (IF faults.references THEN {Diag("DREF", 0)} ELSE {})
PlanFaults == DiagsOf(Resources, FALSE)
                \cup (IF faults.planning THEN {Diag("DPLAN", 0)} ELSE {})
RenderFaults == IF faults.rendering THEN {Diag("DART001", 0)} ELSE {}

FirstFaults ==
  IF ParseFaults # {} THEN ParseFaults
  ELSE IF ValidationFaults # {} THEN ValidationFaults
  ELSE IF PlanFaults # {} THEN PlanFaults
  ELSE RenderFaults

\* Left alone, the compiler reports ALL the faults of the first stage that
\* finds one, in one run, and nothing else.
FaultsReported == (pc = "returned" /\ ~ctxDone) => diags = FirstFaults

\* The record of passes: none is left pending, they are all ok exactly when
\* there is a bundle, and a failed pass goes with a diagnostic.
PassesHonest ==
  pc = "returned" =>
    /\ \A p \in passNames : passes[p] # "pending"
    /\ (\A p \in passNames : passes[p] = "ok") <=> files # NoFiles
    /\ (\E p \in passNames : passes[p] = "failed") => diags # {}

\* The status of a pass is final: an early return does not rewrite the
\* statuses of the passes settled before it.
PassSettledOnce ==
  [][\A p \in passNames : passes[p] # "pending" => passes'[p] = passes[p]]_vars

\* A cancellation before the renderer is called prevents the bundle, and the
\* call still returns.
CancelPreventsBundle ==
  (ctxDone /\ pc \notin {"assemble", "returned"})
    ~> (pc = "returned" /\ files = NoFiles)

-----------------------------------------------------------------------------
\* The five stages implement the one answer of the contract.
Contract == INSTANCE CompileContract
              WITH Bundle   <- PlansOf(Resources),
                   flawless <- Flawless,
                   answer   <- [returned |-> pc = "returned",
                                files    |-> files.plans,
                                failed   |-> pc = "returned" /\ diags # {}]

ImplementsContract == Contract!Spec
=============================================================================
