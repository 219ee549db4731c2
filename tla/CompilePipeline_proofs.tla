----------------------- MODULE CompilePipeline_proofs -----------------------
(***************************************************************************)
(* Proofs about CompilePipeline, for every specification: any number of    *)
(* documents and resources, anything at fault in them, and a cancellation  *)
(* at any moment.                                                          *)
(***************************************************************************)
EXTENDS CompilePipeline, TLAPS

-----------------------------------------------------------------------------
(* The passes and the diagnostics. *)

\* The passes settled when a stage begins.
SettledBy(stage) ==
  CASE stage = "parse"    -> {}
    [] stage = "validate" -> ParsePasses
    [] stage = "plan"     -> ParsePasses \cup ValidationPasses \cup PlanningPasses
    [] stage = "hash"     -> ParsePasses \cup ValidationPasses \cup PlanningPasses
    [] OTHER              -> passNames \ BundlePasses

\* The statuses when the passes of S are ok and nothing has failed.
OkIn(S) == [p \in passNames |-> IF p \in S THEN "ok" ELSE "pending"]

\* Rendering is a pass of the bundle's, and no other step marks one of those.
LEMMA PassSets ==
  /\ "artifact rendering" \in BundlePasses
  /\ "artifact rendering" \in passNames
  /\ ParsePasses \cup ValidationPasses \cup PlanningPasses \cup HashingPasses
       = passNames \ BundlePasses
  /\ BundlePasses \subseteq passNames
  /\ RenderPass \in SUBSET passNames
  /\ "parse" \in ParsePasses
<1>1. /\ ParsePasses \cap BundlePasses = {}
      /\ ValidationPasses \cap BundlePasses = {}
      /\ HashingPasses \cap BundlePasses = {}
  BY DEF ParsePasses, ValidationPasses, HashingPasses, BundlePasses, RenderPass
<1>2. PlanningPasses \cap BundlePasses = {}
  BY DEF PlanningPasses, BundlePasses, RenderPass
<1>3. QED
  BY <1>1, <1>2 DEF passNames, BundlePasses, RenderPass, ParsePasses

\* The answer of hashResources has no diagnostics only if all the resources
\* were hashed, each of them without a fault.
LEMMA HashedClean ==
  ASSUME NEW n \in 0..N, NEW c \in BOOLEAN, n < N => c,
         DiagsOf(1..n, c) = {}
  PROVE  n = N /\ c = FALSE /\ Unhashable = {}
<1>1. c = FALSE
  BY DEF DiagsOf
<1>2. n = N
  BY <1>1, ResourcesAssumption
<1>3. \A i \in Resources : ResourceDiags(i) = {}
  BY <1>2 DEF DiagsOf, Resources
<1>4. \A i \in Resources : i \notin Unhashable
  BY <1>3 DEF ResourceDiags
<1>5. QED
  BY <1>1, <1>2, <1>4, ResourcesAssumption

-----------------------------------------------------------------------------
(* The inductive invariant. *)

\* The faults the stages before pc would have found are not there, and the
\* current loop has collected those of the indices before k.
StageInv ==
  /\ pc = "parse" =>
       /\ k \in 1..(D + 1)
       /\ resources = {r \in Resources : DocOf[r] < k}
       /\ diags = {Diag("DSPEC", d) : d \in faults.docs \cap (1..(k - 1))}
  /\ pc = "validate" =>
       /\ k \in 1..(N + 1)
       /\ diags = {Diag("DVAL", r) : r \in faults.resources \cap (1..(k - 1))}
  /\ pc \in {"validate", "plan", "hash", "render", "assemble"} =>
       resources = Resources /\ faults.docs = {}
  /\ pc \in {"plan", "hash", "render", "assemble"} =>
       diags = {} /\ faults.resources = {} /\ ~faults.references
  /\ pc \in {"render", "assemble"} =>
       plan = PlansOf(Resources) /\ Unhashable = {} /\ ~faults.planning

\* What hashResources has answered.
HashInv ==
  /\ hashed.returned \in BOOLEAN
  /\ hashed.returned =>
       \E n \in 0..N, c \in BOOLEAN :
         /\ n < N => c
         /\ c => ctxDone
         /\ hashed.plans = PlansOf(1..n)
         /\ hashed.diags = DiagsOf(1..n, c)

\* The passes while the compiler runs, and the answer once it has returned.
AnswerInv ==
  /\ pc # "returned" => files = NoFiles /\ passes = OkIn(SettledBy(pc))
  /\ BundleComplete /\ AnswerExplained /\ FaultsReported /\ PassesHonest

IInv == TypeOK /\ StageInv /\ HashInv /\ AnswerInv

LEMMA InitIInv == Init => IInv
<1> SUFFICES ASSUME Init PROVE IInv
  OBVIOUS
<1> USE DocumentsAssumption, ResourcesAssumption
<1>1. TypeOK
  <2>1. k \in 1..(D + 1)
    BY DEF Init
  <2>2. passes \in [passNames -> {"pending", "ok", "failed", "skipped"}]
    BY DEF Init
  <2>3. QED
    BY <2>1, <2>2 DEF Init, TypeOK, Hash!Init, NoFiles
<1>2. StageInv
  BY DEF Init, StageInv, Docs, Faults
<1>3. HashInv
  BY DEF Init, Hash!Init, Hash!NoAnswer, HashInv
<1>4. AnswerInv
  BY DEF Init, AnswerInv, OkIn, SettledBy, BundleComplete, AnswerExplained,
         FaultsReported, PassesHonest
<1>5. QED
  BY <1>1, <1>2, <1>3, <1>4 DEF IInv

-----------------------------------------------------------------------------
(* The steps. *)

\* While the compiler runs, the passes of the bundle are pending.
LEMMA BundlePending ==
  ASSUME IInv, pc # "returned"
  PROVE  /\ passes = OkIn(SettledBy(pc))
         /\ SettledBy(pc) \subseteq passNames \ BundlePasses
         /\ passes["artifact rendering"] = "pending"
<1>1. passes = OkIn(SettledBy(pc))
  BY DEF IInv, AnswerInv
<1>2. SettledBy(pc) \subseteq passNames \ BundlePasses
  BY PassSets DEF SettledBy
<1>3. QED
  BY <1>1, <1>2, PassSets DEF OkIn

\* An early return with the right diagnostics leaves a right answer.
LEMMA StopAnswers ==
  ASSUME IInv, pc # "returned", pc' = "returned",
         NEW names \in SUBSET passNames,
         passes' = skipRemaining(markPass(names, "failed")),
         UNCHANGED <<faults, ctxDone, hashed, files, resources>>,
         diags' # {},
         CancelDiag \in diags' => ctxDone,
         ~ctxDone => diags' = FirstFaults
  PROVE  /\ AnswerInv'
         /\ passes' \in [passNames -> {"pending", "ok", "failed", "skipped"}]
<1>1. files' = NoFiles /\ files = NoFiles
  BY DEF IInv, AnswerInv
<1>2. passes \in [passNames -> {"pending", "ok", "failed", "skipped"}]
  BY DEF IInv, TypeOK
<1>3. /\ passes' \in [passNames -> {"pending", "ok", "failed", "skipped"}]
      /\ \A p \in passNames : passes'[p] # "pending"
  BY <1>2 DEF skipRemaining, markPass
<1>4. passes'["artifact rendering"] # "ok"
  BY BundlePending, PassSets DEF skipRemaining, markPass
<1>5. BundleComplete' /\ AnswerExplained'
  BY <1>1 DEF BundleComplete, AnswerExplained
<1>6. PassesHonest'
  BY <1>1, <1>3, <1>4, PassSets DEF PassesHonest
<1>7. FirstFaults' = FirstFaults
  BY DEF FirstFaults, ParseFaults, ValidationFaults, PlanFaults, RenderFaults
<1>8. FaultsReported'
  BY <1>7 DEF FaultsReported
<1>9. QED
  BY <1>3, <1>5, <1>6, <1>8 DEF AnswerInv

\* Nothing but the settled passes of the next stage changes in the answer.
LEMMA GoOnAnswers ==
  ASSUME IInv, pc # "returned", pc' # "returned",
         passes' = OkIn(SettledBy(pc')),
         CancelDiag \in diags' => ctxDone',
         UNCHANGED files
  PROVE  /\ AnswerInv'
         /\ passes' \in [passNames -> {"pending", "ok", "failed", "skipped"}]
<1>1. files = NoFiles
  BY DEF IInv, AnswerInv
<1>2. BundleComplete' /\ AnswerExplained' /\ FaultsReported' /\ PassesHonest'
  BY <1>1 DEF BundleComplete, AnswerExplained, FaultsReported, PassesHonest,
              NoFiles
<1>3. OkIn(SettledBy(pc')) \in [passNames -> {"pending", "ok", "failed", "skipped"}]
  BY DEF OkIn
<1>4. QED
  BY <1>1, <1>2, <1>3 DEF AnswerInv

\* The passes of a stage that went well are added to the settled ones.
LEMMA MarkOk ==
  ASSUME NEW S \in SUBSET passNames, NEW names, passes = OkIn(S)
  PROVE  markPass(names, "ok") = OkIn(S \cup names)
BY DEF markPass, OkIn

\* A diagnostic of a fault is not that of a cancellation.
LEMMA FaultDiags ==
  /\ \A r : /\ Diag("DSPEC", r) # CancelDiag /\ Diag("DVAL", r) # CancelDiag
           /\ Diag("DREF", r) # CancelDiag /\ Diag("DPLAN", r) # CancelDiag
           /\ Diag("DART001", r) # CancelDiag
  /\ \A S : CancelDiag \notin UNION {ResourceDiags(i) : i \in S}
<1>1. ASSUME NEW r, NEW code, code # "DCOMP001"
      PROVE  Diag(code, r) # CancelDiag
  <2>1. Diag(code, r).code = code /\ CancelDiag.code = "DCOMP001"
    BY DEF Diag, CancelDiag
  <2>2. QED
    BY <1>1, <2>1
<1>2. ASSUME NEW i PROVE CancelDiag \notin ResourceDiags(i)
  BY DEF CancelDiag, ResourceDiags
<1>3. QED
  BY <1>1, <1>2

\* Most steps leave the answer of hashResources alone.
LEMMA HashKept ==
  ASSUME IInv, UNCHANGED hashed, ctxDone => ctxDone'
  PROVE  HashInv'
BY DEF IInv, HashInv

LEMMA ParseDocumentStep == IInv /\ ParseDocument => IInv'
<1> SUFFICES ASSUME IInv, ParseDocument PROVE IInv'
  OBVIOUS
<1> USE DocumentsAssumption, ResourcesAssumption
<1>1. /\ pc = "parse" /\ pc' = "parse" /\ k \in 1..D /\ k' = k + 1
      /\ UNCHANGED <<faults, ctxDone, hashed, plan, passes, files>>
  BY DEF ParseDocument, IInv, StageInv
<1>2. resources' = {r \in Resources : DocOf[r] < k'}
  <2>1. resources' = {r \in Resources : DocOf[r] < k}
                       \cup {r \in Resources : DocOf[r] = k}
    BY <1>1 DEF ParseDocument, IInv, StageInv
  <2>2. QED
    BY <2>1, <1>1 DEF Docs
<1>3. diags' = {Diag("DSPEC", d) : d \in faults.docs \cap (1..(k' - 1))}
  <2>1. diags = {Diag("DSPEC", d) : d \in faults.docs \cap (1..(k - 1))}
    BY <1>1 DEF IInv, StageInv
  <2>2. 1..(k' - 1) = (1..(k - 1)) \cup {k}
    BY <1>1
  <2>3. QED
    BY <2>1, <2>2 DEF ParseDocument
<1>4. StageInv'
  BY <1>1, <1>2, <1>3 DEF StageInv
<1>5. AnswerInv' /\ passes' \in [passNames -> {"pending", "ok", "failed", "skipped"}]
  BY <1>1, <1>3, FaultDiags, GoOnAnswers, BundlePending
<1>6. TypeOK'
  BY <1>1, <1>2, <1>5 DEF IInv, TypeOK
<1>7. QED
  BY <1>1, <1>4, <1>5, <1>6, HashKept DEF IInv

LEMMA EndParseStep == IInv /\ EndParse => IInv'
<1> SUFFICES ASSUME IInv, EndParse PROVE IInv'
  OBVIOUS
<1> USE DocumentsAssumption, ResourcesAssumption
<1>1. /\ pc = "parse" /\ k \in 1..(D + 1)
      /\ k > D \/ ctxDone
      /\ diags = {Diag("DSPEC", d) : d \in faults.docs \cap (1..(k - 1))}
      /\ resources = {r \in Resources : DocOf[r] < k}
      /\ faults.docs \subseteq Docs
      /\ UNCHANGED <<faults, ctxDone, hashed, resources, plan, files>>
  BY DEF EndParse, Stop, IInv, StageInv, TypeOK, Faults
<1>2. k > D => diags = ParseFaults
  BY <1>1 DEF ParseFaults, Docs
<1>3. CASE ParseDiags # {} /\ Stop(ParseDiags, ParsePasses) /\ UNCHANGED k
  <2>1. /\ pc' = "returned" /\ diags' = ParseDiags
        /\ passes' = skipRemaining(markPass(ParsePasses, "failed"))
    BY <1>3 DEF Stop
  <2>2. CancelDiag \in ParseDiags => ctxDone
    BY <1>1, FaultDiags DEF ParseDiags
  <2>3. ~ctxDone => ParseDiags = FirstFaults
    <3>1. ASSUME ~ctxDone PROVE ParseDiags = ParseFaults
      <4>1. k > D
        BY <1>1, <3>1
      <4>2. ParseDiags = diags
        BY <4>1, <1>1 DEF ParseDiags
      <4>3. QED
        BY <4>1, <4>2, <1>2
    <3>2. QED
      BY <3>1, <1>3 DEF FirstFaults
  <2>4. AnswerInv' /\ passes' \in [passNames -> {"pending", "ok", "failed", "skipped"}]
    BY <1>1, <1>3, <2>1, <2>2, <2>3, StopAnswers, PassSets
  <2>5. TypeOK' /\ StageInv'
    BY <1>1, <1>3, <2>1, <2>4 DEF IInv, TypeOK, StageInv
  <2>6. QED
    BY <1>1, <2>4, <2>5, HashKept DEF IInv
<1>4. CASE /\ ParseDiags = {} /\ pc' = "validate" /\ k' = 1
           /\ passes' = markPass(ParsePasses, "ok") /\ UNCHANGED diags
  <2>1. k > D /\ diags = {}
    BY <1>1, <1>4 DEF ParseDiags
  <2>2. faults.docs = {}
    BY <1>2, <2>1 DEF ParseFaults
  <2>3. resources = Resources
    BY <1>1, <2>1 DEF Docs
  <2>4. passes' = OkIn(SettledBy(pc'))
    <3>1. SettledBy(pc) = {} /\ SettledBy(pc') = {} \cup ParsePasses
      BY <1>1, <1>4 DEF SettledBy
    <3>2. passes = OkIn({})
      BY <1>1, <3>1, BundlePending
    <3>3. QED
      BY <1>4, <3>1, <3>2, MarkOk
  <2>5. AnswerInv' /\ passes' \in [passNames -> {"pending", "ok", "failed", "skipped"}]
    BY <1>1, <1>4, <2>1, <2>4, GoOnAnswers
  <2>6. TypeOK'
    BY <1>1, <1>4, <2>5 DEF IInv, TypeOK
  <2>7. StageInv'
    BY <1>1, <1>4, <2>1, <2>2, <2>3 DEF StageInv
  <2>8. QED
    BY <1>1, <2>5, <2>6, <2>7, HashKept DEF IInv
<1>5. QED
  BY <1>3, <1>4 DEF EndParse

LEMMA ValidateResourceStep == IInv /\ ValidateResource => IInv'
<1> SUFFICES ASSUME IInv, ValidateResource PROVE IInv'
  OBVIOUS
<1> USE DocumentsAssumption, ResourcesAssumption
<1>1. /\ pc = "validate" /\ pc' = "validate" /\ k \in 1..N /\ k' = k + 1
      /\ resources = Resources /\ faults.docs = {}
      /\ UNCHANGED <<faults, ctxDone, resources, hashed, plan, passes, files>>
  BY DEF ValidateResource, IInv, StageInv
<1>2. diags' = {Diag("DVAL", r) : r \in faults.resources \cap (1..(k' - 1))}
  <2>1. diags = {Diag("DVAL", r) : r \in faults.resources \cap (1..(k - 1))}
    BY <1>1 DEF IInv, StageInv
  <2>2. 1..(k' - 1) = (1..(k - 1)) \cup {k}
    BY <1>1
  <2>3. k \in resources
    BY <1>1 DEF Resources
  <2>4. QED
    BY <2>1, <2>2, <2>3 DEF ValidateResource
<1>3. StageInv'
  BY <1>1, <1>2 DEF StageInv
<1>4. AnswerInv' /\ passes' \in [passNames -> {"pending", "ok", "failed", "skipped"}]
  BY <1>1, <1>2, FaultDiags, GoOnAnswers, BundlePending
<1>5. TypeOK'
  BY <1>1, <1>4 DEF IInv, TypeOK
<1>6. QED
  BY <1>1, <1>3, <1>4, <1>5, HashKept DEF IInv

LEMMA EndValidationStep == IInv /\ EndValidation => IInv'
<1> SUFFICES ASSUME IInv, EndValidation PROVE IInv'
  OBVIOUS
<1> USE DocumentsAssumption, ResourcesAssumption
<1>1. /\ pc = "validate" /\ k \in 1..(N + 1)
      /\ k > N \/ ctxDone
      /\ diags = {Diag("DVAL", r) : r \in faults.resources \cap (1..(k - 1))}
      /\ resources = Resources /\ faults.docs = {}
      /\ faults.resources \subseteq Resources
      /\ UNCHANGED <<faults, ctxDone, hashed, resources, plan, files, k>>
  BY DEF EndValidation, Stop, IInv, StageInv, TypeOK, Faults
<1>2. k > N => /\ diags = {Diag("DVAL", r) : r \in faults.resources}
               /\ ValidationDiags = ValidationFaults
  <2>1. ASSUME k > N PROVE diags = {Diag("DVAL", r) : r \in faults.resources}
    BY <1>1, <2>1 DEF Resources
  <2>2. ASSUME k > N PROVE ~(k <= N)
    BY <1>1, <2>2
  <2>3. QED
    BY <2>1, <2>2 DEF ValidationDiags, ValidationFaults
<1>3. CASE ValidationDiags # {} /\ Stop(ValidationDiags, ValidationPasses)
  <2>1. /\ pc' = "returned" /\ diags' = ValidationDiags
        /\ passes' = skipRemaining(markPass(ValidationPasses, "failed"))
    BY <1>3 DEF Stop
  <2>2. CancelDiag \in ValidationDiags => ctxDone
    BY <1>1, FaultDiags DEF ValidationDiags
  <2>3. ~ctxDone => ValidationDiags = FirstFaults
    BY <1>1, <1>2, <1>3 DEF FirstFaults, ParseFaults
  <2>4. AnswerInv' /\ passes' \in [passNames -> {"pending", "ok", "failed", "skipped"}]
    BY <1>1, <1>3, <2>1, <2>2, <2>3, StopAnswers, PassSets
  <2>5. TypeOK' /\ StageInv'
    BY <1>1, <2>1, <2>4 DEF IInv, TypeOK, StageInv
  <2>6. QED
    BY <1>1, <2>4, <2>5, HashKept DEF IInv
<1>4. CASE /\ ValidationDiags = {} /\ pc' = "plan" /\ UNCHANGED diags
           /\ passes' = markPass(ValidationPasses \cup PlanningPasses, "ok")
  <2>1. diags = {} /\ k > N /\ ~faults.references
    BY <1>1, <1>4 DEF ValidationDiags
  <2>2. faults.resources = {}
    BY <1>2, <2>1
  <2>3. passes' = OkIn(SettledBy(pc'))
    <3>1. /\ SettledBy(pc) = ParsePasses
          /\ SettledBy(pc') = ParsePasses \cup (ValidationPasses \cup PlanningPasses)
      BY <1>1, <1>4 DEF SettledBy
    <3>2. passes = OkIn(ParsePasses)
      BY <1>1, <3>1, BundlePending
    <3>3. ParsePasses \in SUBSET passNames
      BY DEF passNames
    <3>4. markPass(ValidationPasses \cup PlanningPasses, "ok") = OkIn(SettledBy(pc'))
      BY <3>1, <3>2, <3>3, MarkOk
    <3>5. QED
      BY <1>4, <3>4
  <2>4. AnswerInv' /\ passes' \in [passNames -> {"pending", "ok", "failed", "skipped"}]
    BY <1>1, <1>4, <2>1, <2>3, GoOnAnswers
  <2>5. TypeOK'
    BY <1>1, <1>4, <2>4 DEF IInv, TypeOK
  <2>6. StageInv'
    BY <1>1, <1>4, <2>1, <2>2 DEF StageInv
  <2>7. QED
    BY <1>1, <2>4, <2>5, <2>6, HashKept DEF IInv
<1>5. QED
  BY <1>3, <1>4 DEF EndValidation

LEMMA StartPlanStep == IInv /\ StartPlan => IInv'
<1> SUFFICES ASSUME IInv, StartPlan PROVE IInv'
  OBVIOUS
<1>1. /\ pc = "plan" /\ diags = {}
      /\ UNCHANGED <<faults, ctxDone, hashed, resources, plan, files, k>>
  BY DEF StartPlan, Stop, IInv, StageInv
<1>2. CASE ctxDone /\ Stop({CancelDiag}, {})
  <2>1. /\ pc' = "returned" /\ diags' = {CancelDiag}
        /\ passes' = skipRemaining(markPass({}, "failed"))
    BY <1>2 DEF Stop
  <2>2. AnswerInv' /\ passes' \in [passNames -> {"pending", "ok", "failed", "skipped"}]
    BY <1>1, <1>2, <2>1, StopAnswers
  <2>3. TypeOK' /\ StageInv'
    BY <1>1, <2>1, <2>2 DEF IInv, TypeOK, StageInv
  <2>4. QED
    BY <1>1, <2>2, <2>3, HashKept DEF IInv
<1>3. CASE ~ctxDone /\ pc' = "hash" /\ UNCHANGED <<diags, passes>>
  <2>1. SettledBy(pc') = SettledBy(pc)
    BY <1>1, <1>3 DEF SettledBy
  <2>2. AnswerInv' /\ passes' \in [passNames -> {"pending", "ok", "failed", "skipped"}]
    BY <1>1, <1>3, <2>1, GoOnAnswers, BundlePending
  <2>3. TypeOK' /\ StageInv'
    BY <1>1, <1>3, <2>2 DEF IInv, TypeOK, StageInv
  <2>4. QED
    BY <1>1, <2>2, <2>3, HashKept DEF IInv
<1>4. QED
  BY <1>2, <1>3 DEF StartPlan

LEMMA HashResourcesStep == IInv /\ HashResources => IInv'
<1> SUFFICES ASSUME IInv, HashResources PROVE IInv'
  OBVIOUS
<1>1. /\ pc = "hash" /\ pc' = "hash"
      /\ UNCHANGED <<faults, ctxDone, k, resources, plan, diags, passes, files>>
  BY DEF HashResources, Hash!Return
<1>2. HashInv'
  <2>1. PICK n \in 0..N : Hash!Return(n)
    BY DEF HashResources
  <2>2. /\ hashed'.returned = TRUE
        /\ hashed'.plans = PlansOf(1..n)
        /\ hashed'.diags = DiagsOf(1..n, ctxDone)
        /\ n < N => ctxDone
    BY <2>1 DEF Hash!Return
  <2>3. ctxDone \in BOOLEAN /\ ctxDone' = ctxDone
    BY <1>1 DEF IInv, TypeOK
  <2>4. QED
    BY <2>2, <2>3 DEF HashInv
<1>3. StageInv'
  BY <1>1 DEF IInv, StageInv
<1>4. AnswerInv'
  BY <1>1, GoOnAnswers, BundlePending DEF IInv, AnswerInv, AnswerExplained
<1>5. TypeOK'
  BY <1>1 DEF IInv, TypeOK
<1>6. QED
  BY <1>2, <1>3, <1>4, <1>5 DEF IInv

LEMMA EndPlanStep == IInv /\ EndPlan => IInv'
<1> SUFFICES ASSUME IInv, EndPlan PROVE IInv'
  OBVIOUS
<1> USE DocumentsAssumption, ResourcesAssumption
<1>1. /\ pc = "hash" /\ diags = {} /\ hashed.returned
      /\ resources = Resources /\ faults.docs = {}
      /\ faults.resources = {} /\ ~faults.references
      /\ plan' = hashed.plans
      /\ UNCHANGED <<faults, ctxDone, hashed, resources, files, k>>
  BY DEF EndPlan, Stop, IInv, StageInv
<1>2. PICK n \in 0..N, c \in BOOLEAN :
        /\ n < N => c
        /\ c => ctxDone
        /\ hashed.plans = PlansOf(1..n)
        /\ hashed.diags = DiagsOf(1..n, c)
  BY <1>1 DEF IInv, HashInv
<1>3. CancelDiag \in PlanDiags => ctxDone
  BY <1>2, FaultDiags DEF PlanDiags, DiagsOf
<1>4. ~ctxDone => PlanDiags = PlanFaults
  <2>1. ASSUME ~ctxDone PROVE n = N /\ c = FALSE
    BY <1>2, <2>1
  <2>2. QED
    BY <1>2, <2>1 DEF PlanDiags, PlanFaults, Resources
<1>5. ParseFaults = {} /\ ValidationFaults = {}
  BY <1>1 DEF ParseFaults, ValidationFaults
<1>6. CASE PlanDiags # {} /\ Stop(PlanDiags, {})
  <2>1. /\ pc' = "returned" /\ diags' = PlanDiags
        /\ passes' = skipRemaining(markPass({}, "failed"))
    BY <1>6 DEF Stop
  <2>2. ~ctxDone => PlanDiags = FirstFaults
    BY <1>4, <1>5, <1>6 DEF FirstFaults
  <2>3. AnswerInv' /\ passes' \in [passNames -> {"pending", "ok", "failed", "skipped"}]
    BY <1>1, <1>3, <1>6, <2>1, <2>2, StopAnswers
  <2>4. TypeOK' /\ StageInv'
    BY <1>1, <2>1, <2>3 DEF IInv, TypeOK, StageInv
  <2>5. QED
    BY <1>1, <2>3, <2>4, HashKept DEF IInv
<1>7. CASE /\ PlanDiags = {} /\ pc' = "render" /\ UNCHANGED diags
           /\ passes' = markPass(HashingPasses, "ok")
  <2>1. DiagsOf(1..n, c) = {} /\ ~faults.planning
    BY <1>2, <1>7 DEF PlanDiags
  <2>2. n = N /\ Unhashable = {}
    BY <1>2, <2>1, HashedClean
  <2>3. plan' = PlansOf(Resources)
    BY <1>1, <1>2, <2>2 DEF Resources
  <2>4. passes' = OkIn(SettledBy(pc'))
    <3>1. /\ SettledBy(pc) = ParsePasses \cup ValidationPasses \cup PlanningPasses
          /\ SettledBy(pc') = SettledBy(pc) \cup HashingPasses
      BY <1>1, <1>7, PassSets DEF SettledBy
    <3>2. passes = OkIn(SettledBy(pc)) /\ SettledBy(pc) \in SUBSET passNames
      BY <1>1, BundlePending
    <3>3. markPass(HashingPasses, "ok") = OkIn(SettledBy(pc) \cup HashingPasses)
      BY <3>2, MarkOk
    <3>4. QED
      BY <1>7, <3>1, <3>3
  <2>5. AnswerInv' /\ passes' \in [passNames -> {"pending", "ok", "failed", "skipped"}]
    BY <1>1, <1>7, <2>4, GoOnAnswers
  <2>6. TypeOK'
    BY <1>1, <1>7, <2>5 DEF IInv, TypeOK
  <2>7. StageInv'
    BY <1>1, <1>7, <2>1, <2>2, <2>3 DEF StageInv
  <2>8. QED
    BY <1>1, <2>5, <2>6, <2>7, HashKept DEF IInv
<1>8. QED
  BY <1>6, <1>7 DEF EndPlan

LEMMA StartRenderStep == IInv /\ StartRender => IInv'
<1> SUFFICES ASSUME IInv, StartRender PROVE IInv'
  OBVIOUS
<1>1. /\ pc = "render" /\ diags = {}
      /\ UNCHANGED <<faults, ctxDone, hashed, resources, plan, files, k>>
  BY DEF StartRender, Stop, IInv, StageInv
<1>2. CASE ctxDone /\ Stop({Diag("DART001", 0)}, RenderPass)
  <2>1. /\ pc' = "returned" /\ diags' = {Diag("DART001", 0)}
        /\ passes' = skipRemaining(markPass(RenderPass, "failed"))
    BY <1>2 DEF Stop
  <2>2. AnswerInv' /\ passes' \in [passNames -> {"pending", "ok", "failed", "skipped"}]
    BY <1>1, <1>2, <2>1, StopAnswers, PassSets, FaultDiags
  <2>3. TypeOK' /\ StageInv'
    BY <1>1, <2>1, <2>2 DEF IInv, TypeOK, StageInv
  <2>4. QED
    BY <1>1, <2>2, <2>3, HashKept DEF IInv
<1>3. CASE ~ctxDone /\ pc' = "assemble" /\ UNCHANGED <<diags, passes>>
  <2>1. SettledBy(pc') = SettledBy(pc)
    BY <1>1, <1>3 DEF SettledBy
  <2>2. AnswerInv' /\ passes' \in [passNames -> {"pending", "ok", "failed", "skipped"}]
    BY <1>1, <1>3, <2>1, GoOnAnswers, BundlePending
  <2>3. TypeOK' /\ StageInv'
    BY <1>1, <1>3, <2>2 DEF IInv, TypeOK, StageInv
  <2>4. QED
    BY <1>1, <2>2, <2>3, HashKept DEF IInv
<1>4. QED
  BY <1>2, <1>3 DEF StartRender

LEMMA EndRenderStep == IInv /\ EndRender => IInv'
<1> SUFFICES ASSUME IInv, EndRender PROVE IInv'
  OBVIOUS
<1>1. /\ pc = "assemble" /\ diags = {}
      /\ resources = Resources /\ faults.docs = {}
      /\ faults.resources = {} /\ ~faults.references /\ ~faults.planning
      /\ Unhashable = {} /\ plan = PlansOf(Resources)
      /\ UNCHANGED <<faults, ctxDone, hashed, resources, plan, k>>
  BY DEF EndRender, Stop, IInv, StageInv
<1>2. ParseFaults = {} /\ ValidationFaults = {} /\ PlanFaults = {}
  <2>1. DiagsOf(Resources, FALSE) = {}
    BY <1>1 DEF DiagsOf, ResourceDiags
  <2>2. QED
    BY <1>1, <2>1 DEF ParseFaults, ValidationFaults, PlanFaults
<1>3. CASE faults.rendering /\ Stop({Diag("DART001", 0)}, RenderPass)
  <2>1. /\ pc' = "returned" /\ diags' = {Diag("DART001", 0)} /\ files' = files
        /\ passes' = skipRemaining(markPass(RenderPass, "failed"))
    BY <1>3 DEF Stop
  <2>2. FirstFaults = {Diag("DART001", 0)}
    BY <1>2, <1>3 DEF FirstFaults, RenderFaults
  <2>3. AnswerInv' /\ passes' \in [passNames -> {"pending", "ok", "failed", "skipped"}]
    BY <1>1, <2>1, <2>2, StopAnswers, PassSets, FaultDiags
  <2>4. TypeOK' /\ StageInv'
    BY <1>1, <2>1, <2>3 DEF IInv, TypeOK, StageInv
  <2>5. QED
    BY <1>1, <2>3, <2>4, HashKept DEF IInv
<1>4. CASE /\ ~faults.rendering /\ pc' = "returned" /\ UNCHANGED diags
           /\ files' = [rendered |-> TRUE, plans |-> plan]
           /\ passes' = markPass(BundlePasses, "ok")
  <2>1. Flawless'
    BY <1>1, <1>4 DEF Flawless
  <2>2. files' # NoFiles
    BY <1>4 DEF NoFiles
  <2>3. passes' \in [passNames -> {"pending", "ok", "failed", "skipped"}] /\ \A p \in passNames : passes'[p] = "ok"
    <3>1. passes = OkIn(passNames \ BundlePasses)
      BY <1>1, BundlePending DEF SettledBy
    <3>2. passes' = OkIn((passNames \ BundlePasses) \cup BundlePasses)
      BY <1>4, <3>1, MarkOk
    <3>3. passes' = OkIn(passNames)
      BY <3>2, PassSets
    <3>4. QED
      BY <3>3 DEF OkIn
  <2>4. FirstFaults' = {}
    <3>1. FirstFaults' = FirstFaults
      BY <1>1 DEF FirstFaults, ParseFaults, ValidationFaults, PlanFaults, RenderFaults
    <3>2. QED
      BY <1>2, <1>4, <3>1 DEF FirstFaults, RenderFaults
  <2>5. AnswerInv'
    BY <1>1, <1>4, <2>1, <2>2, <2>3, <2>4
      DEF AnswerInv, BundleComplete, AnswerExplained, FaultsReported, PassesHonest
  <2>6. TypeOK' /\ StageInv'
    BY <1>1, <1>4, <2>3 DEF IInv, TypeOK, StageInv
  <2>7. QED
    BY <1>1, <2>5, <2>6, HashKept DEF IInv
<1>5. QED
  BY <1>3, <1>4 DEF EndRender

LEMMA CancelStep == IInv /\ Cancel => IInv'
<1> SUFFICES ASSUME IInv, Cancel PROVE IInv'
  OBVIOUS
<1>1. /\ ctxDone' = TRUE
      /\ UNCHANGED <<faults, pc, k, resources, hashed, plan, diags, passes, files>>
  BY DEF Cancel, Hash!Cancel
<1>2. TypeOK' /\ StageInv' /\ HashInv'
  BY <1>1 DEF IInv, TypeOK, StageInv, HashInv
<1>3. Flawless' = Flawless
  BY <1>1 DEF Flawless
<1>4. AnswerInv'
  BY <1>1, <1>3 DEF IInv, AnswerInv, BundleComplete, AnswerExplained, FaultsReported, PassesHonest
<1>5. QED
  BY <1>2, <1>4 DEF IInv

LEMMA StutterStep == IInv /\ UNCHANGED vars => IInv'
<1> SUFFICES ASSUME IInv, UNCHANGED vars PROVE IInv'
  OBVIOUS
<1>1. TypeOK' /\ StageInv' /\ HashInv'
  BY DEF IInv, vars, TypeOK, StageInv, HashInv
<1>2. Flawless' = Flawless /\ FirstFaults' = FirstFaults
  BY DEF vars, Flawless, FirstFaults, ParseFaults, ValidationFaults, PlanFaults, RenderFaults
<1>3. AnswerInv'
  BY <1>2 DEF IInv, vars, AnswerInv, BundleComplete, AnswerExplained, FaultsReported, PassesHonest
<1>4. QED
  BY <1>1, <1>3 DEF IInv

LEMMA NextIInv == IInv /\ [Next]_vars => IInv'
BY ParseDocumentStep, EndParseStep, ValidateResourceStep, EndValidationStep,
   StartPlanStep, HashResourcesStep, EndPlanStep, StartRenderStep,
   EndRenderStep, CancelStep, StutterStep
   DEF Next, Compile, Returned

LEMMA Invariance == SafeSpec => []IInv
BY InitIInv, NextIInv, PTL DEF SafeSpec

-----------------------------------------------------------------------------
(* The theorems. *)

\* Type correctness.
THEOREM TypeCorrect == SafeSpec => []TypeOK
BY Invariance, PTL DEF IInv

\* A bundle is that of a whole specification with nothing at fault.
THEOREM OnlyCompleteBundles == SafeSpec => []BundleComplete
BY Invariance, PTL DEF IInv, AnswerInv

\* There is a bundle or a diagnostic, never both or neither.
THEOREM NoSilentFailure == SafeSpec => []AnswerExplained
BY Invariance, PTL DEF IInv, AnswerInv

\* Without a cancellation, exactly the faults of the first faulty stage.
THEOREM AllFaultsAtOnce == SafeSpec => []FaultsReported
BY Invariance, PTL DEF IInv, AnswerInv

\* The record of passes agrees with the answer.
THEOREM HonestRecord == SafeSpec => []PassesHonest
BY Invariance, PTL DEF IInv, AnswerInv

\* A settled pass keeps its status: markPass is applied to pending passes only,
\* and skipRemaining to what is pending.
THEOREM SettledForGood == SafeSpec => PassSettledOnce
<1>1. ASSUME IInv, [Next]_vars, NEW p \in passNames, passes[p] # "pending"
      PROVE  passes'[p] = passes[p]
  <2>1. CASE UNCHANGED passes
    BY <2>1
  <2>2. /\ pc # "returned" => passes = OkIn(SettledBy(pc))
        /\ pc # "returned" => SettledBy(pc) \subseteq passNames \ BundlePasses
    BY <1>1, BundlePending
  <2>3. ASSUME pc # "returned" PROVE p \in SettledBy(pc) /\ passes[p] = "ok"
    BY <1>1, <2>2, <2>3 DEF OkIn
  <2>4. ASSUME NEW names, p \notin names,
               passes' = skipRemaining(markPass(names, "failed"))
        PROVE  passes'[p] = passes[p]
    BY <1>1, <2>4 DEF skipRemaining, markPass
  <2>5. ASSUME NEW names, pc # "returned", passes' = markPass(names, "ok")
        PROVE  passes'[p] = passes[p]
    BY <2>3, <2>5 DEF markPass
  <2>6. CASE EndParse
    <3>1. pc = "parse" /\ p \notin ParsePasses
      BY <2>3, <2>6 DEF EndParse, SettledBy
    <3>2. QED
      BY <2>4, <2>5, <2>6, <3>1 DEF EndParse, Stop
  <2>7. CASE EndValidation
    <3>1. pc = "validate" /\ p \notin ValidationPasses
      BY <2>3, <2>7 DEF EndValidation, SettledBy, ParsePasses, ValidationPasses
    <3>2. QED
      BY <2>4, <2>5, <2>7, <3>1 DEF EndValidation, Stop
  <2>8. CASE StartPlan
    BY <2>4, <2>8 DEF StartPlan, Stop
  <2>9. CASE EndPlan
    BY <2>4, <2>5, <2>9 DEF EndPlan, Stop
  <2>10. CASE StartRender
    <3>1. p \notin RenderPass
      BY <2>2, <2>3, <2>10, PassSets DEF StartRender, RenderPass
    <3>2. QED
      BY <2>4, <2>10, <3>1 DEF StartRender, Stop
  <2>11. CASE EndRender
    <3>1. p \notin RenderPass
      BY <2>2, <2>3, <2>11, PassSets DEF EndRender, RenderPass
    <3>2. QED
      BY <2>4, <2>5, <2>11, <3>1 DEF EndRender, Stop
  <2>12. CASE ParseDocument \/ ValidateResource \/ HashResources \/ Cancel
    BY <2>1, <2>12 DEF ParseDocument, ValidateResource, HashResources, Cancel
  <2>13. QED
    BY <1>1, <2>1, <2>6, <2>7, <2>8, <2>9, <2>10, <2>11, <2>12
      DEF Next, Compile, Returned, vars
<1>2. IInv /\ [Next]_vars =>
        [\A p \in passNames : passes[p] # "pending" => passes'[p] = passes[p]]_vars
  BY <1>1
<1>3. QED
  BY <1>2, Invariance, PTL DEF SafeSpec, PassSettledOnce

\* The safety part of CancelPreventsBundle: once the context has been cancelled
\* before the renderer's look at it, there is never a bundle, whatever the
\* stages still do.
Cancelled == ctxDone /\ pc \notin {"assemble", "returned"}

THEOREM NoBundleOnceCancelled == SafeSpec => [](Cancelled => [](files = NoFiles))
<1> DEFINE Doomed == ctxDone /\ pc # "assemble" /\ files = NoFiles
<1>1. IInv /\ Cancelled => Doomed
  BY DEF IInv, AnswerInv, Cancelled
<1>2. Doomed /\ [Next]_vars => Doomed'
  <2> SUFFICES ASSUME Doomed, [Next]_vars PROVE Doomed'
    OBVIOUS
  <2>1. ASSUME NEW found, NEW names, Stop(found, names) PROVE Doomed'
    BY <2>1 DEF Stop
  <2>2. CASE ParseDocument \/ ValidateResource
    BY <2>2 DEF ParseDocument, ValidateResource
  <2>3. CASE EndParse
    BY <2>1, <2>3 DEF EndParse
  <2>4. CASE EndValidation
    BY <2>1, <2>4 DEF EndValidation
  <2>5. CASE StartPlan
    BY <2>1, <2>5 DEF StartPlan
  <2>6. CASE HashResources
    BY <2>6 DEF HashResources, Hash!Return
  <2>7. CASE EndPlan
    BY <2>1, <2>7 DEF EndPlan
  <2>8. CASE StartRender \/ EndRender
    BY <2>1, <2>8 DEF StartRender, EndRender
  <2>9. CASE Cancel
    BY <2>9 DEF Cancel, Hash!Cancel
  <2>10. CASE UNCHANGED vars
    BY <2>10 DEF vars
  <2>11. QED
    BY <2>2, <2>3, <2>4, <2>5, <2>6, <2>7, <2>8, <2>9, <2>10 DEF Next, Compile, Returned
<1>3. Doomed => files = NoFiles
  OBVIOUS
<1> HIDE DEF Doomed
<1>4. QED
  BY <1>1, <1>2, <1>3, Invariance, PTL DEF SafeSpec

-----------------------------------------------------------------------------
(* The contract. *)

\* Init is an initial state of the contract.
LEMMA ContractInit == Init => Contract!Init
<1> SUFFICES ASSUME Init PROVE Contract!Init
  OBVIOUS
<1>1. Flawless \in BOOLEAN
  BY DEF Flawless
<1>2. files.plans = <<>> /\ pc = "parse" /\ ctxDone = FALSE
  BY DEF Init, Hash!Init, NoFiles
<1>3. QED
  BY <1>1, <1>2 DEF Contract!Init, Contract!NoAnswer, Contract!NoFiles

\* A step that does not return, and leaves the context and the faults alone,
\* is a stutter of the contract.
LEMMA ContractStutter ==
  ASSUME IInv, pc # "returned", pc' # "returned",
         UNCHANGED <<ctxDone, faults, files>>
  PROVE  UNCHANGED Contract!kvars
<1>1. Flawless' = Flawless
  BY DEF Flawless
<1>2. QED
  BY <1>1 DEF Contract!kvars

\* A flawless specification has no faults to report.
LEMMA FlawlessFaults == (Flawless => FirstFaults = {})'
<1>1. (Flawless => DiagsOf(Resources, FALSE) = {})'
  BY DEF Flawless, DiagsOf, ResourceDiags
<1>2. QED
  BY <1>1 DEF Flawless, FirstFaults, ParseFaults, ValidationFaults, PlanFaults,
              RenderFaults

\* The step that returns is Succeed or Fail.
LEMMA ContractReturn ==
  ASSUME IInv, IInv', pc # "returned", pc' = "returned",
         UNCHANGED <<ctxDone, faults>>
  PROVE  Contract!Next
<1>1. Flawless' = Flawless
  BY DEF Flawless
<1>2. files = NoFiles /\ files.plans = <<>>
  BY DEF IInv, AnswerInv, NoFiles
<1>3. CASE files' = NoFiles
  <2>1. diags' # {} /\ files'.plans = <<>>
    BY <1>3 DEF IInv, AnswerInv, AnswerExplained, NoFiles
  <2>2. ctxDone \/ ~Flawless
    BY <1>1, <2>1, FlawlessFaults DEF IInv, AnswerInv, FaultsReported
  <2>3. Contract!Fail
    BY <1>1, <1>2, <1>3, <2>1, <2>2
      DEF Contract!Fail, Contract!NoAnswer, Contract!NoFiles
  <2>4. QED
    BY <2>3 DEF Contract!Next
<1>4. CASE files' # NoFiles
  <2>1. diags' = {} /\ Flawless' /\ files'.plans = PlansOf(Resources)
    BY <1>4 DEF IInv, AnswerInv, AnswerExplained, BundleComplete
  <2>2. Contract!Succeed
    BY <1>1, <1>2, <2>1
      DEF Contract!Succeed, Contract!NoAnswer, Contract!NoFiles
  <2>3. QED
    BY <2>2 DEF Contract!Next
<1>5. QED
  BY <1>3, <1>4

\* Every step of the pipeline is a step or a stutter of the contract.
LEMMA ContractStep ==
  ASSUME IInv, IInv', [Next]_vars PROVE [Contract!Next]_Contract!kvars
<1>1. CASE UNCHANGED vars
  <2>1. Flawless' = Flawless
    BY <1>1 DEF vars, Flawless
  <2>2. QED
    BY <1>1, <2>1 DEF vars, Contract!kvars
<1>2. CASE Cancel
  <2>1. Flawless' = Flawless /\ ctxDone = FALSE /\ ctxDone' = TRUE
    BY <1>2 DEF Cancel, Hash!Cancel, Flawless, IInv, TypeOK
  <2>2. UNCHANGED <<pc, diags, files>>
    BY <1>2 DEF Cancel
  <2>3. Contract!Cancel
    BY <2>1, <2>2 DEF Contract!Cancel
  <2>4. QED
    BY <2>3 DEF Contract!Next
<1>3. CASE Compile
  <2>1. pc # "returned" /\ UNCHANGED <<ctxDone, faults>>
    BY <1>3 DEF Compile, ParseDocument, EndParse, ValidateResource, EndValidation,
                StartPlan, HashResources, Hash!Return, EndPlan, StartRender,
                EndRender, Stop
  <2>2. CASE pc' = "returned"
    BY <2>1, <2>2, ContractReturn
  <2>3. CASE pc' # "returned"
    <3>1. files = NoFiles /\ files' = NoFiles
      BY <2>1, <2>3 DEF IInv, AnswerInv
    <3>2. QED
      BY <2>1, <2>3, <3>1, ContractStutter
  <2>4. QED
    BY <2>2, <2>3
<1>4. QED
  BY <1>1, <1>2, <1>3 DEF Next, Returned

\* The pipeline implements the safety of its contract.
THEOREM PipelineImplementsContract == SafeSpec => Contract!SafeSpec
BY ContractInit, ContractStep, Invariance, PTL DEF SafeSpec, Contract!SafeSpec
=============================================================================
