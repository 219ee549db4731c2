----------------------------- MODULE BuildPlan_proofs -----------------------------
(***************************************************************************)
(* The plan of a specification, its change capture and its operations, for *)
(* any specifications.  What a step computes is named and compared, never  *)
(* computed: SelectSeq, FoldLeft and the functions of the community        *)
(* modules stay closed.                                                    *)
(***************************************************************************)
EXTENDS BuildPlan, SequenceLemmas

-----------------------------------------------------------------------------
(* The invariant. *)

Checked == ValidateResources(resources) = {}

\* Of the plan there is nothing yet.
Unplanned ==
  /\ reg = [descriptors |-> {}, instances |-> {}] /\ bindings = {}
  /\ instances = {} /\ connectors = {}
  /\ seen = <<>> /\ operations = <<>>
  /\ planned = {} /\ services = <<>>

ResolvedInv ==
  /\ reg = RegistryOf(resources, target)
  /\ bindings = ResolvedOf(resources, target)
  /\ ResolutionDiagsOf(resources, target) \subseteq diags
  /\ pc = "graph" =>
       diags = Definitions!RegistryDiags(resources) \cup ResolutionDiagsOf(resources, target)
  /\ pc # "graph" => resourceGraphDiags(resources, bindings) \subseteq diags

\* The connector of a binding.
Makes(b, c) ==
  \E i \in instances :
    /\ i.id = CaptureInstance(b, instances)
    /\ c = connectorPlan(b, resources, i,
                         ById(resources, RefId(ById(resources, b.source), "connectionRef")))

BeforeCapture == {"graph", "instances"}
InstancesInv ==
  instances = IF pc \in BeforeCapture THEN {} ELSE Instances(resources, bindings)

ConnectorsInv ==
  /\ pc \in BeforeCapture => connectors = {}
  /\ pc = "connectors" => todo \in Seq(Live)
  /\ \A c \in connectors : \E b \in Live : Makes(b, c)
  /\ pc \notin BeforeCapture => \A b \in Live :
       \/ pc = "connectors" /\ b \in Range(todo)
       \/ \E c \in connectors : Makes(b, c)
       \/ diags # {}
  /\ \A c \in connectors :
       \/ c.provider = NoId
       \/ InstancesOf(reg, InstanceKey(c.provider, target)) # {}
       \/ diags # {}
  /\ pc \notin BeforeCapture \cup {"connectors"} =>
       validateCDCPlan(instances, connectors, target) \subseteq diags

BeforeOperations == {"graph", "instances", "connectors"}
PlanOf(op) == operationPlan(op, resources, instances)

\* An operation that is planned, as itself or as the one it repeats.
Represented(op) ==
  \E k \in DOMAIN operations :
    /\ operations[k].key = ValOf(op, "idempotencyKey")
    /\ operations[k].action = ValOf(op, "action")
    /\ operations[k].target = RefId(op, "targetRef")

OperationsInv ==
  /\ pc \in BeforeOperations => seen = <<>> /\ operations = <<>>
  /\ pc = "operations" => todo \in Seq(Ops)
  /\ operations \in Seq({PlanOf(op) : op \in Ops})
  /\ pc \notin BeforeOperations =>
       \A op \in Ops : (pc = "operations" /\ op \in Range(todo)) \/ Represented(op)
  /\ \A k \in DOMAIN seen : seen[k].key = k /\ seen[k] \in Range(operations)
  /\ \A k \in DOMAIN operations : operations[k].key \in DOMAIN seen
  /\ \/ \A j, k \in DOMAIN operations : operations[j].key = operations[k].key => j = k
     \/ diags # {}
  /\ CollisionsExplained

PlannedInv ==
  /\ pc \in {"render", "done"} =>
       LET needs == requirements(resources, bindings, target) IN
       /\ diags = {}
       /\ planned = plannedProviderResources(reg, needs, target)
       /\ plannedDiags(reg, needs, target) = {}
  /\ pc = "done" => services \in collectServices(planned, instances, connectors)

Planning ==
  /\ pc \in {"graph", "instances", "connectors", "operations", "render", "refused", "done"}
  /\ ResolvedInv /\ InstancesInv /\ ConnectorsInv /\ OperationsInv /\ PlannedInv

IInv ==
  /\ resources \in Inputs
  /\ \/ pc = "validate" /\ Unplanned /\ diags = {}
     \/ pc = "refused" /\ Unplanned /\ diags = ValidateResources(resources) /\ ~Checked
     \/ pc = "resolve" /\ Checked /\ Unplanned /\ diags = {}
     \/ Checked /\ Planning

-----------------------------------------------------------------------------
(* The resources of a specification. *)

LEMMA KindFacts ==
  ASSUME NEW s \in Inputs, NEW kind
  PROVE  /\ s \in Seq(Range(s))
         /\ OfKind(s, kind) \in Seq(Range(s))
         /\ Range(OfKind(s, kind)) = {r \in Range(s) : r.id.kind = kind}
<1> DEFINE places == {k \in DOMAIN s : s[k].id.kind = kind}
<1>1. OfKind(s, kind) = Selected(s, places)
  BY DEF OfKind
<1>2. {s[k] : k \in places} = {r \in Range(s) : r.id.kind = kind}
  BY DEF Range
<1>3. places \in SUBSET DOMAIN s
  OBVIOUS
<1>4. s \in Seq(Range(s))
  BY SpecificationsAssumption
<1> HIDE DEF places
<1>5. /\ Selected(s, places) \in Seq(Range(s))
      /\ Range(Selected(s, places)) = {s[k] : k \in places}
  BY <1>3, <1>4, SelectedFacts
<1>6. QED
  BY <1>1, <1>2, <1>4, <1>5

LEMMA BrokenNone ==
  ASSUME NEW r, NEW codes, Broken(r, codes) = {}
  PROVE  codes = {}
<1>1. QED
  BY DEF Broken

\* What a specification that validates has been checked for.
LEMMA ValidatedFacts ==
  ASSUME NEW s \in Inputs, ValidateResources(s) = {}
  PROVE  /\ validateDuplicates(s) = {}
         /\ \A r \in Range(s) : validateCoreInvariants(r) = {}
         /\ \A r \in Range(s) : ~plannedOrDisabled(r) => referencesOf(r, s) = {}
         /\ \A r \in Range(s) : r.id.kind = "CDCBinding" => bindingTopology(r, s) = {}
         /\ LET operationsOf == OfKind(s, "CDCOperation") IN
            \A k \in DOMAIN operationsOf : operationDiags(operationsOf, k, s) = {}
<1>1. /\ validateDuplicates(s) = {}
      /\ UNION {validateCoreInvariants(r) : r \in Range(s)} = {}
      /\ validateReferences(s) = {}
  BY DEF ValidateResources
<1>2. /\ UNION {referencesOf(r, s) : r \in {q \in Range(s) : ~plannedOrDisabled(q)}} = {}
      /\ validateCDCTopology(s) = {} /\ validateCDCOperations(s) = {}
  BY <1>1 DEF validateReferences
<1>3. /\ \A r \in Range(s) : validateCoreInvariants(r) = {}
      /\ \A r \in Range(s) : ~plannedOrDisabled(r) => referencesOf(r, s) = {}
  BY <1>1, <1>2
<1>4. ForAll(s, "CDCBinding", LAMBDA r : bindingTopology(r, s)) = {}
  BY <1>2 DEF validateCDCTopology
<1>5. \A r \in Range(OfKind(s, "CDCBinding")) : bindingTopology(r, s) = {}
  BY <1>4 DEF ForAll
<1>6. QED
  BY <1>1, <1>2, <1>3, <1>5, KindFacts DEF validateCDCOperations

LEMMA UniqueIds ==
  ASSUME NEW s \in Inputs, ValidateResources(s) = {}
  PROVE  \A q, r \in Range(s) : q.id = r.id => q = r
<1>1. \A j \in DOMAIN s : \A i \in 1..(j - 1) : s[i].id # s[j].id
  BY ValidatedFacts DEF validateDuplicates
<1>2. DOMAIN s = 1..Len(s) /\ Len(s) \in Nat
  BY KindFacts, LenProperties
<1>3. \A i, j \in DOMAIN s : s[i].id = s[j].id => i = j
  <2> SUFFICES ASSUME NEW i \in DOMAIN s, NEW j \in DOMAIN s, s[i].id = s[j].id
               PROVE  i = j
    OBVIOUS
  <2>1. ~(i < j)
    BY <1>1, <1>2
  <2>2. ~(j < i)
    BY <1>1, <1>2
  <2>3. QED
    BY <1>2, <2>1, <2>2
<1>4. QED
  BY <1>3 DEF Range

\* resourceIndex finds what is there.
LEMMA IndexFacts ==
  ASSUME NEW s \in Inputs, ValidateResources(s) = {}
  PROVE  /\ \A r \in Range(s) : ById(s, r.id) = r
         /\ \A id : Exists(s, id) => ById(s, id) \in Range(s) /\ ById(s, id).id = id
         /\ \A id : ~Exists(s, id) => ById(s, id) = NoResource
<1>1. \A id : Exists(s, id) => ById(s, id) \in Range(s) /\ ById(s, id).id = id
  BY DEF Exists, ById
<1>2. \A id : ~Exists(s, id) => ById(s, id) = NoResource
  BY DEF Exists, ById
<1>3. \A r \in Range(s) : Exists(s, r.id)
  BY DEF Exists
<1>4. QED
  BY <1>1, <1>2, <1>3, UniqueIds

LEMMA NoIdFacts ==
  /\ \A r : parseRef(Absent, r) = NoId
  /\ NoResource.id = NoId
<1>1. \A r : parseRef(Absent, r) = NoId
  BY DEF parseRef, Absent, Ref
<1>2. NoResource.id = NoId
  BY DEF NoResource, Resource
<1>3. QED
  BY <1>1, <1>2

\* Validation has followed the references of a resource that is not planned or
\* disabled; one to a provider instance may be to one that is built in.
LEMMA ReferenceFollowed ==
  ASSUME NEW s \in Inputs, ValidateResources(s) = {},
         NEW r \in Range(s), ~plannedOrDisabled(r), NEW f \in RefFields(r.id.kind)
  PROVE  /\ RefOf(r, f) # Absent => RefId(r, f) # NoId
         /\ (f # "providerInstanceRef" /\ RefId(r, f) # NoId) => Exists(s, RefId(r, f))
<1>1. validateRefField(r, s, f) = {}
  BY ValidatedFacts DEF referencesOf
<1> DEFINE id == parseRef(RefOf(r, f), r)
           codes == Rule("DREF003", RefOf(r, f) # Absent /\ id = NoId)
                      \cup Rule("DREF002", /\ id # NoId /\ ~Exists(s, id)
                                           /\ ~(/\ f = "providerInstanceRef"
                                                /\ isBuiltin(id, "ProviderInstance")))
<1>2. validateRefField(r, s, f) = Broken(r, codes)
  BY DEF validateRefField
<1>3. codes = {}
  <2> HIDE DEF codes
  <2>1. QED
    BY <1>1, <1>2, BrokenNone
<1>4. ~(RefOf(r, f) # Absent /\ id = NoId)
  BY <1>3 DEF Rule
<1>5. f # "providerInstanceRef" => ~(id # NoId /\ ~Exists(s, id))
  BY <1>3 DEF Rule
<1>6. QED
  BY <1>4, <1>5 DEF RefId

-----------------------------------------------------------------------------
(* Only the operations report a key that is taken. *)

TakenKey == "DOPS011"

LEMMA ResolutionCodes ==
  ASSUME NEW s, NEW t, NEW d \in ResolutionDiagsOf(s, t)
  PROVE  d[1] # TakenKey
<1>1. PICK r, code, capability, def, b, registered :
        /\ code \in resolutionDiags(r, capability, def, b, s, registered, t)
        /\ d = <<code, r.id>>
  BY DEF ResolutionDiagsOf
<1>2. Unset # TakenKey
  BY Zenon DEF Unset, TakenKey
<1>3. \/ code \in {"DBIND014", "DBIND006", "DBIND008", "DBIND009"}
      \/ code \in {"DBIND014", "DBIND007", "DBIND010", "DBIND011"}
      \/ code \in {Unset, "DBIND016", "DBIND017", "DBIND018", "DBIND019"}
      \/ code \in {"DBIND012", "DBIND015", "DBIND020"}
  BY <1>1 DEF resolutionDiags, endDiags
<1>4. code # TakenKey
  BY <1>2, <1>3 DEF TakenKey
<1>5. QED
  BY <1>1, <1>4

LEMMA BrokenCodes ==
  ASSUME NEW r, NEW codes, NEW d \in Broken(r, codes)
  PROVE  d[1] \in codes /\ d[2] = r.id
<1>1. QED
  BY DEF Broken

LEMMA GraphCodes ==
  ASSUME NEW s, NEW bs, NEW d \in resourceGraphDiags(s, bs)
  PROVE  d[1] # TakenKey
<1>1. \A r, policy : \A e \in overrideDeclarations(r, policy) : e[1] \in {"DOVR002", "DOVR003"}
  BY BrokenCodes DEF overrideDeclarations, Rule
<1>2. \A r, policy : \A e \in validateExternalResource(r, policy) :
        e[1] \in {"DGRAPH009", "DGRAPH003"}
  BY BrokenCodes DEF validateExternalResource, Rule
<1>3. \A policy : \A e \in validatePolicyRequirements(policy, bs) :
        e[1] \in {"DGRAPH007", "DGRAPH008"}
  BY DEF validatePolicyRequirements
<1>4. \/ \E r, policy : d \in overrideDeclarations(r, policy)
      \/ \E r, policy : d \in validateExternalResource(r, policy)
      \/ \E policy : d \in validatePolicyRequirements(policy, bs)
  BY DEF resourceGraphDiags
<1>5. d[1] \in {"DOVR002", "DOVR003", "DGRAPH009", "DGRAPH003", "DGRAPH007", "DGRAPH008"}
  BY <1>1, <1>2, <1>3, <1>4
<1>6. QED
  BY <1>5 DEF TakenKey

LEMMA CaptureCodes ==
  ASSUME NEW is, NEW cs, NEW t, NEW d \in validateCDCPlan(is, cs, t)
  PROVE  d[1] # TakenKey
<1>1. \E x : d \in {<<"DCDC016", x>>, <<"DCDC017", x>>, <<"DCOMPOSE004", x>>}
  BY DEF validateCDCPlan
<1>2. QED
  BY <1>1 DEF TakenKey

LEMMA PlannedCodes ==
  ASSUME NEW r, NEW needs, NEW t, NEW plan, NEW ps
  PROVE  /\ \A d \in plannedDiags(r, needs, t) : d[1] # TakenKey
         /\ \A d \in validateComposeProduction(plan, ps, r) : d[1] # TakenKey
<1>1. \A d \in plannedDiags(r, needs, t) : d[1] \in {"DPROV010", "DPROV008"}
  BY DEF plannedDiags
<1>2. \A d \in validateComposeProduction(plan, ps, r) :
        d[1] \in {"DPROV009", "DCOMPOSE002", "DCOMPOSE003"}
  BY DEF validateComposeProduction
<1>3. QED
  BY <1>1, <1>2 DEF TakenKey

LEMMA DefinitionCodes ==
  ASSUME NEW s, NEW d \in Definitions!RegistryDiags(s)
  PROVE  d[1] \in {"DDEF001", "DDEF002"}
<1>1. QED
  BY DEF Definitions!RegistryDiags

\* None of the checks of validation has that code.
LEMMA ValidationCodes ==
  ASSUME NEW s, NEW d \in ValidateResources(s)
  PROVE  d[1] # TakenKey
<1>1. CASE d \in validateDuplicates(s)
  BY <1>1 DEF validateDuplicates, TakenKey
<1>2. ASSUME NEW r, d \in validateCoreInvariants(r)
      PROVE  d[1] # TakenKey
  BY <1>2, BrokenCodes DEF validateCoreInvariants, Rule, TakenKey
<1>3. ASSUME NEW r, d \in referencesOf(r, s)
      PROVE  d[1] # TakenKey
  <2>1. \A f : d \in validateRefField(r, s, f) => d[1] # TakenKey
    BY BrokenCodes DEF validateRefField, Rule, TakenKey
  <2>2. d \in validateRequiredSecretKeys(r, s) => d[1] # TakenKey
    BY BrokenCodes DEF validateRequiredSecretKeys, Rule, TakenKey
  <2>3. QED
    BY <1>3, <2>1, <2>2, BrokenCodes DEF referencesOf, Rule, TakenKey
<1>4. CASE d \in validateDatabaseTopology(s)
  <2>1. \A r : d \in classTopology(r, s) => d[1] # TakenKey
    BY BrokenCodes DEF classTopology, Rule, TakenKey
  <2>2. \A r : d \in connectionTopology(r, s) => d[1] # TakenKey
    BY BrokenCodes DEF connectionTopology, Rule, TakenKey
  <2>3. \A r : d \in captureTopology(r, s) => d[1] # TakenKey
    BY BrokenCodes DEF captureTopology, Rule, TakenKey
  <2>4. QED
    BY <1>4, <2>1, <2>2, <2>3 DEF validateDatabaseTopology, ForAll
<1>5. CASE d \in validateCDCTopology(s)
  <2>1. \A r : d \in instanceTopology(r, s) => d[1] # TakenKey
    BY BrokenCodes DEF instanceTopology, Rule, TakenKey
  <2>2. \A r : d \in bindingTopology(r, s) => d[1] # TakenKey
    BY BrokenCodes DEF bindingTopology, Rule, TakenKey
  <2>3. \A r : d \in Broken(r, Rule("DCDC006", UnfitFor(r, runtimeTarget(s)))) =>
                d[1] # TakenKey
    BY BrokenCodes DEF Rule, TakenKey
  <2>4. QED
    BY <1>5, <2>1, <2>2, <2>3 DEF validateCDCTopology, ForAll
<1>6. CASE d \in validateCDCOperations(s)
  <2>1. \A operationsOf, k : d \in operationDiags(operationsOf, k, s) => d[1] # TakenKey
    BY BrokenCodes DEF operationDiags, Rule, TakenKey
  <2>2. QED
    BY <1>6, <2>1 DEF validateCDCOperations
<1>7. \/ d \in validateDuplicates(s)
      \/ \E r : d \in validateCoreInvariants(r)
      \/ d \in validateReferences(s)
  BY DEF ValidateResources
<1>8. d \in validateReferences(s) =>
        \/ \E r : d \in referencesOf(r, s)
        \/ d \in validateDatabaseTopology(s) \/ d \in validateCDCTopology(s)
        \/ d \in validateCDCOperations(s)
  BY DEF validateReferences
<1>9. QED
  BY <1>1, <1>2, <1>3, <1>4, <1>5, <1>6, <1>7, <1>8

-----------------------------------------------------------------------------
(* The bindings and the runtimes. *)

\* What the resolver makes of a resource.
Resolving(r, s, t) == resolveBinding(r, BuiltinRegistry, s, RegistryOf(s, t), t)
Reported(r, s, t) ==
  LET capability == bindingCapability(r, BuiltinRegistry) IN
  resolutionDiags(r, capability, BuiltinRegistry.byCapability[capability], Resolving(r, s, t),
                  s, RegistryOf(s, t), t)

LEMMA BindingFacts ==
  ASSUME NEW s \in Inputs, ValidateResources(s) = {}, NEW t
  PROVE  /\ IsFiniteSet(ResolvedOf(s, t))
         /\ \A b \in ResolvedOf(s, t) : \E r \in ResolvableIn(s) :
              b = Resolving(r, s, t) /\ b.id = r.id /\ ById(s, b.id) = r
         /\ \A r \in ResolvableIn(s) : r \in Range(s)
         /\ \A b, c \in ResolvedOf(s, t) : b.id = c.id => b = c
         /\ ResolutionDiagsOf(s, t) =
              UNION {{<<code, r.id>> : code \in Reported(r, s, t)} : r \in ResolvableIn(s)}
<1>1. \A r \in ResolvableIn(s) : r \in Range(s)
  BY DEF ResolvableIn
<1>2. ResolvedOf(s, t) = {Resolving(r, s, t) : r \in ResolvableIn(s)}
  BY DEF ResolvedOf, Resolving
<1>3. IsFiniteSet(ResolvableIn(s))
  <2>1. IsFiniteSet(Range(s))
    BY KindFacts, FiniteRange
  <2>2. QED
    BY <1>1, <2>1, FS_Subset
<1>4. IsFiniteSet(ResolvedOf(s, t))
  <2> DEFINE f == [r \in ResolvableIn(s) |-> Resolving(r, s, t)]
  <2>1. ResolvedOf(s, t) = {f[r] : r \in ResolvableIn(s)}
    BY <1>2
  <2> HIDE DEF f
  <2>2. QED
    BY <1>3, <2>1, FiniteImage
<1>5. \A r : Resolving(r, s, t).id = r.id
  BY DEF Resolving, resolveBinding
<1>6. \A b \in ResolvedOf(s, t) : \E r \in ResolvableIn(s) :
        b = Resolving(r, s, t) /\ b.id = r.id /\ ById(s, b.id) = r
  BY <1>1, <1>2, <1>5, IndexFacts
<1>7. \A b, c \in ResolvedOf(s, t) : b.id = c.id => b = c
  BY <1>1, <1>6
<1>8. ResolutionDiagsOf(s, t) =
        UNION {{<<code, r.id>> : code \in Reported(r, s, t)} : r \in ResolvableIn(s)}
  BY DEF ResolutionDiagsOf, Reported, Resolving
<1>9. QED
  BY <1>1, <1>4, <1>6, <1>7, <1>8

\* The runtimes a specification declares, or the one that is given to it.
LEMMA InstanceFacts ==
  ASSUME NEW s \in Inputs, ValidateResources(s) = {}, NEW bs
  PROVE  /\ \A i, j \in Instances(s, bs) : i.id = j.id => i = j
         /\ \A i \in Instances(s, bs) :
              \/ i = defaultCDCInstance
              \/ \E classes : \E r \in Range(s) :
                   r.id.kind = "CDCInstance" /\ i = cdcInstancePlan(r, classes) /\ i.id = r.id
<1> DEFINE classes == {cdcClassPlan(r) : r \in Range(OfKind(s, "CDCClass"))}
           declared == {cdcInstancePlan(r, classes) : r \in Range(OfKind(s, "CDCInstance"))}
<1>1. Instances(s, bs) \in {{defaultCDCInstance}, declared}
  BY DEF Instances
<1>2. \A r, k : cdcInstancePlan(r, k).id = r.id
  BY DEF cdcInstancePlan
<1> HIDE DEF classes
<1>3. \A i \in declared : \E r \in Range(s) :
        r.id.kind = "CDCInstance" /\ i = cdcInstancePlan(r, classes) /\ i.id = r.id
  BY <1>2, KindFacts
<1> HIDE DEF declared
<1>4. \A i, j \in declared : i.id = j.id => i = j
  BY <1>3, UniqueIds
<1>5. QED
  BY <1>1, <1>3, <1>4

-----------------------------------------------------------------------------
(* The steps up to the resource graph. *)

LEMMA InitIInv == Init => IInv
<1>1. QED
  BY DEF Init, IInv, Unplanned

LEMMA ValidateStep ==
  ASSUME IInv, Validate
  PROVE  IInv'
<1>1. /\ pc = "validate" /\ resources \in Inputs /\ Unplanned
      /\ resources' = resources /\ diags' = ValidateResources(resources)
      /\ pc' = IF diags' = {} THEN "resolve" ELSE "refused"
  BY DEF IInv, Validate, Planning
<1>2. Unplanned'
  BY <1>1 DEF Validate, resolution, capture, ops, bundle, Unplanned
<1>3. Checked' <=> diags' = {}
  BY <1>1 DEF Checked
<1>4. QED
  BY <1>1, <1>2, <1>3 DEF IInv

LEMMA ResolveStep ==
  ASSUME IInv, Resolve
  PROVE  IInv'
<1>1. /\ pc = "resolve" /\ resources \in Inputs /\ Unplanned /\ Checked
      /\ resources' = resources /\ pc' = "graph"
  BY DEF IInv, Resolve, Planning
<1>2. ResolvedInv'
  BY <1>1 DEF Resolve, ResolvedInv
<1>3. InstancesInv' /\ ConnectorsInv' /\ PlannedInv'
  BY <1>1 DEF Resolve, capture, bundle, Unplanned, InstancesInv, ConnectorsInv, PlannedInv,
              BeforeCapture
<1>4. CollisionsExplained'
  <2>1. \A d \in diags' : d[1] # TakenKey
    BY ResolutionCodes, DefinitionCodes DEF Resolve, TakenKey
  <2>2. QED
    BY <2>1 DEF CollisionsExplained, TakenKey
<1>5. OperationsInv'
  <2>1. seen' = <<>> /\ operations' = <<>>
    BY <1>1 DEF Resolve, ops, Unplanned
  <2>2. QED
    BY <1>1, <1>4, <2>1, EmptySeq, RangeEmpty DEF OperationsInv, BeforeOperations
<1>6. QED
  BY <1>1, <1>2, <1>3, <1>5 DEF IInv, Planning, Checked

\* From then on.
LEMMA InPlanning ==
  ASSUME IInv, pc \notin {"validate", "resolve", "refused"}
  PROVE  resources \in Inputs /\ Checked /\ Planning
<1>1. QED
  BY DEF IInv

\* What a step keeps that does not touch the resources and their bindings.
LEMMA Kept ==
  ASSUME UNCHANGED <<resources, bindings>>
  PROVE  /\ Checked' <=> Checked
         /\ Live' = Live /\ Ops' = Ops
<1>1. QED
  BY DEF Checked, Live, Ops

LEMMA MakesKept ==
  ASSUME UNCHANGED <<resources, bindings, instances>>
  PROVE  \A b, c : Makes(b, c)' <=> Makes(b, c)
<1>1. QED
  BY DEF Makes

LEMMA PlansKept ==
  ASSUME UNCHANGED <<resources, bindings, instances>>
  PROVE  \A op : PlanOf(op)' = PlanOf(op)
<1>1. QED
  BY DEF PlanOf

\* Nothing of the operations is explained away by other diagnostics.
LEMMA OtherDiags ==
  ASSUME CollisionsExplained, UNCHANGED resources,
         \A d \in diags' : d \in diags \/ d[1] # TakenKey
  PROVE  CollisionsExplained'
<1>1. QED
  BY DEF CollisionsExplained, TakenKey, Ops

\* Before the operations.
LEMMA OperationsWait ==
  ASSUME OperationsInv, pc \in BeforeOperations, pc' \in BeforeOperations,
         UNCHANGED <<resources, ops>>,
         \A d \in diags' : d \in diags \/ d[1] # TakenKey
  PROVE  OperationsInv'
<1>1. seen' = <<>> /\ operations' = <<>>
  BY DEF OperationsInv, ops
<1>2. CollisionsExplained'
  BY OtherDiags DEF OperationsInv
<1>3. QED
  BY <1>1, <1>2, EmptySeq, RangeEmpty DEF OperationsInv, BeforeOperations

LEMMA GraphStep ==
  ASSUME IInv, buildResourceGraph
  PROVE  IInv'
<1>1. /\ pc = "graph" /\ pc' = "instances"
      /\ UNCHANGED <<resources, reg, bindings, instances, connectors, seen, operations>>
      /\ diags' = diags \cup resourceGraphDiags(resources, bindings)
  BY DEF buildResourceGraph, resolution, capture, ops
<1>2. resources \in Inputs /\ Checked /\ Planning
  BY <1>1, InPlanning
<1>3. ResolvedInv'
  BY <1>1, <1>2 DEF ResolvedInv, Planning
<1>4. InstancesInv' /\ ConnectorsInv' /\ PlannedInv'
  BY <1>1, <1>2 DEF Planning, InstancesInv, ConnectorsInv, PlannedInv, BeforeCapture
<1>5. OperationsInv'
  <2>1. \A d \in diags' : d \in diags \/ d[1] # TakenKey
    BY <1>1, GraphCodes
  <2>2. QED
    BY <1>1, <1>2, <2>1, OperationsWait DEF Planning, BeforeOperations, ops
<1>6. QED
  BY <1>1, <1>2, <1>3, <1>4, <1>5, Kept DEF IInv, Planning

-----------------------------------------------------------------------------
(* Change capture. *)

LEMMA PlanInstancesStep ==
  ASSUME IInv, PlanInstances
  PROVE  IInv'
<1>1. /\ pc = "instances" /\ pc' = "connectors"
      /\ UNCHANGED <<resources, reg, bindings, connectors, seen, operations, diags>>
      /\ instances' = Instances(resources, bindings) /\ todo' = SetToSeq(Live)
  BY DEF PlanInstances, resolution, ops
<1>2. resources \in Inputs /\ Checked /\ Planning
  BY <1>1, InPlanning
<1>3. ResolvedInv' /\ InstancesInv' /\ PlannedInv'
  BY <1>1, <1>2 DEF ResolvedInv, Planning, InstancesInv, PlannedInv, BeforeCapture
<1>4. ConnectorsInv'
  <2>1. IsFiniteSet(Live)
    <3>1. IsFiniteSet(bindings)
      BY <1>2, BindingFacts DEF Planning, ResolvedInv, Checked
    <3>2. QED
      BY <3>1, FS_Subset DEF Live
  <2>2. todo' \in Seq(Live) /\ Range(todo') = Live
    BY <1>1, <2>1, SetToSeqFacts
  <2>3. Live' = Live /\ connectors' = {}
    BY <1>1, <1>2, Kept DEF Planning, ConnectorsInv, BeforeCapture
  <2>4. QED
    BY <1>1, <2>2, <2>3 DEF ConnectorsInv, BeforeCapture
<1>5. OperationsInv'
  BY <1>1, <1>2, OperationsWait DEF Planning, BeforeOperations, ops
<1>6. QED
  BY <1>1, <1>2, <1>3, <1>4, <1>5, Kept DEF IInv, Planning

\* What the plan of one connector leaves as it is.
LEMMA CaptureKept ==
  ASSUME IInv, NextCapture, diags \subseteq diags',
         \A d \in diags' : d \in diags \/ d[1] # TakenKey,
         ConnectorsInv'
  PROVE  IInv'
<1>1. /\ pc = "connectors" /\ pc' = "connectors"
      /\ UNCHANGED <<resources, reg, bindings, instances, seen, operations>>
  BY DEF NextCapture, resolution, ops
<1>2. resources \in Inputs /\ Checked /\ Planning
  BY <1>1, InPlanning
<1>3. ResolvedInv' /\ InstancesInv' /\ PlannedInv'
  BY <1>1, <1>2 DEF ResolvedInv, Planning, InstancesInv, PlannedInv, BeforeCapture
<1>4. OperationsInv'
  BY <1>1, <1>2, OperationsWait DEF Planning, BeforeOperations, ops
<1>5. QED
  BY <1>1, <1>2, <1>3, <1>4, Kept DEF IInv, Planning

LEMMA CaptureFacts ==
  ASSUME IInv, NextCapture
  PROVE  /\ pc = "connectors" /\ pc' = "connectors"
         /\ UNCHANGED <<resources, reg, bindings, instances>>
         /\ resources \in Inputs /\ Checked /\ Planning
         /\ Capture \in Live
         /\ todo' \in Seq(Live)
         /\ Range(todo) = {Capture} \cup Range(todo')
         /\ Live' = Live
         /\ \A b, c : Makes(b, c)' <=> Makes(b, c)
<1>1. /\ pc = "connectors" /\ pc' = "connectors" /\ todo # <<>> /\ todo' = Tail(todo)
      /\ UNCHANGED <<resources, reg, bindings, instances>>
  BY DEF NextCapture, resolution
<1>2. resources \in Inputs /\ Checked /\ Planning
  BY <1>1, InPlanning
<1>3. todo \in Seq(Live)
  BY <1>1, <1>2 DEF Planning, ConnectorsInv
<1>4. Head(todo) \in Live /\ Tail(todo) \in Seq(Live)
  BY <1>1, <1>3, HeadTailProperties, EmptySeq
<1>5. Range(todo) = {Head(todo)} \cup Range(Tail(todo))
  BY <1>1, <1>3, RangeHeadTail
<1>6. Live' = Live /\ \A b, c : Makes(b, c)' <=> Makes(b, c)
  BY <1>1, Kept, MakesKept
<1>7. QED
  BY <1>1, <1>2, <1>4, <1>5, <1>6 DEF Capture

\* A binding that gets no connector is reported, or has been: its source was
\* not found.
LEMMA SourceReported ==
  ASSUME NEW s \in Inputs, ValidateResources(s) = {}, NEW t,
         NEW b \in ResolvedOf(s, t), b.id.kind = "CDCBinding",
         ById(s, b.source).id = NoId
  PROVE  ResolutionDiagsOf(s, t) # {}
<1>1. PICK r \in ResolvableIn(s) : b = Resolving(r, s, t) /\ b.id = r.id
  BY BindingFacts
<1>2. b.source = parseRef(SourceRef(r), r)
  BY <1>1 DEF Resolving, resolveBinding
<1> DEFINE capability == bindingCapability(r, BuiltinRegistry)
           def == BuiltinRegistry.byCapability[capability]
           codes == endDiags(SourceRef(r), b.source, r.id.kind # "Binding", def.sources, s,
                             "DBIND014", "DBIND006", "DBIND008", "DBIND009")
<1>3. codes \subseteq Reported(r, s, t)
  BY <1>1 DEF Reported, resolutionDiags
<1>4. codes # {}
  <2>1. CASE SourceRef(r) = Absent
    <3>1. "DBIND014" \in codes
      BY <1>1, <2>1 DEF endDiags
    <3>2. QED
      BY <3>1
  <2>2. CASE SourceRef(r) # Absent /\ b.source = NoId
    <3>1. "DBIND006" \in codes
      BY <2>2 DEF endDiags
    <3>2. QED
      BY <3>1
  <2>3. CASE b.source # NoId
    <3>1. ~Exists(s, b.source)
      BY <2>3, IndexFacts
    <3>2. "DBIND008" \in codes
      BY <2>3, <3>1 DEF endDiags
    <3>3. QED
      BY <3>2
  <2>4. QED
    BY <2>1, <2>2, <2>3
<1> HIDE DEF codes
<1>5. PICK code : code \in Reported(r, s, t)
  BY <1>3, <1>4
<1>6. <<code, r.id>> \in ResolutionDiagsOf(s, t)
  BY <1>5, BindingFacts
<1>7. QED
  BY <1>6

LEMMA OneMore ==
  \A code, id : code # TakenKey =>
    LET more == diags \cup {<<code, id>>} IN
    diags \subseteq more /\ (\A d \in more : d \in diags \/ d[1] # TakenKey) /\ more # {}
<1>1. \A code, id : code # TakenKey => \A d \in {<<code, id>>} : d[1] # TakenKey
  OBVIOUS
<1>2. QED
  BY <1>1

LEMMA NoConnectorStep ==
  ASSUME IInv, NoInstance \/ NoSource \/ NoConnection
  PROVE  IInv'
<1>1. NextCapture /\ connectors' = connectors
  BY DEF NoInstance, NoSource, NoConnection
<1>2. /\ diags \subseteq diags' /\ \A d \in diags' : d \in diags \/ d[1] # TakenKey
      /\ diags' # {}
  <2>1. CASE NoInstance
    BY <2>1, OneMore DEF NoInstance, TakenKey
  <2>2. CASE NoConnection
    BY <2>2, OneMore DEF NoConnection, TakenKey
  <2>3. CASE NoSource
    <3>1. diags' = diags /\ ById(resources, Capture.source).id = NoId
      BY <2>3 DEF NoSource, Source
    <3>2. /\ resources \in Inputs /\ ValidateResources(resources) = {}
          /\ bindings = ResolvedOf(resources, target)
          /\ ResolutionDiagsOf(resources, target) \subseteq diags
      BY <1>1, CaptureFacts DEF Planning, ResolvedInv, Checked
    <3>3. Capture \in bindings /\ Capture.id.kind = "CDCBinding"
      BY <1>1, CaptureFacts DEF Live, LiveCapture
    <3> DEFINE b == Capture
    <3>4. b \in ResolvedOf(resources, target)
      BY <3>2, <3>3
    <3>5. b.id.kind = "CDCBinding" /\ ById(resources, b.source).id = NoId
      BY <3>1, <3>3
    <3> HIDE DEF b
    <3>6. ResolutionDiagsOf(resources, target) # {}
      BY <3>2, <3>4, <3>5, SourceReported
    <3>7. QED
      BY <3>1, <3>2, <3>6
  <2>4. QED
    BY <2>1, <2>2, <2>3
<1>3. ConnectorsInv'
  <2>1. ConnectorsInv
    BY <1>1, CaptureFacts DEF Planning
  <2>2. QED
    BY <1>1, <1>2, <2>1, CaptureFacts DEF ConnectorsInv, BeforeCapture
<1>4. QED
  BY <1>1, <1>2, <1>3, CaptureKept

LEMMA ConnectStep ==
  ASSUME IInv, Connect
  PROVE  IInv'
<1>1. NextCapture
  BY DEF Connect
<1>2. PICK i \in Runtime :
        LET c == connectorPlan(Capture, resources, i, Connection) IN
        /\ connectors' = connectors \cup {c}
        /\ diags' =
             IF c.provider = NoId \/ InstancesOf(reg, InstanceKey(c.provider, target)) # {}
               THEN diags ELSE diags \cup {<<"DCDC015", c.binding>>}
  BY DEF Connect
<1> DEFINE c == connectorPlan(Capture, resources, i, Connection)
<1>3. Makes(Capture, c)
  BY <1>2 DEF Makes, Runtime, Connection, Source
<1>4. /\ connectors' = connectors \cup {c}
      /\ diags \subseteq diags' /\ \A d \in diags' : d \in diags \/ d[1] # TakenKey
      /\ \/ c.provider = NoId \/ InstancesOf(reg, InstanceKey(c.provider, target)) # {}
         \/ diags' # {}
  BY <1>2, OneMore DEF TakenKey
<1> HIDE DEF c
<1>5. ConnectorsInv'
  <2>1. ConnectorsInv
    BY <1>1, CaptureFacts DEF Planning
  <2>2. QED
    BY <1>1, <1>3, <1>4, <2>1, CaptureFacts DEF ConnectorsInv, BeforeCapture
<1>6. QED
  BY <1>1, <1>4, <1>5, CaptureKept

LEMMA ValidatePlanStep ==
  ASSUME IInv, ValidatePlan
  PROVE  IInv'
<1>1. /\ pc = "connectors" /\ todo = <<>> /\ pc' = "operations"
      /\ UNCHANGED <<resources, reg, bindings, instances, connectors, seen, operations>>
      /\ diags' = diags \cup validateCDCPlan(instances, connectors, target)
      /\ todo' = OfKind(resources, "CDCOperation")
  BY DEF ValidatePlan, resolution, capture, ops
<1>2. resources \in Inputs /\ Checked /\ Planning
  BY <1>1, InPlanning
<1>3. /\ diags \subseteq diags' /\ \A d \in diags' : d \in diags \/ d[1] # TakenKey
  BY <1>1, CaptureCodes
<1>4. ResolvedInv' /\ InstancesInv' /\ PlannedInv'
  BY <1>1, <1>2 DEF ResolvedInv, Planning, InstancesInv, PlannedInv, BeforeCapture
<1>5. ConnectorsInv'
  <2>1. Range(todo) = {}
    BY <1>1, RangeEmpty
  <2>2. Live' = Live /\ \A b, c : Makes(b, c)' <=> Makes(b, c)
    BY <1>1, Kept, MakesKept
  <2>3. ConnectorsInv
    BY <1>2 DEF Planning
  <2>4. QED
    BY <1>1, <1>3, <2>1, <2>2, <2>3 DEF ConnectorsInv, BeforeCapture
<1>6. OperationsInv'
  <2>1. todo' \in Seq(Ops) /\ Range(todo') = Ops
    BY <1>1, <1>2, KindFacts, OwnSequence DEF Ops
  <2>2. Ops' = Ops
    BY <1>1, Kept
  <2>3. CollisionsExplained'
    BY <1>1, <1>2, <1>3, OtherDiags DEF Planning, OperationsInv
  <2>4. seen' = <<>> /\ operations' = <<>>
    BY <1>1, <1>2 DEF Planning, OperationsInv, BeforeOperations
  <2>5. QED
    BY <1>1, <2>1, <2>2, <2>3, <2>4, EmptySeq, RangeEmpty DEF OperationsInv, BeforeOperations
<1>7. QED
  BY <1>1, <1>2, <1>4, <1>5, <1>6, Kept DEF IInv, Planning

-----------------------------------------------------------------------------
(* The operations. *)

\* An operation that validates has a key, and agrees with every other that has
\* it about what is written.
LEMMA OperationValidated ==
  ASSUME NEW s \in Inputs, ValidateResources(s) = {}
  PROVE  /\ \A op \in Range(OfKind(s, "CDCOperation")) :
              op \in Range(s) /\ ValOf(op, "idempotencyKey") # Unset
         /\ \A p, q \in Range(OfKind(s, "CDCOperation")) :
              ValOf(p, "idempotencyKey") = ValOf(q, "idempotencyKey") =>
                /\ RefOf(p, "targetRef") = RefOf(q, "targetRef")
                /\ ValOf(p, "action") = ValOf(q, "action")
<1> DEFINE all == OfKind(s, "CDCOperation")
           key(k) == ValOf(all[k], "idempotencyKey")
           Agree(p, q) == /\ RefOf(p, "targetRef") = RefOf(q, "targetRef")
                          /\ ValOf(p, "action") = ValOf(q, "action")
<1>1. \A op \in Range(all) : op \in Range(s) /\ op.id.kind = "CDCOperation"
  BY KindFacts
<1>2. \A op \in Range(all) : ValOf(op, "idempotencyKey") # Unset
  <2> SUFFICES ASSUME NEW op \in Range(all), ValOf(op, "idempotencyKey") = Unset
               PROVE  FALSE
    OBVIOUS
  <2>1. validateCoreInvariants(op) = {} /\ op.id.kind = "CDCOperation"
    BY <1>1, ValidatedFacts
  <2>2. <<"DOPS003", op.id>> \in validateCoreInvariants(op)
    BY <2>1 DEF validateCoreInvariants, Broken, Rule
  <2>3. QED
    BY <2>1, <2>2
<1>3. DOMAIN all = 1..Len(all) /\ Len(all) \in Nat
  BY KindFacts, LenProperties
<1>4. ASSUME NEW m \in DOMAIN all, \A j \in DOMAIN all : key(j) = key(m) => m <= j,
             NEW k \in DOMAIN all, key(k) = key(m)
      PROVE  Agree(all[k], all[m])
  <2> SUFFICES ASSUME k # m PROVE Agree(all[k], all[m])
    OBVIOUS
  <2> DEFINE sameKey == {j \in 1..(k - 1) : ValOf(all[j], "idempotencyKey") =
                                              ValOf(all[k], "idempotencyKey")}
             first == CHOOSE j \in sameKey : \A i \in sameKey : j <= i
  <2>1. m \in sameKey /\ \A i \in sameKey : i \in DOMAIN all /\ m <= i
    BY <1>3, <1>4
  <2>2. first \in sameKey /\ \A i \in sameKey : first <= i
    BY <2>1
  <2>3. first = m
    <3>1. first <= m /\ m <= first
      BY <2>1, <2>2
    <3>2. first \in Int /\ m \in Int
      BY <1>3, <2>2
    <3>3. QED
      BY <3>1, <3>2
  <2>4. operationDiags(all, k, s) = {}
    BY ValidatedFacts
  <2>5. ~(/\ ValOf(all[k], "idempotencyKey") # Unset /\ sameKey # {}
          /\ \/ RefOf(all[first], "targetRef") # RefOf(all[k], "targetRef")
             \/ ValOf(all[first], "action") # ValOf(all[k], "action"))
    <3> SUFFICES ASSUME /\ ValOf(all[k], "idempotencyKey") # Unset /\ sameKey # {}
                        /\ \/ RefOf(all[first], "targetRef") # RefOf(all[k], "targetRef")
                           \/ ValOf(all[first], "action") # ValOf(all[k], "action")
                 PROVE  FALSE
      OBVIOUS
    <3>1. <<"DOPS004", all[k].id>> \in operationDiags(all, k, s)
      BY DEF operationDiags, Broken, Rule
    <3>2. QED
      BY <2>4, <3>1
  <2>6. ValOf(all[k], "idempotencyKey") # Unset
    BY <1>2 DEF Range
  <2>7. QED
    BY <2>1, <2>3, <2>5, <2>6
<1>5. ASSUME NEW p \in Range(all), NEW q \in Range(all),
             ValOf(p, "idempotencyKey") = ValOf(q, "idempotencyKey")
      PROVE  Agree(p, q)
  <2>1. PICK j \in DOMAIN all : all[j] = p
    BY DEF Range
  <2>2. PICK k \in DOMAIN all : all[k] = q
    BY DEF Range
  <2> DEFINE T == {i \in DOMAIN all : key(i) = key(j)}
  <2>3. \E m \in T : \A i \in T : m <= i
    <3>1. T \in SUBSET Nat /\ T # {}
      BY <1>3
    <3> HIDE DEF T
    <3>2. QED
      BY <3>1, LeastNat
  <2>4. PICK m \in DOMAIN all : key(m) = key(j) /\ \A i \in DOMAIN all : key(i) = key(m) => m <= i
    BY <2>3
  <2>5. key(j) = key(m) /\ key(k) = key(m)
    BY <1>5, <2>1, <2>2, <2>4
  <2>6. Agree(all[j], all[m]) /\ Agree(all[k], all[m])
    BY <1>4, <2>4, <2>5
  <2>7. QED
    BY <2>1, <2>2, <2>6
<1>6. QED
  BY <1>1, <1>2, <1>5

\* Two that write one target and mean two are of two namespaces.
LEMMA WrittenAlike ==
  ASSUME NEW p, NEW q, RefOf(p, "targetRef") = RefOf(q, "targetRef"),
         RefId(p, "targetRef") # RefId(q, "targetRef")
  PROVE  p.id.ns # q.id.ns
<1>1. QED
  BY DEF RefId, parseRef

LEMMA NextOperationFacts ==
  ASSUME IInv, NextOperation
  PROVE  /\ pc = "operations" /\ pc' = "operations"
         /\ UNCHANGED <<resources, reg, bindings, instances, connectors>>
         /\ resources \in Inputs /\ Checked /\ Planning
         /\ Head(todo) \in Ops
         /\ todo' \in Seq(Ops)
         /\ Range(todo) = {Head(todo)} \cup Range(todo')
         /\ Ops' = Ops /\ \A op : PlanOf(op)' = PlanOf(op)
<1>1. /\ pc = "operations" /\ pc' = "operations" /\ todo # <<>> /\ todo' = Tail(todo)
      /\ UNCHANGED <<resources, reg, bindings, instances, connectors>>
  BY DEF NextOperation, resolution, capture
<1>2. resources \in Inputs /\ Checked /\ Planning
  BY <1>1, InPlanning
<1>3. todo \in Seq(Ops)
  BY <1>1, <1>2 DEF Planning, OperationsInv
<1>4. Head(todo) \in Ops /\ Tail(todo) \in Seq(Ops)
  BY <1>1, <1>3, HeadTailProperties, EmptySeq
<1>5. Range(todo) = {Head(todo)} \cup Range(Tail(todo))
  BY <1>1, <1>3, RangeHeadTail
<1>6. Ops' = Ops /\ \A op : PlanOf(op)' = PlanOf(op)
  BY <1>1, Kept, PlansKept
<1>7. QED
  BY <1>1, <1>2, <1>4, <1>5, <1>6

\* What the plan of one operation leaves as it is.
LEMMA OperationKept ==
  ASSUME IInv, NextOperation, diags \subseteq diags', OperationsInv'
  PROVE  IInv'
<1>1. /\ pc = "operations" /\ pc' = "operations"
      /\ UNCHANGED <<resources, reg, bindings, instances, connectors>>
      /\ resources \in Inputs /\ Checked /\ Planning
  BY NextOperationFacts
<1>2. ResolvedInv' /\ InstancesInv' /\ PlannedInv'
  BY <1>1 DEF ResolvedInv, Planning, InstancesInv, PlannedInv, BeforeCapture
<1>3. ConnectorsInv'
  <2>1. Live' = Live /\ \A b, c : Makes(b, c)' <=> Makes(b, c)
    BY <1>1, Kept, MakesKept
  <2>2. ConnectorsInv
    BY <1>1 DEF Planning
  <2>3. QED
    BY <1>1, <2>1, <2>2 DEF ConnectorsInv, BeforeCapture
<1>4. QED
  BY <1>1, <1>2, <1>3, Kept DEF IInv, Planning

LEMMA SkipOperationStep ==
  ASSUME IInv, SkipOperation
  PROVE  IInv'
<1> DEFINE op == Head(todo)
<1>1. /\ NextOperation /\ UNCHANGED <<seen, operations, diags>>
      /\ SameOperation(PlanOf(op))
  BY DEF SkipOperation, ops, PlanOf
<1>2. OperationsInv /\ op \in Ops
  BY <1>1, NextOperationFacts DEF Planning
<1>3. /\ PlanOf(op).key = ValOf(op, "idempotencyKey") /\ PlanOf(op).action = ValOf(op, "action")
      /\ PlanOf(op).target = RefId(op, "targetRef")
  BY DEF PlanOf, operationPlan
<1>4. PICK e \in Range(operations) :
        e.key = PlanOf(op).key /\ e.target = PlanOf(op).target /\ e.action = PlanOf(op).action
  BY <1>1, <1>2 DEF SameOperation, HasPrior, OperationsInv
<1> HIDE DEF op
<1>5. Represented(op)
  BY <1>3, <1>4 DEF Represented, Range
<1>6. \A p : Represented(p)' <=> Represented(p)
  BY <1>1 DEF Represented
<1>7. CollisionsExplained'
  BY <1>1, <1>2, NextOperationFacts, OtherDiags DEF OperationsInv
<1>8. OperationsInv'
  <2>1. \A p \in Ops : (pc' = "operations" /\ p \in Range(todo')) \/ Represented(p)'
    BY <1>1, <1>2, <1>5, <1>6, NextOperationFacts DEF OperationsInv, BeforeOperations, op
  <2>2. operations' \in Seq({PlanOf(p)' : p \in Ops'})
    BY <1>1, <1>2, NextOperationFacts DEF OperationsInv
  <2>3. QED
    BY <1>1, <1>2, <1>7, <2>1, <2>2, NextOperationFacts DEF OperationsInv, BeforeOperations
<1>9. QED
  BY <1>1, <1>8, OperationKept

\* A key is only found taken by an operation that writes the same and means
\* another: its namespace is another.
LEMMA CollisionExplained ==
  ASSUME IInv, NextOperation, HasPrior(PlanOf(Head(todo))),
         ~SameOperation(PlanOf(Head(todo))),
         diags' = diags \cup {<<"DOPS011", PlanOf(Head(todo)).id>>}
  PROVE  CollisionsExplained'
<1> DEFINE op == Head(todo)
           e == seen[PlanOf(op).key]
<1>1. /\ resources \in Inputs /\ ValidateResources(resources) = {}
      /\ OperationsInv /\ op \in Ops /\ Ops' = Ops /\ resources' = resources
  BY NextOperationFacts DEF Planning, Checked
<1>2. \A p : /\ PlanOf(p).id = p.id /\ PlanOf(p).key = ValOf(p, "idempotencyKey")
             /\ PlanOf(p).action = ValOf(p, "action")
             /\ PlanOf(p).target = RefId(p, "targetRef")
  BY DEF PlanOf, operationPlan
<1>3. e.key = PlanOf(op).key /\ e \in Range(operations)
  BY <1>1 DEF HasPrior, OperationsInv
<1>4. Range(operations) \subseteq {PlanOf(p) : p \in Ops}
  BY <1>1, LenProperties DEF OperationsInv, Range
<1>5. PICK p \in Ops : e = PlanOf(p)
  BY <1>3, <1>4
<1>6. e.target # PlanOf(op).target \/ e.action # PlanOf(op).action
  BY DEF SameOperation
<1>7. /\ RefOf(p, "targetRef") = RefOf(op, "targetRef") /\ ValOf(p, "action") = ValOf(op, "action")
      /\ ById(resources, op.id) = op
  BY <1>1, <1>2, <1>3, <1>5, OperationValidated, IndexFacts DEF Ops
<1> HIDE DEF op, e
<1>8. p.id.ns # op.id.ns
  BY <1>2, <1>5, <1>6, <1>7, WrittenAlike
<1>9. diags' = diags \cup {<<"DOPS011", op.id>>}
  BY <1>2 DEF op
<1>10. \A d \in diags' : d \in diags \/ d[2] = op.id
  BY <1>9
<1>11. CollisionsExplained
  BY <1>1 DEF OperationsInv
<1>12. QED
  BY <1>1, <1>7, <1>8, <1>10, <1>11 DEF CollisionsExplained

LEMMA PlanOperationStep ==
  ASSUME IInv, PlanOperation
  PROVE  IInv'
<1>0. PICK op : op = Head(todo)
  OBVIOUS
<1> DEFINE plan == PlanOf(op)
<1>1. /\ NextOperation /\ ~SameOperation(plan)
      /\ diags' = IF HasPrior(plan) THEN diags \cup {<<"DOPS011", plan.id>>} ELSE diags
      /\ seen' = IF plan.key = Unset THEN seen ELSE Stored(seen, plan.key, plan)
      /\ operations' = Append(operations, plan)
  BY <1>0 DEF PlanOperation, PlanOf
<1>2. /\ OperationsInv /\ op \in Ops /\ Ops' = Ops /\ \A p : PlanOf(p)' = PlanOf(p)
      /\ pc = "operations" /\ pc' = "operations" /\ UNCHANGED resources
      /\ resources \in Inputs /\ ValidateResources(resources) = {}
  BY <1>0, <1>1, NextOperationFacts DEF Planning, Checked
<1>3. /\ plan.key = ValOf(op, "idempotencyKey") /\ plan.action = ValOf(op, "action")
      /\ plan.target = RefId(op, "targetRef") /\ plan.key # Unset
  BY <1>2, OperationValidated DEF PlanOf, operationPlan, Ops
<1>4. CollisionsExplained'
  <2>1. CASE HasPrior(plan)
    BY <1>0, <1>1, <2>1, CollisionExplained
  <2>2. CASE ~HasPrior(plan)
    BY <1>1, <1>2, <2>2, OtherDiags DEF OperationsInv
  <2>3. QED
    BY <2>1, <2>2
<1> DEFINE Plans == {PlanOf(p) : p \in Ops}
<1>5. operations \in Seq(Plans) /\ plan \in Plans
  BY <1>2 DEF OperationsInv
<1>6. Plans' = Plans
  BY <1>2
<1> DEFINE n == Len(operations)
<1> HIDE DEF plan, Plans
<1>7. /\ operations' \in Seq(Plans) /\ n \in Nat
      /\ DOMAIN operations = 1..n /\ DOMAIN operations' = 1..(n + 1)
      /\ operations'[n + 1] = plan
      /\ \A k \in 1..n : operations'[k] = operations[k]
      /\ Range(operations') = Range(operations) \cup {plan}
  <2>1. DOMAIN operations = 1..n /\ n \in Nat
    BY <1>5, LenProperties
  <2>2. /\ Append(operations, plan) \in Seq(Plans)
        /\ Len(Append(operations, plan)) = n + 1
        /\ Append(operations, plan)[n + 1] = plan
        /\ \A k \in 1..n : Append(operations, plan)[k] = operations[k]
    BY <1>5, <2>1
  <2>3. DOMAIN Append(operations, plan) = 1..(n + 1)
    BY <2>2, LenProperties
  <2>4. Range(Append(operations, plan)) = Range(operations) \cup {plan}
    BY <1>5, RangeAppend
  <2>5. QED
    BY <1>1, <2>1, <2>2, <2>3, <2>4
<1> HIDE DEF n
<1>8. /\ DOMAIN seen' = DOMAIN seen \cup {plan.key}
      /\ \A k \in DOMAIN seen' : seen'[k] = IF k = plan.key THEN plan ELSE seen[k]
  BY <1>1, <1>3 DEF Stored
<1>9. \A k \in DOMAIN seen' : seen'[k].key = k /\ seen'[k] \in Range(operations')
  BY <1>2, <1>7, <1>8 DEF OperationsInv
<1>10. \A k \in DOMAIN operations' : operations'[k].key \in DOMAIN seen'
  <2> SUFFICES ASSUME NEW k \in 1..(n + 1) PROVE operations'[k].key \in DOMAIN seen'
    BY <1>7
  <2>1. CASE k = n + 1
    BY <1>7, <1>8, <2>1
  <2>2. CASE k \in 1..n
    BY <1>2, <1>7, <1>8, <2>2 DEF OperationsInv
  <2>3. QED
    BY <1>7, <2>1, <2>2
<1>11. \A p : Represented(p) => Represented(p)'
  <2> SUFFICES ASSUME NEW p, NEW k \in 1..n,
                      operations[k].key = ValOf(p, "idempotencyKey"),
                      operations[k].action = ValOf(p, "action"),
                      operations[k].target = RefId(p, "targetRef")
               PROVE  Represented(p)'
    BY <1>7 DEF Represented
  <2>1. k \in DOMAIN operations' /\ operations'[k] = operations[k]
    BY <1>7
  <2>2. QED
    BY <2>1 DEF Represented
<1>12. Represented(op)'
  <2>1. n + 1 \in DOMAIN operations'
    BY <1>7
  <2>2. QED
    BY <1>3, <1>7, <2>1 DEF Represented
<1>13. \/ \A j, k \in DOMAIN operations' : operations'[j].key = operations'[k].key => j = k
       \/ diags' # {}
  <2>1. CASE HasPrior(plan) \/ diags # {}
    BY <1>1, <2>1
  <2>2. CASE ~HasPrior(plan) /\ diags = {}
    <3>1. plan.key \notin DOMAIN seen
      BY <1>3, <2>2 DEF HasPrior
    <3>2. \A k \in 1..n : operations'[k].key # plan.key
      BY <1>2, <1>7, <3>1 DEF OperationsInv
    <3>3. \A j, k \in 1..n : operations'[j].key = operations'[k].key => j = k
      BY <1>2, <1>7, <2>2 DEF OperationsInv
    <3>4. \A k \in 1..(n + 1) : k \in 1..n \/ k = n + 1
      BY <1>7
    <3>5. \A j, k \in 1..(n + 1) : operations'[j].key = operations'[k].key => j = k
      BY <1>7, <3>2, <3>3, <3>4
    <3>6. QED
      BY <1>7, <3>5
  <2>3. QED
    BY <2>1, <2>2
<1>14. \A p \in Ops : p \in Range(todo') \/ Represented(p)'
  <2>1. \A p \in Ops : p = op \/ p \in Range(todo') \/ Represented(p)
    BY <1>0, <1>1, <1>2, NextOperationFacts DEF OperationsInv, BeforeOperations
  <2>2. QED
    BY <1>11, <1>12, <2>1
<1>15. OperationsInv'
  <2>1. operations' \in Seq({PlanOf(p)' : p \in Ops'})
    BY <1>6, <1>7 DEF Plans
  <2>2. todo' \in Seq(Ops')
    BY <1>1, NextOperationFacts
  <2>3. QED
    BY <1>2, <1>4, <1>9, <1>10, <1>13, <1>14, <2>1, <2>2
    DEF OperationsInv, BeforeOperations
<1>16. diags \subseteq diags'
  BY <1>1
<1>17. QED
  BY <1>1, <1>15, <1>16, OperationKept

-----------------------------------------------------------------------------
(* The provider resources and the bundle. *)

\* The last steps leave change capture and the operations as they are.
LEMMA PlansSettled ==
  ASSUME IInv, pc \in {"operations", "render"}, pc = "operations" => todo = <<>>,
         pc' \in {"render", "refused", "done"},
         UNCHANGED <<resources, resolution, capture, ops>>,
         diags \subseteq diags', \A d \in diags' : d \in diags \/ d[1] # TakenKey,
         PlannedInv'
  PROVE  IInv'
<1>1. /\ UNCHANGED <<resources, reg, bindings, instances, connectors, seen, operations>>
      /\ resources \in Inputs /\ Checked /\ Planning
  BY InPlanning DEF resolution, capture, ops
<1>2. pc = "operations" => Range(todo) = {}
  BY RangeEmpty
<1>3. ResolvedInv' /\ InstancesInv'
  BY <1>1 DEF ResolvedInv, Planning, InstancesInv, BeforeCapture
<1>4. ConnectorsInv'
  <2>1. Live' = Live /\ \A b, c : Makes(b, c)' <=> Makes(b, c)
    BY <1>1, Kept, MakesKept
  <2>2. ConnectorsInv
    BY <1>1 DEF Planning
  <2>3. QED
    BY <1>1, <2>1, <2>2 DEF ConnectorsInv, BeforeCapture
<1>5. OperationsInv'
  <2>1. Ops' = Ops /\ \A op : PlanOf(op)' = PlanOf(op)
    BY <1>1, Kept, PlansKept
  <2>2. \A p : Represented(p)' <=> Represented(p)
    BY <1>1 DEF Represented
  <2>3. OperationsInv
    BY <1>1 DEF Planning
  <2>4. CollisionsExplained'
    BY <1>1, <2>3, OtherDiags DEF OperationsInv
  <2>5. operations' \in Seq({PlanOf(p)' : p \in Ops'})
    BY <1>1, <2>1, <2>3 DEF OperationsInv
  <2>6. \A p \in Ops' : Represented(p)'
    BY <1>2, <2>1, <2>2, <2>3 DEF OperationsInv, BeforeOperations
  <2>7. QED
    BY <1>1, <2>3, <2>4, <2>5, <2>6 DEF OperationsInv, BeforeOperations
<1>6. QED
  BY <1>1, <1>3, <1>4, <1>5, Kept DEF IInv, Planning

LEMMA PlanResourcesStep ==
  ASSUME IInv, PlanResources
  PROVE  IInv'
<1> DEFINE needs == requirements(resources, bindings, target)
           plan == buildTargetPlan(resources, target)
<1>1. /\ pc = "operations" /\ todo = <<>>
      /\ UNCHANGED <<resources, resolution, capture, ops>>
      /\ planned' = plannedProviderResources(reg, needs, target)
      /\ diags' = diags \cup plannedDiags(reg, needs, target)
                    \cup validateComposeProduction(plan, planned', reg)
      /\ pc' = IF diags' = {} THEN "render" ELSE "refused"
  BY DEF PlanResources
<1>2. diags \subseteq diags' /\ \A d \in diags' : d \in diags \/ d[1] # TakenKey
  BY <1>1, PlannedCodes
<1>3. PlannedInv'
  <2>1. UNCHANGED <<resources, reg, bindings>>
    BY <1>1 DEF resolution
  <2> HIDE DEF plan
  <2>2. QED
    BY <1>1, <2>1 DEF PlannedInv
<1>4. QED
  BY <1>1, <1>2, <1>3, PlansSettled

LEMMA RenderStep ==
  ASSUME IInv, Render
  PROVE  IInv'
<1>1. /\ pc = "render" /\ pc' = "done"
      /\ UNCHANGED <<resources, resolution, capture, ops, planned, diags>>
      /\ services' \in collectServices(planned, instances, connectors)
  BY DEF Render
<1>2. PlannedInv'
  BY <1>1, InPlanning DEF Planning, PlannedInv, resolution, capture
<1>3. QED
  BY <1>1, <1>2, PlansSettled

LEMMA StepIInv == IInv /\ [Next]_vars => IInv'
<1> SUFFICES ASSUME IInv, [Next]_vars PROVE IInv'
  OBVIOUS
<1>1. CASE Validate
  BY <1>1, ValidateStep
<1>2. CASE Resolve
  BY <1>2, ResolveStep
<1>3. CASE buildResourceGraph
  BY <1>3, GraphStep
<1>4. CASE buildCDCPlan
  BY <1>4, PlanInstancesStep, NoConnectorStep, ConnectStep, ValidatePlanStep DEF buildCDCPlan
<1>5. CASE buildOperationPlans
  BY <1>5, SkipOperationStep, PlanOperationStep DEF buildOperationPlans
<1>6. CASE PlanResources
  BY <1>6, PlanResourcesStep
<1>7. CASE Render
  BY <1>7, RenderStep
<1>8. CASE Done \/ UNCHANGED vars
  <2>1. UNCHANGED <<resources, pc, reg, bindings, instances, todo, connectors, seen, operations,
                    planned, services, diags>>
    BY <1>8 DEF Done, vars
  <2>2. /\ Live' = Live /\ Ops' = Ops /\ (\A op : PlanOf(op)' = PlanOf(op))
        /\ (\A b, c : Makes(b, c)' <=> Makes(b, c)) /\ (Checked' <=> Checked)
    BY <2>1, Kept, MakesKept, PlansKept
  <2>3. \A p : Represented(p)' <=> Represented(p)
    BY <2>1 DEF Represented
  <2>4. OperationsInv => OperationsInv'
    <3>1. CollisionsExplained => CollisionsExplained'
      BY <2>1, OtherDiags
    <3>2. operations \in Seq({PlanOf(p) : p \in Ops}) =>
            operations' \in Seq({PlanOf(p)' : p \in Ops'})
      BY <2>1, <2>2
    <3>3. QED
      BY <2>1, <2>2, <2>3, <3>1, <3>2 DEF OperationsInv
  <2>5. ConnectorsInv => ConnectorsInv'
    BY <2>1, <2>2 DEF ConnectorsInv
  <2>6. ResolvedInv' = ResolvedInv /\ InstancesInv' = InstancesInv /\ PlannedInv' = PlannedInv
        /\ Unplanned' = Unplanned
    BY <2>1 DEF ResolvedInv, InstancesInv, PlannedInv, Unplanned
  <2>7. QED
    BY <2>1, <2>2, <2>4, <2>5, <2>6 DEF IInv, Planning
<1>9. QED
  BY <1>1, <1>2, <1>3, <1>4, <1>5, <1>6, <1>7, <1>8 DEF Next

LEMMA SpecIInv == Spec => []IInv
<1>1. QED
  BY InitIInv, StepIInv, PTL DEF Spec

-----------------------------------------------------------------------------
(* Theorems. *)

\* Type correctness: a connector has its runtime, a runtime its identity, and
\* the last operation seen of a key is one of the plan and has that key.
THEOREM TypeCorrect == Spec => []TypeOK
<1>1. IInv => TypeOK
  <2> SUFFICES ASSUME IInv PROVE TypeOK
    OBVIOUS
  <2>1. CASE Unplanned
    BY <2>1 DEF IInv, Unplanned, TypeOK, Planning
  <2>2. CASE Checked /\ Planning
    <3>1. \A c \in connectors : \E i \in instances : i.id = c.instance
      BY <2>2 DEF Planning, ConnectorsInv, Makes, connectorPlan
    <3>2. \A i, j \in instances : i.id = j.id => i = j
      <4>1. CASE instances = {}
        BY <4>1
      <4>2. CASE instances = Instances(resources, bindings)
        BY <2>2, <4>2, InstanceFacts DEF IInv, Checked
      <4>3. QED
        BY <2>2, <4>1, <4>2 DEF Planning, InstancesInv
    <3>3. QED
      BY <2>2, <3>1, <3>2 DEF IInv, Planning, OperationsInv, TypeOK
  <2>3. QED
    BY <2>1, <2>2 DEF IInv
<1>2. QED
  BY <1>1, SpecIInv, PTL

\* What an accepted plan is known to be.
LEMMA AcceptedFacts ==
  ASSUME IInv, Accepted
  PROVE  /\ resources \in Inputs /\ Checked /\ Planning
         /\ diags = {} /\ ResolutionDiagsOf(resources, target) = {}
         /\ instances = Instances(resources, bindings)
         /\ bindings = ResolvedOf(resources, target)
         /\ validateCDCPlan(instances, connectors, target) = {}
<1>1. pc = "done"
  BY DEF Accepted
<1>2. resources \in Inputs /\ Checked /\ Planning
  BY <1>1, InPlanning
<1>3. diags = {}
  BY <1>1, <1>2 DEF Planning, PlannedInv
<1>4. QED
  BY <1>1, <1>2, <1>3
  DEF Planning, ResolvedInv, InstancesInv, ConnectorsInv, BeforeCapture

-----------------------------------------------------------------------------
(* The references of a binding. *)

\* The field an end is looked for in first is one that validation requires.
LEMMA RequiredEnds ==
  ASSUME NEW kind \in DOMAIN EndFields, kind # "Binding", NEW k \in {1, 2}
  PROVE  /\ kind \in DOMAIN typedBindingRequiredFields
         /\ Head(EndFields[kind][k]) \in typedBindingRequiredFields[kind]
<1>1. kind \in {"CDCBinding", "StreamPublishBinding", "StreamArchiveBinding", "LineageBinding",
                "AuditBinding", "PipelineBinding", "AccessBinding", "BatchIngestBinding",
                "StreamIngestBinding", "TransformBinding", "VolumeMountBinding"}
  BY DEF EndFields
<1>2. QED
  BY <1>1 DEF EndFields, typedBindingRequiredFields

LEMMA TypedFields ==
  ASSUME NEW kind \in DOMAIN typedBindingRequiredFields
  PROVE  typedBindingRequiredFields[kind] \subseteq RefFields(kind)
<1>1. kind \notin {"Binding", "CDCClass", "CDCInstance", "CDCOperation", "RelationalSource",
                   "DatabaseInstance", "PersistentVolume", "PersistentVolumeClaim",
                   "DatabaseConnection", "ObjectStoreConnection", "EventStreamConnection"}
  BY DEF typedBindingRequiredFields
<1>2. QED
  BY <1>1 DEF RefFields

LEMMA RequiredFields ==
  ASSUME NEW s \in Inputs, ValidateResources(s) = {}, NEW r \in Range(s),
         r.id.kind \in DOMAIN typedBindingRequiredFields,
         NEW f \in typedBindingRequiredFields[r.id.kind]
  PROVE  RefOf(r, f) # Absent /\ f # "providerInstanceRef" /\ f \in RefFields(r.id.kind)
<1>1. RefOf(r, f) # Absent
  <2> SUFFICES ASSUME RefOf(r, f) = Absent PROVE FALSE
    OBVIOUS
  <2>1. <<"DBIND014", r.id>> \in validateCoreInvariants(r)
    BY DEF validateCoreInvariants, Broken, Rule
  <2>2. QED
    BY <2>1, ValidatedFacts
<1>2. f # "providerInstanceRef"
  BY DEF typedBindingRequiredFields
<1>3. f \in RefFields(r.id.kind)
  BY TypedFields
<1>4. QED
  BY <1>1, <1>2, <1>3

LEMMA EndsValidated ==
  ASSUME NEW s \in Inputs, ValidateResources(s) = {}, NEW r \in Range(s),
         ~plannedOrDisabled(r), r.id.kind \in DOMAIN EndFields,
         NEW ref \in {SourceRef(r), TargetRef(r)}
  PROVE  /\ r.id.kind # "Binding" => ref # Absent
         /\ ref # Absent => parseRef(ref, r) # NoId /\ Exists(s, parseRef(ref, r))
<1>1. CASE r.id.kind = "Binding"
  <2>1. \E f \in {"sourceRef", "targetRef"} : ref = RefOf(r, f)
    BY <1>1 DEF SourceRef, TargetRef, EndFields, firstRef, Last
  <2>2. PICK f \in {"sourceRef", "targetRef"} : ref = RefOf(r, f)
    BY <2>1
  <2>3. f \in RefFields(r.id.kind) /\ f # "providerInstanceRef"
    BY <1>1 DEF RefFields, typedBindingRequiredFields
  <2>4. QED
    BY <1>1, <2>2, <2>3, ReferenceFollowed DEF RefId
<1>2. CASE r.id.kind # "Binding"
  <2>1. PICK k \in {1, 2} : ref = firstRef(r, EndFields[r.id.kind][k])
    BY DEF SourceRef, TargetRef
  <2> DEFINE f == Head(EndFields[r.id.kind][k])
  <2>2. r.id.kind \in DOMAIN typedBindingRequiredFields
        /\ f \in typedBindingRequiredFields[r.id.kind]
    BY <1>2, RequiredEnds
  <2> HIDE DEF f
  <2>3. RefOf(r, f) # Absent /\ f # "providerInstanceRef" /\ f \in RefFields(r.id.kind)
    BY <2>2, RequiredFields
  <2>4. ref = RefOf(r, f)
    BY <2>1, <2>3 DEF firstRef, f
  <2>5. QED
    BY <2>3, <2>4, ReferenceFollowed DEF RefId
<1>3. QED
  BY <1>1, <1>2

\* What validation has accepted, the resolver finds.
LEMMA ReferencesAgree ==
  ASSUME NEW s \in Inputs, ValidateResources(s) = {}, NEW t, NEW r \in ResolvableIn(s),
         ~plannedOrDisabled(r), NEW code \in Reported(r, s, t)
  PROVE  code \notin ReferenceCodes
<1>1. r \in Range(s) /\ r.id.kind \in DOMAIN EndFields
  BY DEF ResolvableIn, IsBinding
<1>2. \A ref \in {SourceRef(r), TargetRef(r)} :
        /\ r.id.kind # "Binding" => ref # Absent
        /\ ref # Absent => parseRef(ref, r) # NoId /\ Exists(s, parseRef(ref, r))
        /\ ref = Absent => parseRef(ref, r) = NoId
  BY <1>1, EndsValidated, NoIdFacts
<1>3. r.id.kind = "CDCBinding" => \A f \in {"cdcRef", "connectorClassRef"} :
        /\ RefOf(r, f) # Absent => RefId(r, f) # NoId
        /\ RefId(r, f) # NoId => Exists(s, RefId(r, f))
  <2> SUFFICES ASSUME r.id.kind = "CDCBinding", NEW f \in {"cdcRef", "connectorClassRef"}
               PROVE  /\ RefOf(r, f) # Absent => RefId(r, f) # NoId
                      /\ RefId(r, f) # NoId => Exists(s, RefId(r, f))
    OBVIOUS
  <2>1. f \in RefFields(r.id.kind) /\ f # "providerInstanceRef"
    BY DEF RefFields, typedBindingRequiredFields
  <2>2. QED
    BY <1>1, <2>1, ReferenceFollowed
<1> DEFINE b == Resolving(r, s, t)
<1>4. /\ b.source = parseRef(SourceRef(r), r) /\ b.target = parseRef(TargetRef(r), r)
      /\ r.id.kind = "CDCBinding" => /\ b.cdc = RefId(r, "cdcRef")
                                     /\ b.connectorClass = RefId(r, "connectorClassRef")
  BY DEF Resolving, resolveBinding
<1> HIDE DEF b
<1>5. code \in {"DBIND009", "DBIND011", "DBIND012", "DBIND015", "DBIND020"}
  BY <1>2, <1>3, <1>4 DEF Reported, resolutionDiags, endDiags, b
<1>6. QED
  BY <1>5 DEF ReferenceCodes

LEMMA ReferencesResolve == IInv => ValidatedReferencesResolve
<1> SUFFICES ASSUME IInv, pc = "graph", NEW d \in diags, d[1] \in ReferenceCodes
             PROVE  plannedOrDisabled(ById(resources, d[2]))
  BY DEF ValidatedReferencesResolve
<1>1. /\ resources \in Inputs /\ ValidateResources(resources) = {}
      /\ diags = Definitions!RegistryDiags(resources) \cup ResolutionDiagsOf(resources, target)
  BY InPlanning DEF Planning, ResolvedInv, Checked
<1>2. d \in ResolutionDiagsOf(resources, target)
  BY <1>1, DefinitionCodes DEF ReferenceCodes
<1>3. PICK r \in ResolvableIn(resources) :
        \E code \in Reported(r, resources, target) : d = <<code, r.id>>
  <2>1. ResolutionDiagsOf(resources, target) =
          UNION {{<<code, r.id>> : code \in Reported(r, resources, target)} :
                   r \in ResolvableIn(resources)}
    BY <1>1, BindingFacts
  <2>2. QED
    BY <1>2, <2>1
<1>4. d[1] \in Reported(r, resources, target) /\ d[2] = r.id
  BY <1>3
<1>5. ById(resources, d[2]) = r
  BY <1>1, <1>4, BindingFacts, IndexFacts
<1>6. QED
  BY <1>1, <1>4, <1>5, ReferencesAgree

-----------------------------------------------------------------------------
(* Connectors. *)

LEMMA LiveFacts ==
  ASSUME IInv, pc \notin BeforeCapture \cup {"validate", "resolve"}, Checked /\ Planning
  PROVE  /\ resources \in Inputs /\ ValidateResources(resources) = {}
         /\ \A i, j \in instances : i.id = j.id => i = j
         /\ \A b, c \in Live : b.id = c.id => b = c
         /\ IsFiniteSet(Live)
         /\ \A b \in Live : \A c : Makes(b, c) => c.binding = b.id
         /\ \A b \in Live : \A c, d : Makes(b, c) /\ Makes(b, d) => c = d
<1>1. /\ resources \in Inputs /\ ValidateResources(resources) = {}
      /\ instances = Instances(resources, bindings)
      /\ bindings = ResolvedOf(resources, target)
  BY DEF IInv, Planning, ResolvedInv, InstancesInv, Checked
<1>2. \A i, j \in instances : i.id = j.id => i = j
  BY <1>1, InstanceFacts
<1>3. (\A b, c \in Live : b.id = c.id => b = c) /\ IsFiniteSet(bindings)
  BY <1>1, BindingFacts DEF Live
<1>4. IsFiniteSet(Live)
  BY <1>3, FS_Subset DEF Live
<1>5. \A b \in Live : \A c : Makes(b, c) => c.binding = b.id
  BY DEF Makes, connectorPlan
<1>6. \A b \in Live : \A c, d : Makes(b, c) /\ Makes(b, d) => c = d
  BY <1>2 DEF Makes
<1>7. QED
  BY <1>1, <1>2, <1>3, <1>4, <1>5, <1>6

\* As many as two sets have elements when each element of the one has its own
\* in the other.
LEMMA SameSize ==
  ASSUME NEW S, IsFiniteSet(S), NEW T, NEW f \in [S -> T],
         \A x, y \in S : f[x] = f[y] => x = y, \A y \in T : \E x \in S : f[x] = y
  PROVE  Cardinality(T) = Cardinality(S)
<1>1. f \in Bijection(S, T)
  <2>1. f \in Injection(S, T)
    BY DEF Injection, IsInjective
  <2>2. f \in Surjection(S, T)
    BY DEF Surjection
  <2>3. QED
    BY <2>1, <2>2 DEF Bijection
<1>2. ExistsBijection(S, T)
  BY <1>1 DEF ExistsBijection
<1>3. QED
  BY <1>2, FS_Bijection

\* No two connectors of a runtime have a name, and no two runtimes a service.
LEMMA DistinctNames == IInv => NamesDistinct
<1> SUFFICES ASSUME IInv, Accepted PROVE NamesDistinct
  BY DEF NamesDistinct
<1>1. validateCDCPlan(instances, connectors, target) = {}
  BY AcceptedFacts
<1>2. Collides(connectors, LAMBDA k : <<k.instance, k.name>>) = {}
  BY <1>1 DEF validateCDCPlan
<1> DEFINE managed == {i \in instances : i.ownership = "managed"}
<1>3. Collides(managed, LAMBDA k : cdcWorkerServiceName(k.id)) = {}
  BY <1>1 DEF validateCDCPlan
<1>4. \A c, d \in connectors : (c.instance = d.instance /\ c.name = d.name) => c = d
  BY <1>2 DEF Collides
<1>5. \A i, j \in managed : cdcWorkerServiceName(i.id) = cdcWorkerServiceName(j.id) => i = j
  BY <1>3 DEF Collides
<1>6. QED
  BY <1>4, <1>5 DEF NamesDistinct

\* Every live binding has its own connector, no other binding has one.
LEMMA OneConnectorEach ==
  ASSUME IInv, Accepted
  PROVE  /\ {c.binding : c \in connectors} = {b.id : b \in Live}
         /\ Cardinality(connectors) = Cardinality(Live)
<1>1. pc = "done" /\ Checked /\ Planning /\ diags = {}
  BY AcceptedFacts DEF Accepted
<1>2. /\ \A b, c \in Live : b.id = c.id => b = c
      /\ IsFiniteSet(Live)
      /\ \A b \in Live : \A c : Makes(b, c) => c.binding = b.id
      /\ \A b \in Live : \A c, d : Makes(b, c) /\ Makes(b, d) => c = d
  BY <1>1, LiveFacts DEF BeforeCapture
<1>3. /\ \A c \in connectors : \E b \in Live : Makes(b, c)
      /\ \A b \in Live : \E c \in connectors : Makes(b, c)
  BY <1>1 DEF Planning, ConnectorsInv, BeforeCapture
<1> DEFINE f == [b \in Live |-> CHOOSE c \in connectors : Makes(b, c)]
<1>4. f \in [Live -> connectors] /\ \A b \in Live : Makes(b, f[b])
  BY <1>3
<1> HIDE DEF f
<1>5. \A b, c \in Live : f[b] = f[c] => b = c
  BY <1>2, <1>4
<1>6. \A c \in connectors : \E b \in Live : f[b] = c
  BY <1>2, <1>3, <1>4
<1>7. Cardinality(connectors) = Cardinality(Live)
  BY <1>2, <1>4, <1>5, <1>6, SameSize
<1>8. QED
  BY <1>2, <1>3, <1>7

LEMMA NothingReported ==
  ASSUME NEW s \in Inputs, ValidateResources(s) = {}, NEW t, ResolutionDiagsOf(s, t) = {}
  PROVE  \A r \in ResolvableIn(s) : Reported(r, s, t) = {}
<1>1. UNION {{<<code, r.id>> : code \in Reported(r, s, t)} : r \in ResolvableIn(s)} = {}
  BY BindingFacts
<1>2. \A r \in ResolvableIn(s) : {<<code, r.id>> : code \in Reported(r, s, t)} = {}
  BY <1>1
<1>3. QED
  BY <1>2

\* A binding without a provider is reported.
LEMMA ProviderReported ==
  ASSUME NEW s \in Inputs, ValidateResources(s) = {}, NEW t, ResolutionDiagsOf(s, t) = {},
         NEW b \in ResolvedOf(s, t)
  PROVE  b.provider # NoId
<1>1. PICK r \in ResolvableIn(s) : b = Resolving(r, s, t)
  BY BindingFacts
<1>2. Reported(r, s, t) = {}
  BY NothingReported
<1>3. QED
  BY <1>1, <1>2 DEF Reported, resolutionDiags

LEMMA ProvidersFound ==
  ASSUME IInv, Accepted
  PROVE  \A c \in connectors : InstancesOf(reg, InstanceKey(c.provider, target)) # {}
<1>1. /\ pc = "done" /\ Planning /\ diags = {} /\ resources \in Inputs
      /\ ValidateResources(resources) = {} /\ ResolutionDiagsOf(resources, target) = {}
      /\ bindings = ResolvedOf(resources, target)
  BY AcceptedFacts DEF Accepted, Checked
<1>2. \A c \in connectors : c.provider = NoId \/ InstancesOf(reg, InstanceKey(c.provider, target)) # {}
  BY <1>1 DEF Planning, ConnectorsInv
<1>3. \A c \in connectors : c.provider # NoId
  <2> SUFFICES ASSUME NEW c \in connectors PROVE c.provider # NoId
    OBVIOUS
  <2>1. PICK b \in Live : Makes(b, c)
    BY <1>1 DEF Planning, ConnectorsInv
  <2>2. b.provider # NoId
    BY <1>1, ProviderReported DEF Live
  <2>3. QED
    BY <2>1, <2>2 DEF Makes, connectorPlan
<1>4. QED
  BY <1>2, <1>3

\* In production the runtime of a connector is the one its binding names.
LEMMA ProductionNamed ==
  ASSUME IInv, diags = {}, productionProfile(resources), NEW c \in connectors
  PROVE  RefId(ById(resources, c.binding), "cdcRef") = c.instance
<1>1. /\ resources \in Inputs /\ ValidateResources(resources) = {} /\ Planning
      /\ pc \notin BeforeCapture
  BY DEF IInv, Unplanned, Planning, ConnectorsInv, Checked
<1>2. /\ bindings = ResolvedOf(resources, target)
      /\ ResolutionDiagsOf(resources, target) = {}
  BY <1>1 DEF Planning, ResolvedInv
<1>3. PICK b \in Live : Makes(b, c)
  BY <1>1 DEF Planning, ConnectorsInv
<1>4. b \in ResolvedOf(resources, target) /\ b.id.kind = "CDCBinding"
  BY <1>2 DEF Live, LiveCapture
<1>5. PICK r \in ResolvableIn(resources) :
        b = Resolving(r, resources, target) /\ b.id = r.id /\ ById(resources, b.id) = r
  BY <1>1, <1>4, BindingFacts
<1>6. r \in Range(resources) /\ Reported(r, resources, target) = {}
  BY <1>1, <1>2, BindingFacts, NothingReported
<1>7. RefOf(r, "cdcRef") # Absent
  <2> SUFFICES ASSUME RefOf(r, "cdcRef") = Absent PROVE FALSE
    OBVIOUS
  <2>1. <<"DCDC008", r.id>> \in bindingTopology(r, resources)
    BY DEF bindingTopology, Broken, Rule
  <2>2. QED
    BY <1>1, <1>4, <1>5, <1>6, <2>1, ValidatedFacts
<1>8. b.cdc = RefId(r, "cdcRef")
  BY <1>4, <1>5 DEF Resolving, resolveBinding
<1>9. b.cdc # NoId
  <2> SUFFICES ASSUME b.cdc = NoId PROVE FALSE
    OBVIOUS
  <2>1. "DBIND016" \in Reported(r, resources, target)
    BY <1>4, <1>5, <1>7 DEF Reported, resolutionDiags, endDiags
  <2>2. QED
    BY <1>6, <2>1
<1>10. c.binding = b.id /\ c.instance = b.cdc
  BY <1>3, <1>9 DEF Makes, connectorPlan, CaptureInstance
<1>11. QED
  BY <1>5, <1>8, <1>10

\* A live binding of an accepted plan has its own connector, on a provider that
\* is registered; what validation has followed, the resolver follows; names are
\* distinct; and in production every runtime is named.
THEOREM CapturesAreConnected == Spec => []CapturesConnected
<1>1. IInv => CapturesConnected
  BY ReferencesResolve, DistinctNames, OneConnectorEach, ProvidersFound, ProductionNamed
  DEF CapturesConnected
<1>2. QED
  BY <1>1, SpecIInv, PTL

-----------------------------------------------------------------------------
(* Operations. *)

LEMMA KeysDistinct == IInv => OneKeyOneOperation
<1> SUFFICES ASSUME IInv, Accepted PROVE OneKeyOneOperation
  BY DEF OneKeyOneOperation
<1>1. pc = "done" /\ OperationsInv /\ diags = {}
  BY AcceptedFacts DEF Planning, Accepted
<1>2. /\ \A j, k \in DOMAIN operations : operations[j].key = operations[k].key => j = k
      /\ \A op \in Ops : Represented(op)
  BY <1>1 DEF OperationsInv, BeforeOperations
<1>3. QED
  BY <1>2 DEF OneKeyOneOperation, Represented

LEMMA Explained == IInv => CollisionsExplained
<1> SUFFICES ASSUME IInv PROVE CollisionsExplained
  OBVIOUS
<1>1. CASE Checked /\ Planning
  BY <1>1 DEF Planning, OperationsInv
<1>2. CASE diags = {} \/ diags = ValidateResources(resources)
  <2>1. \A d \in diags : d[1] # TakenKey
    BY <1>2, ValidationCodes
  <2>2. QED
    BY <2>1 DEF CollisionsExplained, TakenKey
<1>3. QED
  BY <1>1, <1>2 DEF IInv

\* The policy of a runtime is the same to validation and to the planner, when
\* only its ownership says whose it is.
LEMMA PolicyAgrees ==
  ASSUME NEW s \in Inputs, ValidateResources(s) = {}, NEW bs, NEW i \in Instances(s, bs),
         ValOf(ById(s, i.id), "external") # "true", i # defaultCDCInstance
  PROVE  LET res == ById(s, i.id) IN
         /\ res.id # NoId
         /\ i.policy = cdcManagementPolicy(ValOf(res, "managementPolicy"), ValOf(res, "ownership"))
         /\ i.ownership \in Foreign => ValOf(res, "ownership") = i.ownership
         /\ i.policy \in {"ManagedConnectors", "ObserveOnly"}
<1>1. \E classes : \E r \in Range(s) :
        r.id.kind = "CDCInstance" /\ i = cdcInstancePlan(r, classes) /\ i.id = r.id
  BY InstanceFacts
<1>2. PICK classes : \E r \in Range(s) :
        r.id.kind = "CDCInstance" /\ i = cdcInstancePlan(r, classes) /\ i.id = r.id
  BY <1>1
<1>3. PICK r \in Range(s) :
        r.id.kind = "CDCInstance" /\ i = cdcInstancePlan(r, classes) /\ i.id = r.id
  BY <1>2
<1>4. ById(s, i.id) = r
  BY <1>3, IndexFacts
<1>5. "managed" \notin Foreign /\ Unset \notin Foreign
  <2>1. "managed" \notin Foreign
    BY DEF Foreign
  <2>2. Unset \notin Foreign
    BY Zenon DEF Unset, Foreign
  <2>3. QED
    BY <2>1, <2>2
<1>6. i.ownership = stringDefault(ValOf(r, "ownership"), "managed")
  BY <1>3, <1>4 DEF cdcInstancePlan, resourceOwnership
<1>7. i.policy = cdcManagementPolicy(ValOf(r, "managementPolicy"), i.ownership)
  BY <1>3, <1>4 DEF cdcInstancePlan, resourceOwnership
<1>8. i.policy = cdcManagementPolicy(ValOf(r, "managementPolicy"), ValOf(r, "ownership"))
  BY <1>5, <1>6, <1>7 DEF cdcManagementPolicy, stringDefault
<1>9. i.ownership \in Foreign => ValOf(r, "ownership") = i.ownership
  BY <1>5, <1>6 DEF stringDefault
<1>10. ValOf(r, "managementPolicy") \in {Unset, "ManagedConnectors", "ObserveOnly"}
  <2> SUFFICES ASSUME ValOf(r, "managementPolicy") \notin {Unset, "ManagedConnectors", "ObserveOnly"}
               PROVE  FALSE
    OBVIOUS
  <2>1. <<"DCDC004", r.id>> \in validateCoreInvariants(r)
    BY <1>3 DEF validateCoreInvariants, Broken, Rule
  <2>2. QED
    BY <1>3, <2>1, ValidatedFacts
<1>11. i.policy \in {"ManagedConnectors", "ObserveOnly"}
  BY <1>8, <1>10 DEF cdcManagementPolicy
<1>12. r.id # NoId
  <2>1. Unset # "CDCInstance"
    BY Zenon DEF Unset
  <2>2. QED
    BY <1>3, <2>1 DEF NoId, Identity
<1>13. QED
  BY <1>3, <1>4, <1>8, <1>9, <1>11, <1>12

\* What validation has let through does not touch an observed runtime, nor the
\* worker of one that is not ours.
LEMMA OperationAllowed ==
  ASSUME NEW s \in Inputs, ValidateResources(s) = {},
         NEW op \in Range(OfKind(s, "CDCOperation")), NEW res,
         res = ById(s, operationCDCInstance(op, s)), res.id # NoId
  PROVE  LET policy == cdcManagementPolicy(ValOf(res, "managementPolicy"), ValOf(res, "ownership"))
         IN
         /\ policy = "ObserveOnly" => ~operationMutates(ValOf(op, "action"))
         /\ (ValOf(res, "ownership") \in Foreign /\ policy = "ManagedConnectors") =>
              ~operationManagesWorker(ValOf(op, "action"))
<1> DEFINE policy == cdcManagementPolicy(ValOf(res, "managementPolicy"), ValOf(res, "ownership"))
           all == OfKind(s, "CDCOperation")
<1>1. PICK k \in DOMAIN all : all[k] = op
  BY DEF Range
<1>2. operationDiags(all, k, s) = {}
  BY ValidatedFacts
<1>3. policy = "ObserveOnly" => ~operationMutates(ValOf(op, "action"))
  <2> SUFFICES ASSUME policy = "ObserveOnly", operationMutates(ValOf(op, "action"))
               PROVE  FALSE
    OBVIOUS
  <2>1. <<"DOPS005", op.id>> \in operationDiags(all, k, s)
    BY <1>1 DEF operationDiags, Broken, Rule
  <2>2. QED
    BY <1>2, <2>1
<1>4. (ValOf(res, "ownership") \in Foreign /\ policy = "ManagedConnectors") =>
        ~operationManagesWorker(ValOf(op, "action"))
  <2> SUFFICES ASSUME ValOf(res, "ownership") \in Foreign, policy = "ManagedConnectors",
                      operationManagesWorker(ValOf(op, "action"))
               PROVE  FALSE
    OBVIOUS
  <2>1. <<"DOPS006", op.id>> \in operationDiags(all, k, s)
    BY <1>1 DEF operationDiags, Broken, Rule
  <2>2. QED
    BY <1>2, <2>1
<1>5. QED
  BY <1>3, <1>4

LEMMA RuntimesRespected == IInv => NamedRuntimesRespected
<1> SUFFICES ASSUME IInv, Accepted, NEW k \in DOMAIN operations, NEW i \in instances,
                    i.id = operationCDCInstance(ById(resources, operations[k].id), resources),
                    ValOf(ById(resources, i.id), "external") # "true"
             PROVE  /\ i.policy = "ObserveOnly" => ~operations[k].mutates
                    /\ i.ownership \in Foreign => ~operationManagesWorker(operations[k].action)
  BY DEF NamedRuntimesRespected
<1>1. /\ resources \in Inputs /\ ValidateResources(resources) = {}
      /\ i \in Instances(resources, bindings) /\ OperationsInv
  BY AcceptedFacts DEF Planning, Checked
<1>2. PICK op \in Ops : operations[k] = PlanOf(op)
  BY <1>1, LenProperties DEF OperationsInv
<1>3. /\ operations[k].id = op.id /\ operations[k].action = ValOf(op, "action")
      /\ operations[k].mutates = operationMutatesPlan(ValOf(op, "action"))
  BY <1>2 DEF PlanOf, operationPlan
<1>4. ById(resources, op.id) = op
  BY <1>1, OperationValidated, IndexFacts DEF Ops
<1>5. CASE i = defaultCDCInstance
  BY <1>5 DEF defaultCDCInstance, Foreign
<1>6. CASE i # defaultCDCInstance
  <2> DEFINE res == ById(resources, i.id)
             policy == cdcManagementPolicy(ValOf(res, "managementPolicy"), ValOf(res, "ownership"))
  <2>1. /\ res.id # NoId /\ i.policy = policy
        /\ i.ownership \in Foreign => ValOf(res, "ownership") = i.ownership
        /\ i.policy \in {"ManagedConnectors", "ObserveOnly"}
    BY <1>1, <1>6, PolicyAgrees
  <2>2. res = ById(resources, operationCDCInstance(op, resources))
    BY <1>3, <1>4
  <2>3. op \in Range(OfKind(resources, "CDCOperation"))
    BY DEF Ops
  <2> HIDE DEF res
  <2>4. /\ policy = "ObserveOnly" => ~operationMutates(ValOf(op, "action"))
        /\ (ValOf(res, "ownership") \in Foreign /\ policy = "ManagedConnectors") =>
             ~operationManagesWorker(ValOf(op, "action"))
    BY <1>1, <2>1, <2>2, <2>3, OperationAllowed
  <2> HIDE DEF policy
  <2>5. i.policy = "ObserveOnly" => ~operations[k].mutates
    BY <1>3, <2>1, <2>4 DEF operationMutates, operationMutatesPlan
  <2>6. ~operationMutates(ValOf(op, "action")) => ~operationManagesWorker(ValOf(op, "action"))
    BY DEF operationMutates, operationManagesWorker, ReadOnlyActions
  <2>7. i.ownership \in Foreign => ~operationManagesWorker(operations[k].action)
    BY <1>3, <2>1, <2>4, <2>6
  <2>8. QED
    BY <2>5, <2>7
<1>7. QED
  BY <1>5, <1>6

\* The operations of an accepted plan have keys of their own and leave none that
\* is declared out; a key is refused for two namespaces that write one reference;
\* and no operation touches a runtime that is not ours to touch.
THEOREM OperationsAreSound == Spec => []OperationsSound
<1>1. IInv => OperationsSound
  BY KeysDistinct, Explained, RuntimesRespected DEF OperationsSound
<1>2. QED
  BY <1>1, SpecIInv, PTL


-----------------------------------------------------------------------------
(* The providers of a plan. *)

LEMMA PlatformFacts ==
  ASSUME NEW s \in Inputs, NEW kind
  PROVE  IsFiniteSet(Range(OfPlatform(s, kind)))
<1> DEFINE places == {k \in DOMAIN s : s[k].id.api = "platform" /\ s[k].id.kind = kind}
<1>1. OfPlatform(s, kind) = Selected(s, places)
  BY DEF OfPlatform
<1>2. places \in SUBSET DOMAIN s /\ s \in Seq(Range(s))
  BY SpecificationsAssumption
<1> HIDE DEF places
<1>3. OfPlatform(s, kind) \in Seq(Range(s))
  BY <1>1, <1>2, SelectedFacts
<1>4. QED
  BY <1>3, FiniteRange

LEMMA BuiltinsFinite == IsFiniteSet(BuiltinDescriptors)
<1>1. \A a, b, c, d, e, f, g : IsFiniteSet({a, b, c, d, e, f, g})
  <2> TAKE a, b, c, d, e, f, g
  <2> DEFINE s == <<a, b, c, d, e, f, g>>
             S == {a, b, c, d, e, f, g}
  <2>1. s \in Seq(S)
    OBVIOUS
  <2>2. DOMAIN s = {1, 2, 3, 4, 5, 6, 7}
    OBVIOUS
  <2>3. Range(s) = S
    BY <2>2 DEF Range
  <2> HIDE DEF s, S
  <2>4. IsFiniteSet(S)
    BY <2>1, <2>3, FiniteRange
  <2>5. QED
    BY <2>4 DEF S
<1>2. QED
  BY <1>1 DEF BuiltinDescriptors

\* The registry has finitely many instances, of identities that are those of
\* instances, and a provider for the plan's target of each.
LEMMA RegistryFacts ==
  ASSUME NEW s \in Inputs
  PROVE  LET registry == RegistryOf(s, target) IN
         /\ IsFiniteSet(registry.instances)
         /\ \A i \in registry.instances :
              /\ i.key.id = Identity("platform", "ProviderInstance", i.key.id.ns, i.key.id.name)
              /\ \E d \in DescriptorsOf(registry, i.provider) : targetCompatible(d, target)
<1> DEFINE
      providers == Range(OfPlatform(s, "Provider"))
      configs == {q \in Range(OfPlatform(s, "ProviderInstance")) : RefOf(q, "providerRef") # Absent}
      declared == {descriptorFromResource(r) : r \in providers}
      builtin == {d.id : d \in BuiltinDescriptors}
      descriptors == BuiltinDescriptors
        \cup {d \in declared : d.capabilities # {} /\ d.id \notin builtin}
      configured == {instanceFromResource(r, target) : r \in configs}
      taken == {i.key : i \in BuiltinInstances(target)}
      all == BuiltinInstances(target) \cup {k \in configured : k.key \notin taken}
      inherit(i) ==
        IF i.capabilities # {} THEN i
        ELSE [i EXCEPT !.capabilities =
                UNION {d.capabilities : d \in {e \in descriptors : e.id = i.provider}}]
      registry == RegistryOf(s, target)
<1>1. registry = [descriptors |-> descriptors, instances |-> {inherit(i) : i \in all}]
  BY DEF RegistryOf
<1>2. \A d \in BuiltinDescriptors : d.targets = {"compose"}
  <2>1. \A n, y, c, k, v : Builtin(n, y, c, k, v).targets = {"compose"}
    BY DEF Builtin, Descriptor
  <2>2. \A d \in BuiltinDescriptors : \E n, y, c, k, v : d = Builtin(n, y, c, k, v)
    BY DEF BuiltinDescriptors
  <2>3. QED
    BY <2>1, <2>2
<1>3. IsFiniteSet(all)
  <2>1. IsFiniteSet(BuiltinInstances(target))
    <3> DEFINE f == [d \in BuiltinDescriptors |->
                       Instance(InstanceId(Default, d.id.name, IF target = Unset THEN "compose" ELSE target),
                                d.id, d.capabilities)]
    <3>1. BuiltinInstances(target) = {f[d] : d \in BuiltinDescriptors}
      BY DEF BuiltinInstances
    <3> HIDE DEF f
    <3>2. QED
      BY <3>1, BuiltinsFinite, FiniteImage
  <2>2. IsFiniteSet(configured)
    <3> DEFINE f == [r \in configs |-> instanceFromResource(r, target)]
    <3>1. IsFiniteSet(configs)
      <4>1. configs \in SUBSET Range(OfPlatform(s, "ProviderInstance"))
        OBVIOUS
      <4> HIDE DEF configs
      <4>2. QED
        BY <4>1, PlatformFacts, FS_Subset
    <3>2. configured = {f[r] : r \in configs}
      OBVIOUS
    <3> HIDE DEF f, configs, configured
    <3>3. QED
      BY <3>1, <3>2, FiniteImage
  <2>3. all \in SUBSET (BuiltinInstances(target) \cup configured)
    OBVIOUS
  <2> HIDE DEF all, configured
  <2>4. QED
    BY <2>1, <2>2, <2>3, FS_Union, FS_Subset
<1>4. IsFiniteSet({inherit(i) : i \in all})
  <2> DEFINE f == [i \in all |-> inherit(i)]
  <2>1. {inherit(i) : i \in all} = {f[i] : i \in all}
    OBVIOUS
  <2> HIDE DEF f, all, inherit
  <2>2. QED
    BY <1>3, <2>1, FiniteImage
<1>5. \A i \in all :
        /\ inherit(i).key = i.key /\ inherit(i).provider = i.provider
        /\ i.key.id = Identity("platform", "ProviderInstance", i.key.id.ns, i.key.id.name)
  <2>1. \A i \in all : \E key, provider, capabilities :
          /\ i = Instance(key, provider, capabilities)
          /\ key.id = Identity("platform", "ProviderInstance", key.id.ns, key.id.name)
    <3>1. \A ns, name, t : LET key == InstanceId(ns, name, t) IN
            key.id = Identity("platform", "ProviderInstance", key.id.ns, key.id.name)
      BY DEF InstanceId, Identity
    <3>2. \A i \in BuiltinInstances(target) : \E ns, name, t, provider, capabilities :
            i = Instance(InstanceId(ns, name, t), provider, capabilities)
      BY DEF BuiltinInstances
    <3>3. \A i \in configured : \E ns, name, t, provider, capabilities :
            i = Instance(InstanceId(ns, name, t), provider, capabilities)
      BY DEF instanceFromResource
    <3> HIDE DEF configured
    <3>4. QED
      BY <3>1, <3>2, <3>3
  <2> HIDE DEF all, descriptors
  <2>2. QED
    BY <2>1 DEF Instance
<1>6. \A i \in all : \E d \in descriptors : d.id = i.provider /\ targetCompatible(d, target)
  <2>1. CASE target = Unset
    <3> SUFFICES ASSUME NEW i \in all PROVE \E d \in descriptors : d.id = i.provider
      BY <2>1 DEF targetCompatible
    <3>1. CASE i \in BuiltinInstances(target)
      BY <3>1 DEF BuiltinInstances, Instance
    <3>2. CASE i \in configured
      <4>1. PICK q \in configs : i = instanceFromResource(q, target)
        BY <3>2
      <4>2. PICK p \in providers : p.id = i.provider
        BY <4>1, ProvidersAssumption
      <4>3. descriptorFromResource(p) \in descriptors
        BY <4>2, ProvidersAssumption DEF descriptorFromResource
      <4>4. QED
        BY <4>2, <4>3 DEF descriptorFromResource
    <3>3. QED
      BY <3>1, <3>2
  <2>2. CASE target = "compose"
    <3> TAKE i \in all
    <3>1. CASE i \in BuiltinInstances(target)
      <4>1. PICK d \in BuiltinDescriptors : i.provider = d.id
        BY <3>1 DEF BuiltinInstances, Instance
      <4>2. targetCompatible(d, target)
        BY <1>2, <2>2 DEF targetCompatible
      <4>3. QED
        BY <4>1, <4>2
    <3>2. CASE i \in configured
      <4>1. PICK q \in configs : i = instanceFromResource(q, target)
        BY <3>2
      <4>2. PICK p \in providers :
              p.id = i.provider /\ targetCompatible(descriptorFromResource(p), target)
        BY <4>1, ProvidersAssumption
      <4>3. descriptorFromResource(p) \in descriptors
        BY <4>2, ProvidersAssumption DEF descriptorFromResource
      <4>4. QED
        BY <4>2, <4>3 DEF descriptorFromResource
    <3>3. QED
      BY <3>1, <3>2
  <2>3. QED
    BY <2>1, <2>2, TargetAssumption
<1>7. \A i \in registry.instances :
        /\ i.key.id = Identity("platform", "ProviderInstance", i.key.id.ns, i.key.id.name)
        /\ \E d \in DescriptorsOf(registry, i.provider) : targetCompatible(d, target)
  <2> SUFFICES ASSUME NEW i \in registry.instances
               PROVE  /\ i.key.id = Identity("platform", "ProviderInstance", i.key.id.ns, i.key.id.name)
                      /\ \E d \in DescriptorsOf(registry, i.provider) : targetCompatible(d, target)
    OBVIOUS
  <2> HIDE DEF descriptors, all, inherit, registry
  <2>1. PICK j \in all : i = inherit(j)
    BY <1>1
  <2>2. registry.descriptors = descriptors
    BY <1>1
  <2>3. i.key = j.key /\ i.provider = j.provider
    BY <1>5, <2>1
  <2>4. QED
    BY <1>5, <1>6, <2>2, <2>3 DEF DescriptorsOf
<1>8. registry.instances = {inherit(i) : i \in all}
  BY <1>1
<1> HIDE DEF descriptors, all, inherit, registry
<1>9. QED
  BY <1>4, <1>7, <1>8 DEF registry

\* Exactly one candidate is all of the candidates.
LEMMA SoleFacts ==
  ASSUME NEW S, IsFiniteSet(S), Sole(S) # {}
  PROVE  Sole(S) = S /\ \E x : S = {x}
<1>1. Cardinality(S) = 1 /\ Sole(S) = S
  BY DEF Sole
<1>2. QED
  BY <1>1, FS_Singleton

Needs == requirements(resources, bindings, target)
Served(n) == {i.key.id : i \in Serving(reg, n, target)}

\* Each need of an accepted plan is served by one instance, the one it asks for
\* if it asks for one.
LEMMA NeedsServed ==
  ASSUME IInv, Accepted
  PROVE  /\ \A n \in Needs : Serving(reg, n, target) # {} /\ \E x : Served(n) = {x}
         /\ \A n \in Needs : n.requested # NoId => Served(n) = {n.requested}
         /\ \A n \in Needs : n.requested = NoId =>
              /\ \E i : CapabilityCandidates(reg, n.capability, target) = {i}
              /\ Serving(reg, n, target) = CapabilityCandidates(reg, n.capability, target)
         /\ \A c, q : ServedBy(c, q) =
              UNION {Served(n) : n \in {m \in Needs : m.capability = c /\ m.requester = q}}
<1>1. /\ planned = plannedProviderResources(reg, Needs, target)
      /\ plannedDiags(reg, Needs, target) = {}
      /\ reg = RegistryOf(resources, target) /\ resources \in Inputs
  BY AcceptedFacts DEF Accepted, Planning, PlannedInv, ResolvedInv, Needs
<1>2. \A n \in Needs : Serving(reg, n, target) # {}
  BY <1>1 DEF plannedDiags
<1>3. \A n \in Needs : n.requested # NoId => Served(n) = {n.requested}
  <2> SUFFICES ASSUME NEW n \in Needs, n.requested # NoId PROVE Served(n) = {n.requested}
    OBVIOUS
  <2>1. \A i \in Serving(reg, n, target) : i.key.id = n.requested
    BY DEF Serving, InstancesOf, InstanceKey
  <2>2. QED
    BY <1>2, <2>1 DEF Served
<1>4. \A n \in Needs : n.requested = NoId =>
        /\ \E i : CapabilityCandidates(reg, n.capability, target) = {i}
        /\ Serving(reg, n, target) = CapabilityCandidates(reg, n.capability, target)
  <2> SUFFICES ASSUME NEW n \in Needs, n.requested = NoId
               PROVE  /\ \E i : CapabilityCandidates(reg, n.capability, target) = {i}
                      /\ Serving(reg, n, target) = CapabilityCandidates(reg, n.capability, target)
    OBVIOUS
  <2>1. Serving(reg, n, target) = Sole(CapabilityCandidates(reg, n.capability, target))
    BY DEF Serving, ResolveCapability
  <2>2. IsFiniteSet(reg.instances)
    BY <1>1, RegistryFacts
  <2>3. CapabilityCandidates(reg, n.capability, target) \in SUBSET reg.instances
    BY DEF CapabilityCandidates
  <2>4. IsFiniteSet(CapabilityCandidates(reg, n.capability, target))
    BY <2>2, <2>3, FS_Subset
  <2>5. QED
    BY <1>2, <2>1, <2>4, SoleFacts
<1>5. \A n \in Needs : \E x : Served(n) = {x}
  <2> SUFFICES ASSUME NEW n \in Needs, n.requested = NoId PROVE \E x : Served(n) = {x}
    BY <1>3
  <2>1. PICK i : Serving(reg, n, target) = {i}
    BY <1>4
  <2>2. Served(n) = {i.key.id}
    BY <2>1 DEF Served
  <2>3. QED
    BY <2>2
<1>6. \A c, q : ServedBy(c, q) =
        UNION {Served(n) : n \in {m \in Needs : m.capability = c /\ m.requester = q}}
  <2> TAKE c, q
  <2>1. \A x : x \in ServedBy(c, q) <=>
          \E n \in Needs : n.capability = c /\ n.requester = q /\ x \in Served(n)
    <3> DEFINE made(n, i) ==
                 [capability |-> n.capability, requester |-> n.requester, instance |-> i.key.id,
                  provider |-> i.provider,
                  services |-> servicesForCapability(DescriptorOf(reg, i).services, n.capability)]
    <3>1. planned = UNION {{made(n, i) : i \in Serving(reg, n, target)} : n \in Needs}
      BY <1>1 DEF plannedProviderResources
    <3>2. \A n, i : /\ made(n, i).capability = n.capability /\ made(n, i).requester = n.requester
                   /\ made(n, i).instance = i.key.id
      OBVIOUS
    <3> HIDE DEF made
    <3>3. \A p : p \in planned <=> \E n \in Needs : \E i \in Serving(reg, n, target) : p = made(n, i)
      BY <3>1
    <3>4. \A x : x \in ServedBy(c, q) <=>
            \E p \in planned : p.capability = c /\ p.requester = q /\ x = p.instance
      BY DEF ServedBy
    <3>5. \A n, x : x \in Served(n) <=> \E i \in Serving(reg, n, target) : x = i.key.id
      BY DEF Served
    <3>6. QED
      BY <3>2, <3>3, <3>4, <3>5
  <2>2. QED
    BY <2>1
<1>7. QED
  BY <1>2, <1>3, <1>4, <1>5, <1>6

\* What a plan needs: what its resources need, what its bindings need, and what
\* runs the bundle.
LEMMA NeedsOf ==
  /\ \A n \in Needs :
       \/ \E r \in Range(resources) : \E c \in resourceCapabilities(r, resources) :
            n = Requirement(c, r.id, providerInstanceForResource(r.id, resources))
       \/ \E b \in bindings : LiveBinding(b) /\ n \in bindingRequirements(b, resources)
       \/ n = Requirement("runtime.utility", composeRuntime, NoId)
  /\ \A b \in bindings : LiveBinding(b) => bindingRequirements(b, resources) \subseteq Needs
<1> DEFINE declared == resourceRequirements(resources)
             \cup (UNION {bindingRequirements(b, resources) : b \in {c \in bindings : LiveBinding(c)}})
<1>1. /\ declared \subseteq Needs
      /\ Needs \subseteq declared \cup {Requirement("runtime.utility", composeRuntime, NoId)}
  BY DEF Needs, requirements
<1>2. \A n \in resourceRequirements(resources) :
        \E r \in Range(resources) : \E c \in resourceCapabilities(r, resources) :
          n = Requirement(c, r.id, providerInstanceForResource(r.id, resources))
  BY DEF resourceRequirements
<1>3. QED
  BY <1>1, <1>2

\* A binding that is resolved and the resource it comes from.
LEMMA BindingOf ==
  ASSUME IInv, Accepted, NEW b \in bindings
  PROVE  \E r \in ResolvableIn(resources) :
           /\ b = Resolving(r, resources, target) /\ b.id = r.id /\ ById(resources, b.id) = r
           /\ Reported(r, resources, target) = {}
           /\ r.id.kind \in DOMAIN EndFields
<1>1. /\ resources \in Inputs /\ ValidateResources(resources) = {}
      /\ ResolutionDiagsOf(resources, target) = {}
      /\ bindings = ResolvedOf(resources, target)
  BY AcceptedFacts DEF Checked
<1>2. PICK r \in ResolvableIn(resources) :
        b = Resolving(r, resources, target) /\ b.id = r.id /\ ById(resources, b.id) = r
  BY <1>1, BindingFacts
<1>3. Reported(r, resources, target) = {}
  BY <1>1, NothingReported
<1>4. r.id.kind \in DOMAIN EndFields
  BY DEF ResolvableIn, IsBinding
<1>5. QED
  BY <1>2, <1>3, <1>4

\* The needs of a binding are those that are planned for it, and those it
\* states in its own name.
LEMMA NeedsOfBinding ==
  ASSUME IInv, Accepted, NEW b \in bindings, NEW n \in Needs, n.requester = b.id
  PROVE  \/ n \in bindingRequirements(b, resources)
         \/ /\ AsksItself(b, n.capability)
            /\ n.requested = providerInstanceForResource(b.id, resources)
<1>1. /\ resources \in Inputs /\ ValidateResources(resources) = {}
      /\ bindings = ResolvedOf(resources, target)
  BY AcceptedFacts DEF Checked
<1>2. CASE \E r \in Range(resources) : \E c \in resourceCapabilities(r, resources) :
             n = Requirement(c, r.id, providerInstanceForResource(r.id, resources))
  <2>0. PICK r \in Range(resources) : \E c \in resourceCapabilities(r, resources) :
          n = Requirement(c, r.id, providerInstanceForResource(r.id, resources))
    BY <1>2
  <2>1. PICK c \in resourceCapabilities(r, resources) :
          n = Requirement(c, r.id, providerInstanceForResource(r.id, resources))
    BY <2>0
  <2>2. /\ n.requester = r.id /\ n.capability = c
        /\ n.requested = providerInstanceForResource(r.id, resources)
    BY <2>1 DEF Requirement
  <2>3. ById(resources, b.id) = r
    BY <1>1, <2>2, IndexFacts
  <2>4. QED
    BY <2>1, <2>2, <2>3 DEF AsksItself
<1>3. CASE \E d \in bindings : LiveBinding(d) /\ n \in bindingRequirements(d, resources)
  <2>1. PICK d \in bindings : n \in bindingRequirements(d, resources)
    BY <1>3
  <2>2. n.requester = d.id
    BY <2>1 DEF bindingRequirements, Requirement
  <2>3. d = b
    BY <1>1, <2>2, BindingFacts
  <2>4. QED
    BY <2>1, <2>3
<1>4. CASE n = Requirement("runtime.utility", composeRuntime, NoId)
  <2>1. b.id.kind = "Target"
    BY <1>4 DEF Requirement, composeRuntime, Identity
  <2>2. b.id.kind \in DOMAIN EndFields
    BY BindingOf
  <2>3. QED
    BY <2>1, <2>2 DEF EndFields
<1>5. QED
  BY <1>2, <1>3, <1>4, NeedsOf

\* A binding has the provider it names, whether the resolver reads the reference
\* or the planner.
LEMMA SameReference ==
  ASSUME NEW s \in Inputs, NEW r, NEW id, id = RefId(r, "providerInstanceRef"),
         InstancesOf(RegistryOf(s, target), InstanceKey(id, target)) # {}
  PROVE  providerInstanceIdentity(RefOf(r, "providerInstanceRef"), r) = id
<1> DEFINE ref == RefOf(r, "providerInstanceRef")
<1>1. PICK i \in RegistryOf(s, target).instances : i.key = InstanceKey(id, target)
  BY DEF InstancesOf
<1>2. id = Identity("platform", "ProviderInstance", id.ns, id.name)
  BY <1>1, RegistryFacts DEF InstanceKey
<1>3. id.kind = "ProviderInstance" /\ id.kind # Unset /\ id.kind \notin ClusterScoped
  <2>1. id.kind = "ProviderInstance"
    BY <1>2 DEF Identity
  <2>2. "ProviderInstance" # Unset
    BY Zenon DEF Unset
  <2>3. QED
    BY <2>1, <2>2 DEF ClusterScoped
<1>4. id = parseRef(ref, r)
  BY DEF RefId
<1>5. ref.parts \in {2, 3, 5}
  BY <1>3, <1>4 DEF parseRef, NoId, Identity
<1>6. /\ id.kind = ref.kind /\ id.name = ref.name
      /\ id.ns = IF ref.kind \in ClusterScoped THEN Default
                 ELSE IF ref.parts = 2 THEN r.id.ns ELSE ref.ns
  BY <1>4, <1>5 DEF parseRef, Identity
<1> HIDE DEF ref
<1>7. providerInstanceIdentity(ref, r) =
        Identity("platform", "ProviderInstance", IF ref.parts = 2 THEN r.id.ns ELSE ref.ns, ref.name)
  BY <1>5 DEF providerInstanceIdentity
<1>8. QED
  BY <1>2, <1>3, <1>6, <1>7 DEF ref

\* The capability of a live binding is served by its provider, once.
LEMMA OwnProvider ==
  ASSUME IInv, Accepted, NEW b \in bindings, LiveBinding(b)
  PROVE  ServedBy(b.capability, b.id) = {b.provider}
<1> DEFINE own == Requirement(b.capability, b.id, b.provider)
<1>1. /\ resources \in Inputs /\ ValidateResources(resources) = {}
      /\ ResolutionDiagsOf(resources, target) = {}
      /\ bindings = ResolvedOf(resources, target) /\ reg = RegistryOf(resources, target)
  BY AcceptedFacts DEF Checked, Planning, ResolvedInv
<1>2. PICK r \in ResolvableIn(resources) :
        /\ b = Resolving(r, resources, target) /\ b.id = r.id /\ ById(resources, b.id) = r
        /\ Reported(r, resources, target) = {}
  BY BindingOf
<1>3. b.provider # NoId
  BY <1>1, ProviderReported
<1>4. own \in Needs
  BY NeedsOf DEF bindingRequirements
<1>5. /\ own.capability = b.capability /\ own.requester = b.id /\ own.requested = b.provider
  BY DEF Requirement
<1> HIDE DEF own
<1>6. \A n \in Needs : (n.capability = b.capability /\ n.requester = b.id) =>
        Served(n) = {b.provider}
  <2> SUFFICES ASSUME NEW n \in Needs, n.capability = b.capability, n.requester = b.id
               PROVE  Served(n) = {b.provider}
    OBVIOUS
  <2>1. CASE n \in bindingRequirements(b, resources)
    <3>1. n = own
      BY <2>1 DEF bindingRequirements, Requirement, own
    <3>2. QED
      BY <1>3, <1>5, <3>1, NeedsServed
  <2>2. CASE n.requested = providerInstanceForResource(b.id, resources)
    <3> DEFINE ref == RefOf(r, "providerInstanceRef")
    <3>1. n.requested = providerInstanceIdentity(ref, r)
      BY <1>2, <2>2 DEF providerInstanceForResource
    <3>2. CASE ref # Absent
      <4>1. b.provider = RefId(r, "providerInstanceRef")
        BY <1>2, <3>2 DEF Resolving, resolveBinding, chooseProvider
      <4>2. InstancesOf(reg, InstanceKey(b.provider, target)) # {}
        <5> SUFFICES ASSUME InstancesOf(reg, InstanceKey(b.provider, target)) = {} PROVE FALSE
          OBVIOUS
        <5>1. "DBIND012" \in Reported(r, resources, target)
          BY <1>1, <3>2, <4>1 DEF Reported, resolutionDiags
        <5>2. QED
          BY <1>2, <5>1
      <4>3. n.requested = b.provider
        BY <1>1, <3>1, <4>1, <4>2, SameReference
      <4>4. QED
        BY <1>3, <4>3, NeedsServed
    <3>3. CASE ref = Absent
      <4>1. n.requested = NoId
        BY <3>1, <3>3 DEF providerInstanceIdentity, Absent, Ref
      <4>2. PICK i : CapabilityCandidates(reg, b.capability, target) = {i}
        BY <4>1, NeedsServed
      <4>3. Serving(reg, n, target) = {i}
        BY <4>1, <4>2, NeedsServed
      <4>4. PICK k \in Serving(reg, own, target) : TRUE
        BY <1>4, NeedsServed
      <4>5. /\ k \in reg.instances /\ k.key = InstanceKey(b.provider, target)
            /\ b.capability \in k.capabilities
        BY <1>3, <1>5, <4>4 DEF Serving, InstancesOf
      <4>6. k.key.target = target /\ k.key.id = b.provider
        BY <4>5 DEF InstanceKey
      <4>7. \E d \in DescriptorsOf(reg, k.provider) : targetCompatible(d, target)
        BY <1>1, <4>5, RegistryFacts
      <4>8. k \in CapabilityCandidates(reg, b.capability, target)
        BY <4>5, <4>6, <4>7 DEF CapabilityCandidates
      <4>9. QED
        BY <4>2, <4>3, <4>6, <4>8 DEF Served
    <3>4. QED
      BY <3>2, <3>3
  <2>3. QED
    BY <2>1, <2>2, NeedsOfBinding
<1>7. Served(own) = {b.provider}
  BY <1>4, <1>5, <1>6
<1>8. ServedBy(b.capability, b.id) =
        UNION {Served(n) : n \in {m \in Needs : m.capability = b.capability /\ m.requester = b.id}}
  BY NeedsServed
<1> HIDE DEF Served, Needs
<1>9. \A x : x \in ServedBy(b.capability, b.id) <=> x = b.provider
  BY <1>4, <1>5, <1>6, <1>8
<1>10. QED
  BY <1>9

\* Only a change-data-capture binding depends on a database or a stream it does
\* not offer itself, and it has its ends of those kinds.
LEMMA CaptureClosure ==
  ASSUME NEW capability \in DOMAIN BuiltinRegistry.byCapability,
         NEW c \in {"source.relational", "stream.publish"},
         c \in BuiltinRegistry.byCapability[capability].closure \ {capability}
  PROVE  /\ BuiltinRegistry.byCapability[capability].sources = Kinds({"RelationalSource"})
         /\ BuiltinRegistry.byCapability[capability].targets = Kinds({"EventStream"})
<1> DEFINE def == BuiltinRegistry.byCapability[capability]
<1>1. def \in BuiltinDefinitions /\ def.capability = capability
  BY DEF BuiltinRegistry
<1>2. \A n, k, y, s, t, p, u : LET d == Definition(n, k, y, s, t, p, u) IN
        d.capability = y /\ d.sources = s /\ d.targets = t /\ d.closure = u
  BY DEF Definition
<1>3. \A d \in BuiltinDefinitions :
        \/ d.sources = Kinds({"RelationalSource"}) /\ d.targets = Kinds({"EventStream"})
        \/ {"source.relational", "stream.publish"} \cap (d.closure \ {d.capability}) = {}
  BY <1>2 DEF BuiltinDefinitions
<1> HIDE DEF def
<1>4. QED
  BY <1>1, <1>3 DEF def

LEMMA EndKind ==
  ASSUME NEW ref, NEW id, NEW required, NEW allowed, NEW kind, allowed = Kinds({kind}), NEW s,
         NEW missing, NEW malformed, NEW unknown, NEW code,
         code \notin endDiags(ref, id, required, allowed, s, missing, malformed, unknown, code)
  PROVE  id = NoId \/ id.kind = kind
<1>1. allowed = {<<apiVersionForKind(kind), kind>>}
  BY DEF Kinds
<1>2. QED
  BY <1>1 DEF endDiags

\* A binding that depends on its database or its stream has none that is a
\* binding itself.
LEMMA CaptureEnds ==
  ASSUME IInv, Accepted, NEW b \in bindings,
         NEW c \in {"source.relational", "stream.publish"}, c \in b.closure \ {b.capability}
  PROVE  /\ b.source = NoId \/ b.source.kind = "RelationalSource"
         /\ b.target = NoId \/ b.target.kind = "EventStream"
<1>1. PICK r \in ResolvableIn(resources) :
        b = Resolving(r, resources, target) /\ Reported(r, resources, target) = {}
  BY BindingOf
<1> DEFINE capability == bindingCapability(r, BuiltinRegistry)
           def == BuiltinRegistry.byCapability[capability]
<1>2. capability \in DOMAIN BuiltinRegistry.byCapability
  BY DEF ResolvableIn
<1>3. b.capability = capability /\ b.closure = def.closure
  BY <1>1 DEF Resolving, resolveBinding
<1>4. def.sources = Kinds({"RelationalSource"}) /\ def.targets = Kinds({"EventStream"})
  BY <1>2, <1>3, CaptureClosure
<1> HIDE DEF capability, def
<1>5. Reported(r, resources, target) =
        resolutionDiags(r, capability, def, b, resources, RegistryOf(resources, target), target)
  BY <1>1 DEF Reported, capability, def
<1>6. /\ "DBIND009" \notin endDiags(SourceRef(r), b.source, r.id.kind # "Binding", def.sources,
                                 resources, "DBIND014", "DBIND006", "DBIND008", "DBIND009")
      /\ "DBIND011" \notin endDiags(TargetRef(r), b.target, r.id.kind # "Binding", def.targets,
                                 resources, "DBIND014", "DBIND007", "DBIND010", "DBIND011")
  BY <1>1, <1>5 DEF resolutionDiags
<1> DEFINE typed == r.id.kind # "Binding"
           from == SourceRef(r)
           to == TargetRef(r)
<1> HIDE DEF typed, from, to
<1>7. b.source = NoId \/ b.source.kind = "RelationalSource"
  <2>1. "DBIND009" \notin endDiags(from, b.source, typed, def.sources, resources,
                                  "DBIND014", "DBIND006", "DBIND008", "DBIND009")
    BY <1>6 DEF from, typed
  <2>2. QED
    BY <1>4, <2>1, EndKind
<1>8. b.target = NoId \/ b.target.kind = "EventStream"
  <2>1. "DBIND011" \notin endDiags(to, b.target, typed, def.targets, resources,
                                  "DBIND014", "DBIND007", "DBIND010", "DBIND011")
    BY <1>6 DEF to, typed
  <2>2. QED
    BY <1>4, <2>1, EndKind
<1>9. QED
  BY <1>7, <1>8

\* Each dependency of a live binding that is not the source of another, and that
\* the binding does not ask for itself, is one need.
LEMMA DependencyNeed ==
  ASSUME IInv, Accepted, NEW b \in bindings, LiveBinding(b),
         NEW c \in b.closure \ {b.capability}, ~Outside(b, c), ~AsksItself(b, c)
  PROVE  LET need == Requirement(c, b.id, bindingDependencyProviderInstance(b, c, resources)) IN
         need \in Needs /\ ServedBy(c, b.id) = Served(need)
<1> DEFINE need == Requirement(c, b.id, bindingDependencyProviderInstance(b, c, resources))
<1>1. ~skipBindingDependencyCapability(b, c, resources)
  BY DEF skipBindingDependencyCapability, Outside
<1>2. need \in bindingRequirements(b, resources)
  BY <1>1 DEF bindingRequirements
<1>3. need \in Needs
  BY <1>2, NeedsOf
<1>4. need.capability = c /\ need.requester = b.id
  BY DEF Requirement
<1>5. \A n \in Needs : (n.capability = c /\ n.requester = b.id) => n = need
  <2> SUFFICES ASSUME NEW n \in Needs, n.capability = c, n.requester = b.id PROVE n = need
    OBVIOUS
  <2>1. n \in bindingRequirements(b, resources)
    BY NeedsOfBinding
  <2>2. QED
    BY <2>1 DEF bindingRequirements, Requirement
<1>6. ServedBy(c, b.id) =
        UNION {Served(n) : n \in {m \in Needs : m.capability = c /\ m.requester = b.id}}
  BY NeedsServed
<1> HIDE DEF need, Served, Needs
<1>7. {m \in Needs : m.capability = c /\ m.requester = b.id} = {need}
  BY <1>3, <1>4, <1>5
<1>8. ServedBy(c, b.id) = Served(need)
  BY <1>6, <1>7
<1>9. QED
  BY <1>3, <1>8 DEF need

LEMMA DependencyServed ==
  ASSUME IInv, Accepted, NEW b \in bindings, LiveBinding(b),
         NEW c \in b.closure \ {b.capability}, ~Outside(b, c), ~AsksItself(b, c)
  PROVE  LET end == IF c = "source.relational" THEN b.source ELSE b.target IN
         /\ Cardinality(ServedBy(c, b.id)) = 1
         /\ (c \in {"source.relational", "stream.publish"} /\ ServedBy(c, end) # {}) =>
              ServedBy(c, b.id) = ServedBy(c, end)
<1> DEFINE end == IF c = "source.relational" THEN b.source ELSE b.target
           requested == bindingDependencyProviderInstance(b, c, resources)
           need == Requirement(c, b.id, requested)
<1>1. need \in Needs /\ ServedBy(c, b.id) = Served(need)
  BY DependencyNeed
<1>2. Cardinality(ServedBy(c, b.id)) = 1
  <2>1. PICK x : Served(need) = {x}
    BY <1>1, NeedsServed
  <2>2. QED
    BY <1>1, <2>1, FS_Singleton
<1>3. need.capability = c /\ need.requested = requested
  BY DEF Requirement
<1>4. ASSUME c \in {"source.relational", "stream.publish"}, ServedBy(c, end) # {}
      PROVE  ServedBy(c, b.id) = ServedBy(c, end)
  <2>1. requested = providerInstanceForResource(end, resources)
    BY <1>4 DEF bindingDependencyProviderInstance
  <2>2. end = NoId \/ end.kind \in {"RelationalSource", "EventStream"}
    BY <1>4, CaptureEnds
  <2>3. end.kind \notin DOMAIN EndFields \cup {"Target"}
    <3>1. Unset \notin {"Binding", "CDCBinding", "StreamPublishBinding", "StreamArchiveBinding",
                        "LineageBinding", "AuditBinding", "PipelineBinding", "AccessBinding",
                        "BatchIngestBinding", "StreamIngestBinding", "TransformBinding",
                        "VolumeMountBinding", "Target"}
      BY Zenon DEF Unset
    <3>2. NoId.kind = Unset
      BY DEF NoId, Identity
    <3>3. end.kind \in {Unset, "RelationalSource", "EventStream"}
      BY <2>2, <3>2
    <3> HIDE DEF end
    <3>4. QED
      BY <3>1, <3>3 DEF EndFields
  <2> HIDE DEF end, requested
  <2>4. \A n \in Needs : (n.capability = c /\ n.requester = end) => Served(n) = Served(need)
    <3> SUFFICES ASSUME NEW n \in Needs, n.capability = c, n.requester = end
                 PROVE  Served(n) = Served(need)
      OBVIOUS
    <3>1. \A d \in bindings : n \notin bindingRequirements(d, resources)
      <4> SUFFICES ASSUME NEW d \in bindings, n \in bindingRequirements(d, resources) PROVE FALSE
        OBVIOUS
      <4>1. n.requester = d.id
        BY DEF bindingRequirements, Requirement
      <4>2. d.id.kind \in DOMAIN EndFields
        BY BindingOf
      <4>3. QED
        BY <2>3, <4>1, <4>2
    <3>2. n # Requirement("runtime.utility", composeRuntime, NoId)
      BY <2>3 DEF Requirement, composeRuntime, Identity
    <3>3. n.requested = requested
      <4>1. PICK r \in Range(resources) : \E k \in resourceCapabilities(r, resources) :
              n = Requirement(k, r.id, providerInstanceForResource(r.id, resources))
        BY <3>1, <3>2, NeedsOf
      <4>2. QED
        BY <2>1, <4>1 DEF Requirement
    <3> HIDE DEF need
    <3>4. Serving(reg, n, target) = Serving(reg, need, target)
      BY <1>3, <3>3 DEF Serving
    <3>5. QED
      BY <3>4 DEF Served
  <2>5. ServedBy(c, end) =
          UNION {Served(n) : n \in {m \in Needs : m.capability = c /\ m.requester = end}}
    BY NeedsServed
  <2> HIDE DEF Served, Needs, need
  <2>6. ServedBy(c, end) = Served(need)
    BY <1>4, <2>4, <2>5
  <2>7. QED
    BY <1>1, <2>6
<1>5. QED
  BY <1>2, <1>4

\* What the policy requires is the capability of a live binding, which is served.
LEMMA PolicyServed ==
  ASSUME IInv, Accepted, NEW c \in effectivePolicy(resources).required
  PROVE  \E p \in planned : p.capability = c
<1>1. resourceGraphDiags(resources, bindings) = {}
  BY AcceptedFacts DEF Accepted, Planning, ResolvedInv
<1>2. validatePolicyRequirements(effectivePolicy(resources), bindings) = {}
  BY <1>1 DEF resourceGraphDiags
<1> DEFINE policy == effectivePolicy(resources)
           required == policy.required
           offered == {b.capability : b \in {d \in bindings : LiveBinding(d)}}
<1>3. {<<IF k = "lineage.admit" THEN "DGRAPH007" ELSE "DGRAPH008", policy.id>> :
          k \in required \ offered} = {}
  BY <1>2 DEF validatePolicyRequirements
<1> HIDE DEF required, offered, policy
<1>4. required \ offered = {}
  <2> DEFINE code(k) == <<IF k = "lineage.admit" THEN "DGRAPH007" ELSE "DGRAPH008", policy.id>>
  <2>1. {code(k) : k \in required \ offered} = {}
    BY <1>3
  <2> HIDE DEF code
  <2>2. QED
    BY <2>1
<1>5. PICK b \in bindings : LiveBinding(b) /\ b.capability = c
  BY <1>4 DEF required, offered, policy
<1>6. ServedBy(c, b.id) = {b.provider}
  BY <1>5, OwnProvider
<1>7. QED
  BY <1>6 DEF ServedBy

\* In an accepted plan a live binding has the provider the resolver gave it, each
\* of its dependencies has one, that of its end, and what the policy requires is
\* there: the resolver and the planner, which select by themselves, agree.
THEOREM PlanIsServed == Spec => []PlanServed
<1>1. IInv => PlanServed
  BY OwnProvider, DependencyServed, PolicyServed DEF PlanServed
<1>2. QED
  BY <1>1, SpecIInv, PTL


-----------------------------------------------------------------------------
(* The services of a bundle. *)

LEMMA AnswersFacts ==
  ASSUME NEW answers, \A x \in DOMAIN answers : answers[x] # {}, NEW f \in Answers(answers)
  PROVE  DOMAIN f = DOMAIN answers /\ \A x \in DOMAIN answers : f[x] \in answers[x]
<1> DEFINE loose == {x \in DOMAIN answers : \E a, b \in answers[x] : a # b}
           picks == {g \in [loose -> UNION {answers[x] : x \in loose}] :
                       \A x \in loose : g[x] \in answers[x]}
<1>1. PICK g \in picks :
        f = [x \in DOMAIN answers |-> IF x \in loose THEN g[x] ELSE CHOOSE a \in answers[x] : TRUE]
  BY DEF Answers
<1>2. \A x \in loose : g[x] \in answers[x]
  BY <1>1
<1>3. \A x \in DOMAIN answers : (CHOOSE a \in answers[x] : TRUE) \in answers[x]
  OBVIOUS
<1> HIDE DEF loose, picks
<1>4. QED
  BY <1>1, <1>2, <1>3

\* A service with the dependencies of all services of a name.
Dependent(s, all, n) == [s EXCEPT !.dependsOn = UNION {u.dependsOn : u \in namedAs(all, n)}]

LEMMA MergedFacts ==
  ASSUME NEW all, NEW first, \A n \in DOMAIN first : first[n] # {}, NEW f \in merged(all, first)
  PROVE  /\ DOMAIN f = DOMAIN first
         /\ \A n \in DOMAIN first : \E s \in first[n] :
              f[n] = Dependent(s, all, n)
<1> DEFINE with(s, n) == Dependent(s, all, n)
           answers == [n \in DOMAIN first |-> {with(s, n) : s \in first[n]}]
<1>1. f \in Answers(answers)
  BY DEF merged, Dependent
<1> HIDE DEF with
<1>2. DOMAIN answers = DOMAIN first /\ \A n \in DOMAIN first : answers[n] = {with(s, n) : s \in first[n]}
  OBVIOUS
<1> HIDE DEF answers
<1>3. DOMAIN f = DOMAIN first /\ \A n \in DOMAIN first : f[n] \in answers[n]
  <2>1. \A n \in DOMAIN answers : answers[n] # {}
    BY <1>2
  <2>2. DOMAIN f = DOMAIN answers /\ \A n \in DOMAIN answers : f[n] \in answers[n]
    BY <1>1, <2>1, AnswersFacts
  <2>3. QED
    BY <1>2, <2>2
<1>4. \A n \in DOMAIN first : \E s \in first[n] : f[n] = with(s, n)
  BY <1>2, <1>3
<1>5. QED
  BY <1>3, <1>4 DEF with

\* The service of a worker and that of a job.
WorkerEntry(i, provided, streams, brokers) ==
  <<cdcWorkerServiceName(i.id),
    composeService("source.change-stream",
      cdcWorkerDependencies({c \in connectors : c.instance = i.id}, provided, streams), brokers[i])>>
JobEntry(i, c) ==
  <<cdcRegisterServiceName(c),
    composeService("source.change-stream", registerDependsOn(i, cdcWorkerServiceName(i.id)),
      connectEndpoint(i, cdcWorkerServiceName(i.id)))>>

LEMMA CaptureServices ==
  ASSUME NEW provided, NEW streams, NEW brokers, NEW e
  PROVE  e \in cdcServices(instances, connectors, provided, streams, brokers) <=>
           \E i \in instances : \E c \in connectors :
             /\ c.instance = i.id
             /\ \/ i.ownership = "managed" /\ e = WorkerEntry(i, provided, streams, brokers)
                \/ Registered(i) /\ e = JobEntry(i, c)
<1> DEFINE own(i) == {c \in connectors : c.instance = i.id}
           workers(i) == {WorkerEntry(i, provided, streams, brokers) :
                            j \in {k \in {i} : k.ownership = "managed" /\ own(i) # {}}}
           jobs(i) == {JobEntry(i, c) : c \in {d \in own(i) : Registered(i)}}
<1>1. cdcServices(instances, connectors, provided, streams, brokers) =
        UNION {workers(i) \cup jobs(i) : i \in instances}
  BY DEF cdcServices, WorkerEntry, JobEntry
<1>2. \A i : e \in workers(i) <=>
        /\ i.ownership = "managed" /\ e = WorkerEntry(i, provided, streams, brokers)
        /\ \E c \in connectors : c.instance = i.id
  BY Zenon
<1>3. \A i : e \in jobs(i) <=>
        \E c \in connectors : c.instance = i.id /\ Registered(i) /\ e = JobEntry(i, c)
  BY Zenon
<1> HIDE DEF workers, jobs, own
<1>4. QED
  BY <1>1, <1>2, <1>3

\* What the services of a bundle come from: those the providers have, and those
\* of change capture.
Rendering(provided, streams, brokers, merge) ==
  LET cdc == cdcServices(instances, connectors, provided, streams, brokers)
      all == cdc \cup {<<n, provided[n]>> : n \in DOMAIN provided}
  IN /\ \A n \in DOMAIN provided : \E p \in planned : \E s \in p.services : s.name = n
     /\ \A c \in connectors : streams[c] \in DOMAIN provided \cup {None}
     /\ DOMAIN merge = namesOf(all)
     /\ \A n \in DOMAIN merge \ DOMAIN provided : \E s \in namedAs(cdc, n) :
          merge[n] = Dependent(s, all, n)
     /\ services = rendered(merge)

LEMMA BundleRendered ==
  ASSUME IInv, Accepted
  PROVE  \E provided, streams, brokers, merge : Rendering(provided, streams, brokers, merge)
<1>1. services \in collectServices(planned, instances, connectors)
  BY AcceptedFacts DEF Accepted, Planning, PlannedInv
<1> DEFINE streamsOf(provided) == [c \in connectors |-> streamServiceName(c.stream, provided)]
           brokersOf(provided) == [i \in instances |-> defaultBootstrapServers(provided)]
           cdc(provided, a) == cdcServices(instances, connectors, provided, a[1], a[2])
           merges(provided) ==
             UNION {withCDC(provided, cdc(provided, a)) :
                      a \in Answers(streamsOf(provided)) \X Answers(brokersOf(provided))}
<1>2. collectServices(planned, instances, connectors) =
        {rendered(merge) : merge \in UNION {merges(provided) : provided \in providerServices(planned)}}
  BY DEF collectServices
<1> HIDE DEF merges
<1>3. PICK merge \in UNION {merges(provided) : provided \in providerServices(planned)} :
        services = rendered(merge)
  BY <1>1, <1>2
<1>4. PICK provided \in providerServices(planned) : merge \in merges(provided)
  BY <1>3
<1>5. PICK a \in Answers(streamsOf(provided)) \X Answers(brokersOf(provided)) :
        merge \in withCDC(provided, cdc(provided, a))
  BY <1>4 DEF merges
<1> DEFINE streams == a[1]
           brokers == a[2]
           own == cdcServices(instances, connectors, provided, streams, brokers)
           theirs == {<<n, provided[n]>> : n \in DOMAIN provided}
           all == own \cup theirs
           first == [n \in namesOf(all) |->
                       IF n \in DOMAIN provided THEN {provided[n]} ELSE namedAs(own, n)]
<1>6. merge \in merged(all, first)
  BY <1>5 DEF withCDC
<1>7. \A n \in DOMAIN provided : \E p \in planned : \E s \in p.services : s.name = n
  <2> DEFINE offered == {<<s.name, composeService(s.capability, s.dependsOn, None)>> :
                           s \in {t \in UNION {p.services : p \in planned} : t.name # None}}
             one == [n \in namesOf(offered) |-> namedAs(offered, n)]
  <2>1. provided \in merged(offered, one)
    BY DEF providerServices
  <2>2. \A n \in namesOf(offered) : namedAs(offered, n) # {}
    BY DEF namesOf, namedAs
  <2>3. \A n \in namesOf(offered) : \E p \in planned : \E s \in p.services : s.name = n
    BY DEF namesOf
  <2> HIDE DEF offered
  <2>4. DOMAIN one = namesOf(offered) /\ \A n \in DOMAIN one : one[n] # {}
    BY <2>2
  <2> HIDE DEF one
  <2>5. DOMAIN provided = DOMAIN one
    BY <2>1, <2>4, MergedFacts
  <2>6. QED
    BY <2>3, <2>4, <2>5
<1>8. \A c \in connectors : streams[c] \in DOMAIN provided \cup {None}
  <2>1. \A c : streamServiceName(c.stream, provided) # {}
               /\ streamServiceName(c.stream, provided) \subseteq DOMAIN provided \cup {None}
    BY DEF streamServiceName, Publishers
  <2> DEFINE answers == streamsOf(provided)
  <2>2. DOMAIN answers = connectors /\ \A c \in connectors : answers[c] = streamServiceName(c.stream, provided)
    OBVIOUS
  <2>3. streams \in Answers(answers)
    BY <1>5
  <2> HIDE DEF answers, streams
  <2>4. \A c \in connectors : streams[c] \in answers[c]
    BY <2>1, <2>2, <2>3, AnswersFacts
  <2>5. QED
    BY <2>1, <2>2, <2>4
<1> HIDE DEF own, streams, brokers
<1>9. DOMAIN first = namesOf(all) /\ \A n \in DOMAIN first : first[n] # {}
  <2>1. \A n \in namesOf(all) \ DOMAIN provided : namedAs(own, n) # {}
    <3>1. SUFFICES ASSUME NEW n \in namesOf(all), n \notin DOMAIN provided
                   PROVE  namedAs(own, n) # {}
      OBVIOUS
    <3>2. PICK e \in all : e[1] = n
      BY DEF namesOf
    <3>3. e \in own
      BY <3>1, <3>2
    <3>4. QED
      BY <3>2, <3>3 DEF namedAs
  <2> HIDE DEF all
  <2>2. QED
    BY <2>1
<1>10. \A n \in namesOf(all) \ DOMAIN provided : first[n] = namedAs(own, n)
  OBVIOUS
<1> HIDE DEF all, first
<1>11. /\ DOMAIN merge = namesOf(all)
       /\ \A n \in DOMAIN merge : \E s \in first[n] :
            merge[n] = Dependent(s, all, n)
  <2>1. \A n \in DOMAIN first : first[n] # {}
    BY <1>9
  <2>2. /\ DOMAIN merge = DOMAIN first
        /\ \A n \in DOMAIN first : \E s \in first[n] :
             merge[n] = Dependent(s, all, n)
    BY <1>6, <2>1, MergedFacts
  <2>3. QED
    BY <1>9, <2>2
<1>12. \A n \in DOMAIN merge \ DOMAIN provided : \E s \in namedAs(own, n) :
         merge[n] = Dependent(s, all, n)
  BY <1>10, <1>11
<1>13. Rendering(provided, streams, brokers, merge)
  BY <1>3, <1>7, <1>8, <1>11, <1>12 DEF Rendering, all, own
<1>14. QED
  BY <1>13

\* A name is a sequence of words, and one that starts with a word goes on doing so.
Words(w) == w \in Seq(Range(w))
LEMMA StartsWith ==
  ASSUME NEW w, NEW v, Words(w), w # <<>>, Words(v)
  PROVE  Words(w \o v) /\ w \o v # <<>> /\ (w \o v)[1] = w[1]
<1> DEFINE S == Range(w) \cup Range(v)
<1>1. w \in Seq(S) /\ v \in Seq(S)
  <2>1. \A T, U : T \subseteq U => Seq(T) \subseteq Seq(U)
    OBVIOUS
  <2>2. QED
    BY <2>1 DEF Words
<1> HIDE DEF S
<1>2. w \o v \in Seq(S) /\ w \o v # <<>> /\ (w \o v)[1] = w[1]
  BY <1>1
<1>3. QED
  BY <1>2, OwnSequence DEF Words

LEMMA PlanNames ==
  ASSUME IInv, Accepted
  PROVE  /\ \A i \in instances : Words(i.id.ns) /\ Words(i.id.name)
         /\ \A c \in connectors : Words(c.binding.ns) /\ Words(c.binding.name)
<1>1. /\ resources \in Inputs /\ ValidateResources(resources) = {}
      /\ instances = Instances(resources, bindings)
      /\ bindings = ResolvedOf(resources, target) /\ ConnectorsInv
  BY AcceptedFacts DEF Checked, Planning
<1>2. \A r \in Range(resources) : Words(r.id.ns) /\ Words(r.id.name)
  BY <1>1, SpecificationsAssumption DEF Words
<1>3. Words(Default) /\ Words(<<"default", "cdc">>)
  <2>1. \A x, y : <<x>> \in Seq({x}) /\ <<x, y>> \in Seq({x, y})
    OBVIOUS
  <2>2. QED
    BY <2>1, OwnSequence DEF Words, Default
<1>4. \A i \in instances : Words(i.id.ns) /\ Words(i.id.name)
  <2> TAKE i \in instances
  <2>1. CASE i = defaultCDCInstance
    BY <1>3, <2>1 DEF defaultCDCInstance, Identity
  <2>2. CASE i # defaultCDCInstance
    <3>1. \E r \in Range(resources) : i.id = r.id
      BY <1>1, <2>2, InstanceFacts
    <3>2. QED
      BY <1>2, <3>1
  <2>3. QED
    BY <2>1, <2>2
<1>5. \A c \in connectors : Words(c.binding.ns) /\ Words(c.binding.name)
  <2> TAKE c \in connectors
  <2>1. PICK b \in Live : Makes(b, c)
    BY <1>1 DEF ConnectorsInv
  <2>2. c.binding = b.id
    BY <2>1 DEF Makes, connectorPlan
  <2>3. PICK r \in ResolvableIn(resources) : b.id = r.id
    BY BindingOf DEF Live
  <2>4. r \in Range(resources)
    BY DEF ResolvableIn
  <2>5. QED
    BY <1>2, <2>2, <2>3, <2>4
<1>6. QED
  BY <1>4, <1>5

\* The names of change capture are not that of the utility service.
LEMMA CaptureNames ==
  ASSUME IInv, Accepted
  PROVE  /\ \A i \in instances : cdcWorkerServiceName(i.id) # UtilityService
         /\ \A c \in connectors : (\E i \in instances : i.id = c.instance) =>
              cdcRegisterServiceName(c) # UtilityService
<1>1. UtilityService[1] = "runtime"
  BY DEF UtilityService
<1>2. \A x, y : /\ Words(<<x>>) /\ <<x>> # <<>> /\ <<x>>[1] = x
                /\ Words(<<x, y>>) /\ <<x, y>> # <<>> /\ <<x, y>>[1] = x
  <2>1. \A x, y : <<x>> \in Seq({x}) /\ <<x, y>> \in Seq({x, y})
    OBVIOUS
  <2>2. QED
    BY <2>1, OwnSequence DEF Words
<1>3. Words(None)
  BY DEF Words, None
<1>4. \A i \in instances : cdcWorkerServiceName(i.id) # UtilityService
  <2> TAKE i \in instances
  <2> DEFINE ns == IF i.id.ns = Default THEN None ELSE i.id.ns
  <2>1. Words(ns) /\ Words(i.id.name)
    BY <1>3, PlanNames
  <2>2. cdcWorkerServiceName(i.id) = (<<"cdc">> \o ns) \o i.id.name
    BY DEF cdcWorkerServiceName
  <2> HIDE DEF ns
  <2>3. LET w == <<"cdc">> \o ns IN Words(w) /\ w # <<>> /\ w[1] = "cdc"
    BY <1>2, <2>1, StartsWith
  <2>4. cdcWorkerServiceName(i.id)[1] = "cdc"
    BY <2>1, <2>2, <2>3, StartsWith
  <2>5. QED
    BY <1>1, <2>4
<1>5. ASSUME NEW c \in connectors, NEW i \in instances, i.id = c.instance
      PROVE  cdcRegisterServiceName(c) # UtilityService
  <2>1. Words(c.binding.ns) /\ Words(c.binding.name) /\ Words(c.instance.name)
    BY <1>5, PlanNames
  <2> DEFINE u == <<"cdc", "register">> \o c.binding.ns
             v == u \o c.instance.name
             w == v \o c.binding.name
  <2>2. Words(u) /\ u # <<>> /\ u[1] = "cdc"
    BY <1>2, <2>1, StartsWith
  <2> HIDE DEF u
  <2>3. Words(v) /\ v # <<>> /\ v[1] = "cdc"
    BY <2>1, <2>2, StartsWith
  <2> HIDE DEF v
  <2>4. w[1] = "cdc"
    BY <2>1, <2>3, StartsWith
  <2>5. cdcRegisterServiceName(c) = w
    BY DEF cdcRegisterServiceName, u, v
  <2>6. QED
    BY <1>1, <2>4, <2>5
<1>6. QED
  BY <1>4, <1>5

\* Validation has asked for the endpoint of a runtime that is not ours.
LEMMA EndpointKnown ==
  ASSUME IInv, Accepted, NEW i \in instances, Located(i), i.ownership # "managed"
  PROVE  i.endpoint # Unset
<1>1. /\ resources \in Inputs /\ ValidateResources(resources) = {}
      /\ instances = Instances(resources, bindings)
  BY AcceptedFacts DEF Checked
<1> SUFFICES ASSUME i.endpoint = Unset PROVE FALSE
  OBVIOUS
<1>2. /\ ValOf(ById(resources, i.id), "external") # "true"
      /\ ById(resources, i.class).id # NoId
  BY DEF Located
<1>3. i # defaultCDCInstance
  BY DEF defaultCDCInstance
<1>4. \E classes : \E r \in Range(resources) :
        r.id.kind = "CDCInstance" /\ i = cdcInstancePlan(r, classes) /\ i.id = r.id
  BY <1>1, <1>3, InstanceFacts
<1>5. PICK classes : \E r \in Range(resources) :
        r.id.kind = "CDCInstance" /\ i = cdcInstancePlan(r, classes) /\ i.id = r.id
  BY <1>4
<1>6. PICK r \in Range(resources) :
        r.id.kind = "CDCInstance" /\ i = cdcInstancePlan(r, classes) /\ i.id = r.id
  BY <1>5
<1>7. ById(resources, i.id) = r
  BY <1>1, <1>6, IndexFacts
<1>8. /\ i.ownership = stringDefault(ValOf(r, "ownership"), "managed")
      /\ i.class = RefId(r, "classRef")
      /\ i.endpoint = stringDefault(ValOf(r, "endpointUrl"), ValOf(r, "endpointHost"))
  BY <1>2, <1>6, <1>7 DEF cdcInstancePlan, resourceOwnership
<1>9. ValOf(r, "endpointUrl") = Unset /\ ValOf(r, "endpointHost") = Unset
  BY <1>8 DEF stringDefault
<1>10. ValOf(r, "ownership") \in {Unset, "managed", "imported", "external"}
  <2> SUFFICES ASSUME ValOf(r, "ownership") \notin {Unset, "managed", "imported", "external"}
               PROVE  FALSE
    OBVIOUS
  <2>1. <<"DCDC003", r.id>> \in validateCoreInvariants(r)
    BY <1>6 DEF validateCoreInvariants, Broken, Rule
  <2>2. QED
    BY <1>1, <2>1, ValidatedFacts
<1>11. ValOf(r, "ownership") \in Foreign
  BY <1>8, <1>10 DEF stringDefault, Foreign
<1>12. <<"DCDC007", r.id>> \in instanceTopology(r, resources)
  BY <1>2, <1>8, <1>9, <1>11 DEF instanceTopology, Broken, Rule
<1>13. instanceTopology(r, resources) = {}
  <2>1. r \in Range(OfKind(resources, "CDCInstance"))
    BY <1>1, <1>6, KindFacts
  <2>2. ForAll(resources, "CDCInstance", LAMBDA q : instanceTopology(q, resources)) = {}
    BY <1>1 DEF ValidateResources, validateReferences, validateCDCTopology
  <2>3. UNION {instanceTopology(q, resources) : q \in Range(OfKind(resources, "CDCInstance"))} = {}
    BY <2>2 DEF ForAll
  <2>4. QED
    BY <2>1, <2>3
<1>14. QED
  BY <1>12, <1>13

\* What a service of change capture waits for, the bundle has, but that the
\* utility service is left out of it.
LEMMA NothingMissing ==
  ASSUME IInv, Accepted, NEW provided, NEW streams, NEW brokers, NEW merge,
         Rendering(provided, streams, brokers, merge),
         NEW n \in DOMAIN merge \ DOMAIN provided
  PROVE  merge[n].dependsOn \subseteq DOMAIN merge
<1> DEFINE cdc == cdcServices(instances, connectors, provided, streams, brokers)
           theirs == {<<k, provided[k]>> : k \in DOMAIN provided}
           all == cdc \cup theirs
<1>1. /\ DOMAIN merge = namesOf(all)
      /\ \A c \in connectors : streams[c] \in DOMAIN provided \cup {None}
      /\ \E s \in namedAs(cdc, n) : merge[n] = Dependent(s, all, n)
  BY DEF Rendering
<1> HIDE DEF cdc
<1>2. DOMAIN provided \subseteq DOMAIN merge
  <2> SUFFICES ASSUME NEW k \in DOMAIN provided PROVE k \in namesOf(all)
    BY <1>1
  <2>1. <<k, provided[k]>> \in all /\ <<k, provided[k]>>[1] = k
    OBVIOUS
  <2> HIDE DEF all
  <2>2. QED
    BY <2>1 DEF namesOf
<1>3. \A e \in cdc : e[1] \in DOMAIN merge
  BY <1>1 DEF namesOf
<1>4. \A e \in cdc : e[2].dependsOn \subseteq DOMAIN merge
  <2> SUFFICES ASSUME NEW e \in cdc PROVE e[2].dependsOn \subseteq DOMAIN merge
    OBVIOUS
  <2>1. \E i \in instances : \E c \in connectors :
          /\ c.instance = i.id
          /\ \/ i.ownership = "managed" /\ e = WorkerEntry(i, provided, streams, brokers)
             \/ Registered(i) /\ e = JobEntry(i, c)
    BY CaptureServices DEF cdc
  <2>2. PICK i \in instances : \E c \in connectors :
          /\ c.instance = i.id
          /\ \/ i.ownership = "managed" /\ e = WorkerEntry(i, provided, streams, brokers)
             \/ Registered(i) /\ e = JobEntry(i, c)
    BY <2>1
  <2>3. PICK c \in connectors :
          /\ c.instance = i.id
          /\ \/ i.ownership = "managed" /\ e = WorkerEntry(i, provided, streams, brokers)
             \/ Registered(i) /\ e = JobEntry(i, c)
    BY <2>2
  <2>4. CASE e = WorkerEntry(i, provided, streams, brokers)
    <3> DEFINE own == {d \in connectors : d.instance = i.id}
    <3>1. e[2].dependsOn = cdcWorkerDependencies(own, provided, streams)
      BY <2>4 DEF WorkerEntry, composeService
    <3>2. own \subseteq connectors
      OBVIOUS
    <3> HIDE DEF own
    <3>3. cdcWorkerDependencies(own, provided, streams) \subseteq DOMAIN provided
      BY <1>1, <3>2 DEF cdcWorkerDependencies
    <3>4. QED
      BY <1>2, <3>1, <3>3
  <2>5. CASE e = JobEntry(i, c)
    <3>1. e[2].dependsOn = registerDependsOn(i, cdcWorkerServiceName(i.id))
      BY <2>5 DEF JobEntry, composeService
    <3>2. CASE i.ownership # "managed"
      BY <3>1, <3>2 DEF registerDependsOn
    <3>3. CASE i.ownership = "managed"
      <4>1. WorkerEntry(i, provided, streams, brokers) \in cdc
        BY <2>3, <3>3, CaptureServices DEF cdc
      <4>2. WorkerEntry(i, provided, streams, brokers)[1] = cdcWorkerServiceName(i.id)
        BY DEF WorkerEntry
      <4>3. cdcWorkerServiceName(i.id) \in DOMAIN merge
        BY <1>3, <4>1, <4>2
      <4>4. QED
        BY <3>1, <3>3, <4>3 DEF registerDependsOn
    <3>4. QED
      BY <3>2, <3>3
  <2>6. QED
    BY <2>3, <2>4, <2>5
<1>5. \A u \in namedAs(all, n) : u.dependsOn \subseteq DOMAIN merge
  <2> SUFFICES ASSUME NEW e \in all, e[1] = n PROVE e[2].dependsOn \subseteq DOMAIN merge
    BY DEF namedAs
  <2>1. e \notin theirs
    OBVIOUS
  <2>2. QED
    BY <1>4, <2>1
<1>6. PICK s \in namedAs(cdc, n) : merge[n] = Dependent(s, all, n)
  BY <1>1
<1>7. \E e \in cdc : s = e[2]
  BY DEF namedAs
<1>8. \A e \in cdc : \E a, b, d : e[2] = composeService(a, b, d)
  <2> SUFFICES ASSUME NEW e \in cdc PROVE \E a, b, d : e[2] = composeService(a, b, d)
    OBVIOUS
  <2>1. \E i \in instances : \E c \in connectors :
          e = WorkerEntry(i, provided, streams, brokers) \/ e = JobEntry(i, c)
    BY CaptureServices DEF cdc
  <2>2. QED
    BY <2>1 DEF WorkerEntry, JobEntry
<1>9. merge[n].dependsOn = UNION {u.dependsOn : u \in namedAs(all, n)}
  BY <1>6, <1>7, <1>8 DEF Dependent, composeService
<1>10. QED
  BY <1>5, <1>9

\* The job of a connector, when nothing else has its name.
LEMMA JobRendered ==
  ASSUME IInv, Accepted, NEW c \in connectors, NEW i \in instances,
         i.id = c.instance, Registered(i), UniqueJob(c)
  PROVE  LET name == cdcRegisterServiceName(c)
             worker == cdcWorkerServiceName(i.id)
         IN /\ name \in DOMAIN services
            /\ services[name].talksTo = connectEndpoint(i, worker)
            /\ services[name].dependsOn = registerDependsOn(i, worker)
            /\ i.ownership = "managed" =>
                 /\ worker \in DOMAIN services
                 /\ services[worker].dependsOn \subseteq DOMAIN services \cup {UtilityService}
<1> DEFINE name == cdcRegisterServiceName(c)
           worker == cdcWorkerServiceName(i.id)
<1>1. PICK provided, streams, brokers, merge : Rendering(provided, streams, brokers, merge)
  BY BundleRendered
<1> DEFINE cdc == cdcServices(instances, connectors, provided, streams, brokers)
           theirs == {<<k, provided[k]>> : k \in DOMAIN provided}
           all == cdc \cup theirs
           job == JobEntry(i, c)
<1>2. /\ DOMAIN merge = namesOf(all)
      /\ \A n \in DOMAIN merge \ DOMAIN provided : \E s \in namedAs(cdc, n) :
           merge[n] = Dependent(s, all, n)
      /\ services = rendered(merge)
  BY <1>1 DEF Rendering
<1>3. name \notin DOMAIN provided /\ worker \notin DOMAIN provided
  <2>1. \A n \in DOMAIN provided : \E p \in planned : \E s \in p.services : s.name = n
    BY <1>1 DEF Rendering
  <2>2. \A p \in planned : \A s \in p.services : s.name \notin {name, worker}
    BY DEF UniqueJob
  <2> HIDE DEF name, worker
  <2>3. QED
    BY <2>1, <2>2
<1>4. name # UtilityService /\ worker # UtilityService
  BY CaptureNames
<1>5. \A j \in instances : j.id = i.id => j = i
  BY AcceptedFacts, LiveFacts DEF Accepted, BeforeCapture
<1>6. job \in cdc /\ job[1] = name
  <2>1. job \in cdc
    BY CaptureServices
  <2>2. job[1] = name
    BY DEF JobEntry
  <2>3. QED
    BY <2>1, <2>2
<1>7. \A e \in cdc : e[1] = name => e = job
  <2> SUFFICES ASSUME NEW e \in cdc, e[1] = name PROVE e = job
    OBVIOUS
  <2>1. \E j \in instances : \E d \in connectors :
          /\ d.instance = j.id
          /\ \/ e[1] = cdcWorkerServiceName(j.id)
             \/ e = JobEntry(j, d) /\ e[1] = cdcRegisterServiceName(d)
    <3>1. \A j : WorkerEntry(j, provided, streams, brokers)[1] = cdcWorkerServiceName(j.id)
      BY DEF WorkerEntry
    <3>2. \A j, d : JobEntry(j, d)[1] = cdcRegisterServiceName(d)
      BY DEF JobEntry
    <3>3. \E j \in instances : \E d \in connectors :
            /\ d.instance = j.id
            /\ \/ j.ownership = "managed" /\ e = WorkerEntry(j, provided, streams, brokers)
               \/ Registered(j) /\ e = JobEntry(j, d)
      BY CaptureServices
    <3> HIDE DEF cdc
    <3>4. QED
      BY <3>1, <3>2, <3>3
  <2>2. /\ \A d \in connectors : cdcRegisterServiceName(d) = name => d = c
        /\ \A j \in instances : cdcWorkerServiceName(j.id) # name
    BY DEF UniqueJob
  <2> HIDE DEF cdc, name
  <2>3. QED
    BY <1>5, <2>1, <2>2
<1> HIDE DEF cdc, job
<1>8. name \in DOMAIN merge
  BY <1>2, <1>6 DEF namesOf
<1>9. namedAs(cdc, name) = {job[2]} /\ namedAs(all, name) = {job[2]}
  <2>1. \A e \in all : e[1] = name => e = job
    <3> SUFFICES ASSUME NEW e \in theirs, e[1] = name PROVE FALSE
      BY <1>7
    <3>1. QED
      BY <1>3
  <2>2. job \in all
    BY <1>6
  <2> HIDE DEF all
  <2>3. QED
    BY <1>6, <1>7, <2>1, <2>2 DEF namedAs
<1> HIDE DEF all, name, worker
<1>10. merge[name] = Dependent(job[2], all, name)
  BY <1>2, <1>3, <1>8, <1>9
<1>11. /\ merge[name].talksTo = connectEndpoint(i, worker)
       /\ merge[name].dependsOn = registerDependsOn(i, worker)
  <2>1. job[2] = composeService("source.change-stream", registerDependsOn(i, worker),
                                connectEndpoint(i, worker))
    BY DEF job, JobEntry, worker
  <2>2. UNION {u.dependsOn : u \in {job[2]}} = job[2].dependsOn
    OBVIOUS
  <2>3. merge[name] = [job[2] EXCEPT !.dependsOn = job[2].dependsOn]
    BY <1>9, <1>10, <2>2 DEF Dependent
  <2>4. QED
    BY <2>1, <2>3 DEF composeService
<1>12. /\ DOMAIN services = DOMAIN merge \ {UtilityService}
       /\ \A n \in DOMAIN services : services[n] = merge[n]
  BY <1>2 DEF rendered
<1>13. ASSUME i.ownership = "managed"
       PROVE  /\ worker \in DOMAIN services
              /\ services[worker].dependsOn \subseteq DOMAIN services \cup {UtilityService}
  <2>1. WorkerEntry(i, provided, streams, brokers) \in all
    BY <1>13, CaptureServices DEF all, cdc
  <2>2. WorkerEntry(i, provided, streams, brokers)[1] = worker
    BY DEF WorkerEntry, worker
  <2>3. worker \in DOMAIN merge
    BY <1>2, <2>1, <2>2 DEF namesOf
  <2>4. merge[worker].dependsOn \subseteq DOMAIN merge
    BY <1>1, <1>3, <2>3, NothingMissing
  <2>5. QED
    BY <1>4, <1>12, <2>3, <2>4
<1>14. QED
  BY <1>4, <1>8, <1>11, <1>12, <1>13 DEF name, worker

\* In an accepted plan the job of every connector that is registered, and that has
\* a name of its own, is in the bundle, talks to its runtime and waits for its
\* worker, which is there and waits for nothing that is not.
THEOREM BundleIsWired == Spec => []BundleWired
<1>1. IInv => BundleWired
  <2> SUFFICES ASSUME IInv, Accepted, NEW c \in connectors, NEW i \in instances,
                      i.id = c.instance, Registered(i), UniqueJob(c)
               PROVE  LET name == cdcRegisterServiceName(c)
                          worker == cdcWorkerServiceName(i.id)
                          ours == i.ownership = "managed"
                      IN /\ name \in DOMAIN services
                         /\ Located(i) => services[name].talksTo = IF ours THEN worker ELSE <<i.endpoint>>
                         /\ services[name].dependsOn = IF ours THEN {worker} ELSE {}
                         /\ ours => /\ worker \in DOMAIN services
                                    /\ services[worker].dependsOn \subseteq DOMAIN services \cup {UtilityService}
    BY DEF BundleWired
  <2> DEFINE name == cdcRegisterServiceName(c)
             worker == cdcWorkerServiceName(i.id)
  <2>1. /\ name \in DOMAIN services
        /\ services[name].talksTo = connectEndpoint(i, worker)
        /\ services[name].dependsOn = registerDependsOn(i, worker)
        /\ i.ownership = "managed" =>
             /\ worker \in DOMAIN services
             /\ services[worker].dependsOn \subseteq DOMAIN services \cup {UtilityService}
    BY JobRendered
  <2> HIDE DEF name, worker
  <2>2. Located(i) => connectEndpoint(i, worker) =
                        IF i.ownership = "managed" THEN worker ELSE <<i.endpoint>>
    BY EndpointKnown DEF connectEndpoint
  <2>3. registerDependsOn(i, worker) = IF i.ownership = "managed" THEN {worker} ELSE {}
    BY DEF registerDependsOn
  <2>4. QED
    BY <2>1, <2>2, <2>3 DEF name, worker
<1>2. QED
  BY <1>1, SpecIInv, PTL
=============================================================================
