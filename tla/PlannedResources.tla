---------------------------- MODULE PlannedResources ----------------------------
(***************************************************************************)
(* internal/compiler/consolidated.go: the policy of a specification and    *)
(* what it refuses, and the provider resources a plan needs, each with the *)
(* provider instance that serves it; validateComposeProduction of          *)
(* internal/compiler/compiler.go.  Warnings are left out: only errors make *)
(* the compiler stop.                                                      *)
(***************************************************************************)
EXTENDS ChangeCapture

Definitions == INSTANCE ResourceDefinitions

stateOf(res) == graphState(resourceOwnership(res), resourceLifecycle(res))

\* The first PlatformPolicy counts; without one, the defaults.
effectivePolicy(resources) ==
  LET declared == OfPlatform(resources, "PlatformPolicy")
      policy == IF declared = <<>> THEN NoResource ELSE Head(declared)
      v(field) == ValOf(policy, field)
  IN [id |-> policy.id, strict |-> stringDefault(v("validationMode"), "strict") = "strict",
      external |-> v("allowExternalOwnership") # "false",
      trust |-> v("allowExternalTrustOverrides") = "true", overrides |-> v("allowOverrides") = "true",
      required |-> {c \in {"lineage.admit", "audit.record"} :
                      v(IF c = "lineage.admit" THEN "requiresLineage" ELSE "requiresAudit") = "true"}]

validateExternalResource(res, policy) ==
  LET live == stateOf(res) # "disabled"
      trusted == ValOf(res, "trustPolicy") # Unset /\ policy.trust
  IN Broken(res,
       Rule("DGRAPH009", live /\ ~policy.external)
         \cup Rule("DGRAPH003", live /\ ListOf(res, "verification") = {} /\ ~trusted))

\* An override is complete when it has a name, a scope and a remediation.
overrideDeclarations(res, policy) ==
  Broken(res,
    Rule("DOVR002", "incomplete" \in ListOf(res, "overrides"))
      \cup Rule("DOVR003", "complete" \in ListOf(res, "overrides") /\ policy.strict /\ ~policy.overrides))

LiveBinding(b) == b.state \notin {"disabled", "deferred"}

validatePolicyRequirements(policy, bindings) ==
  LET absent == policy.required \ {b.capability : b \in {c \in bindings : LiveBinding(c)}} IN
  {<<IF c = "lineage.admit" THEN "DGRAPH007" ELSE "DGRAPH008", policy.id>> : c \in absent}

\* The diagnostics of buildResourceGraph.
resourceGraphDiags(resources, bindings) ==
  LET policy == effectivePolicy(resources) IN
  (UNION {overrideDeclarations(r, policy)
            \cup IF resourceOwnership(r) \in Foreign THEN validateExternalResource(r, policy) ELSE {} :
            r \in Range(resources)})
    \cup validatePolicyRequirements(policy, bindings)

\* The last profile that says so counts.  lax: it is for development or lets
\* images be unpinned.
buildTargetPlan(resources, target) ==
  FoldLeft(
    LAMBDA plan, res :
      [type |-> stringDefault(ValOf(res, "type"), stringDefault(ValOf(res, "target"), plan.type)),
       class |-> stringDefault(ValOf(res, "class"), plan.class),
       lax |-> IF {"development", "allowUnpinnedImages"} \cap DOMAIN res.vals = {} THEN plan.lax
               ELSE "true" \in {ValOf(res, "development"), ValOf(res, "allowUnpinnedImages")}],
    [type |-> IF target \in {Unset, "local"} THEN "compose" ELSE target, class |-> Unset, lax |-> FALSE],
    Profiles(resources))

-----------------------------------------------------------------------------
resourceCapabilities(res, resources) ==
  (ListOf(res, "capabilities") \cup {ValOf(res, "capability")}
     \cup Definitions!Lookup(Definitions!BuildRegistry(resources), res.id)) \ {Unset}

skipResourceCapabilityPlanning(res, capability, resources) ==
  \/ res.id.kind \in {"Provider", "ProviderInstance", "ResourceDefinition", "BindingDefinition",
                      "RuntimeProfile", "Target", "PlatformPolicy"}
  \/ /\ res.id.kind = "RelationalSource" /\ capability = "source.relational"
     /\ relationalSourceExternal(res, resources)

skipBindingDependencyCapability(b, capability, resources) ==
  /\ capability = "source.relational" /\ b.source.kind = "RelationalSource"
  /\ Exists(resources, b.source) /\ relationalSourceExternal(ById(resources, b.source), resources)

\* Whatever kind the reference names; a name alone, or four parts, are none.
providerInstanceIdentity(ref, owner) ==
  IF ref.parts \notin {2, 3, 5} THEN NoId
  ELSE Identity("platform", "ProviderInstance",
                IF ref.parts = 2 THEN owner.id.ns ELSE ref.ns, ref.name)

providerInstanceForResource(id, resources) ==
  LET res == ById(resources, id) IN
  providerInstanceIdentity(RefOf(res, "providerInstanceRef"), res)

bindingDependencyProviderInstance(b, capability, resources) ==
  CASE capability = "source.relational" -> providerInstanceForResource(b.source, resources)
    [] capability = "stream.publish" -> providerInstanceForResource(b.target, resources)
    [] OTHER -> NoId

\* requested: the instance that is asked for; NoId, any.
Requirement(capability, requester, requested) ==
  [capability |-> capability, requester |-> requester, requested |-> requested]

resourceRequirements(resources) ==
  UNION {{Requirement(c, r.id, providerInstanceForResource(r.id, resources)) :
            c \in {d \in resourceCapabilities(r, resources) :
                     ~skipResourceCapabilityPlanning(r, d, resources)}} :
           r \in {q \in Range(resources) : stateOf(q) = "satisfied"}}

bindingRequirements(b, resources) ==
  {Requirement(b.capability, b.id, b.provider)}
    \cup {Requirement(c, b.id, bindingDependencyProviderInstance(b, c, resources)) :
            c \in {d \in b.closure \ {b.capability} :
                     ~skipBindingDependencyCapability(b, d, resources)}}

composeRuntime == Identity("platform", "Target", Default, <<"compose", "runtime">>)

requirements(resources, bindings, target) ==
  LET declared == resourceRequirements(resources)
        \cup (UNION {bindingRequirements(b, resources) : b \in {c \in bindings : LiveBinding(c)}})
  IN IF target = "compose" /\ declared # {}
       THEN declared \cup {Requirement("runtime.utility", composeRuntime, NoId)}
       ELSE declared

servicesForCapability(services, capability) ==
  {s \in services : s.capability \in {Unset, capability}}

\* The instance that serves a requirement, as a set.
Serving(reg, need, target) ==
  IF need.requested # NoId
    THEN {i \in InstancesOf(reg, InstanceKey(need.requested, target)) :
            need.capability \in i.capabilities}
    ELSE ResolveCapability(reg, need.capability, target)

plannedProviderResources(reg, needs, target) ==
  UNION {{[capability |-> need.capability, requester |-> need.requester,
           instance |-> i.key.id, provider |-> i.provider,
           services |-> servicesForCapability(DescriptorOf(reg, i).services, need.capability)] :
            i \in Serving(reg, need, target)} : need \in needs}

plannedDiags_AmbiguousOnly(reg, needs, target) ==
  {<<"DPROV010", need.requester>> : need \in
     {n \in needs : /\ n.requested = NoId
                    /\ Cardinality(CapabilityCandidates(reg, n.capability, target)) > 1}}

plannedDiags(reg, needs, target) ==
  {<<IF /\ need.requested = NoId
        /\ Cardinality(CapabilityCandidates(reg, need.capability, target)) > 1
       THEN "DPROV010" ELSE "DPROV008", need.requester>> :
     need \in {n \in needs : Serving(reg, n, target) = {}}}

validateComposeProduction(plan, planned, reg) ==
  IF plan.type # "compose" \/ plan.lax
       \/ plan.class \notin {"single-host-production", "production"} THEN {}
  ELSE {<<"DPROV009", p.provider>> :
          p \in {q \in planned : \E d \in DescriptorsOf(reg, q.provider) : ~d.verified}}
       \cup {<<"DCOMPOSE002", p.requester>> : p \in {q \in planned : \E s \in q.services : ~s.pinned}}
       \cup {<<"DCOMPOSE003", p.requester>> : p \in {q \in planned : \E s \in q.services : ~s.local}}
=============================================================================
