-------------------------------- MODULE BuildPlan --------------------------------
(***************************************************************************)
(* A specification on its way through the compiler: ValidateResources,     *)
(* then BuildPlan of internal/compiler/compiler.go with the registries,    *)
(* the bindings, the resource graph, change capture one binding at a time, *)
(* the operations one at a time and the provider resources, and Render of  *)
(* the Compose target when nothing has been refused.                       *)
(*                                                                         *)
(* Hashing is HashPool's, storage StoragePlan's and the search for cycles  *)
(* BindingCycles'; the steps of the two registries that a specification    *)
(* may extend are BindingResolution's.                                     *)
(***************************************************************************)
EXTENDS PlannedResources, OperationPlans, ComposeServices

CONSTANTS
  Inputs,   (* specifications, in the order of their identities            *)
  target    (* the target the plan is for                                  *)

\* A specification is a slice, and a name a sequence of words.
ASSUME SpecificationsAssumption == \A s \in Inputs :
  /\ s \in Seq(Range(s))
  /\ \A r \in Range(s) : r.id.ns \in Seq(Range(r.id.ns)) /\ r.id.name \in Seq(Range(r.id.name))

\* No binding has a definition of its own, and providers register without a
\* diagnostic, those that are built in too, which are for the target compose
\* only: what becomes of others is BindingResolution's.
ASSUME TargetAssumption == target \in {Unset, "compose"}
ASSUME BuiltinsAssumption == \A s \in Inputs : OfPlatform(s, "BindingDefinition") = <<>>
ASSUME ProvidersAssumption == \A s \in Inputs :
  /\ \A p \in Range(OfPlatform(s, "Provider")) :
       /\ ListOf(p, "capabilities") # {}
       /\ p.id \notin {d.id : d \in BuiltinDescriptors}
  /\ \A i \in Range(OfPlatform(s, "ProviderInstance")) :
       LET instance == instanceFromResource(i, target) IN
       /\ instance.key \notin {k.key : k \in BuiltinInstances(target)}
       /\ \E p \in Range(OfPlatform(s, "Provider")) :
            p.id = instance.provider /\ targetCompatible(descriptorFromResource(p), target)

VARIABLES
  resources,
  pc,
  reg,          (* the registry of providers                               *)
  bindings,     (* what they resolve to                                    *)
  instances,    (* the plans of the CDC instances                          *)
  todo,         (* what the loop has still to look at                      *)
  connectors,
  seen,         (* the plan of an operation that was last made for a key   *)
  operations,
  planned,      (* the provider resources                                  *)
  services,     (* of the bundle                                           *)
  diags         (* pairs of a code and the resource it is about            *)

vars == <<resources, pc, reg, bindings, instances, todo, connectors, seen, operations,
          planned, services, diags>>
resolution == <<reg, bindings>>
capture == <<instances, connectors>>
ops == <<seen, operations>>
bundle == <<planned, services>>

Init ==
  /\ resources \in Inputs
  /\ pc = "validate"
  /\ reg = [descriptors |-> {}, instances |-> {}] /\ bindings = {}
  /\ instances = {} /\ todo = <<>> /\ connectors = {}
  /\ seen = <<>> /\ operations = <<>>
  /\ planned = {} /\ services = <<>> /\ diags = {}

\* A specification that does not validate is not planned.
Validate ==
  /\ pc = "validate"
  /\ diags' = ValidateResources(resources)
  /\ pc' = IF diags' = {} THEN "resolve" ELSE "refused"
  /\ UNCHANGED <<resources, resolution, capture, todo, ops, bundle>>

\* A plan with diagnostics is built to its end all the same.
Resolve ==
  /\ pc = "resolve"
  /\ reg' = RegistryOf(resources, target)
  /\ bindings' = ResolvedOf(resources, target)
  /\ diags' = Definitions!RegistryDiags(resources) \cup ResolutionDiagsOf(resources, target)
  /\ pc' = "graph"
  /\ UNCHANGED <<resources, capture, todo, ops, bundle>>

buildResourceGraph ==
  /\ pc = "graph"
  /\ diags' = diags \cup resourceGraphDiags(resources, bindings)
  /\ pc' = "instances"
  /\ UNCHANGED <<resources, resolution, capture, todo, ops, bundle>>

-----------------------------------------------------------------------------
Live == {b \in bindings : LiveCapture(b)}

PlanInstances ==
  /\ pc = "instances"
  /\ instances' = Instances(resources, bindings)
  /\ todo' = SetToSeq(Live)
  /\ pc' = "connectors"
  /\ UNCHANGED <<resources, resolution, connectors, ops, bundle, diags>>

\* The resources the next connector is made of; NoResource: not found.
Capture == Head(todo)
Runtime == {i \in instances : i.id = CaptureInstance(Capture, instances)}
Source == ById(resources, Capture.source)
Connection == ById(resources, RefId(Source, "connectionRef"))

NextCapture ==
  /\ pc = "connectors" /\ todo # <<>>
  /\ todo' = Tail(todo)
  /\ UNCHANGED <<resources, pc, resolution, instances, ops, bundle>>

NoInstance ==
  /\ NextCapture
  /\ Runtime = {}
  /\ diags' = diags \cup {<<"DCDC012", Capture.id>>}
  /\ UNCHANGED connectors

\* Resolve has reported it.
NoSource ==
  /\ NextCapture
  /\ Runtime # {} /\ Source.id = NoId
  /\ UNCHANGED <<connectors, diags>>

NoConnection_Silent ==
  /\ NextCapture
  /\ Runtime # {} /\ Source.id # NoId /\ Connection.id = NoId
  /\ UNCHANGED <<connectors, diags>>

NoConnection ==
  /\ NextCapture
  /\ Runtime # {} /\ Source.id # NoId /\ Connection.id = NoId
  /\ diags' = diags \cup {<<"DCDC014", Capture.id>>}
  /\ UNCHANGED connectors

Connect ==
  /\ NextCapture
  /\ Connection.id # NoId
  /\ \E i \in Runtime :
       LET c == connectorPlan(Capture, resources, i, Connection) IN
       /\ connectors' = connectors \cup {c}
       /\ diags' =
            IF c.provider = NoId \/ InstancesOf(reg, InstanceKey(c.provider, target)) # {}
              THEN diags ELSE diags \cup {<<"DCDC015", c.binding>>}

ValidatePlan ==
  /\ pc = "connectors" /\ todo = <<>>
  /\ diags' = diags \cup validateCDCPlan(instances, connectors, target)
  /\ todo' = OfKind(resources, "CDCOperation")
  /\ pc' = "operations"
  /\ UNCHANGED <<resources, resolution, capture, ops, bundle>>

buildCDCPlan == PlanInstances \/ NoInstance \/ NoSource \/ NoConnection \/ Connect \/ ValidatePlan

-----------------------------------------------------------------------------
HasPrior(plan) == plan.key # Unset /\ plan.key \in DOMAIN seen
SameOperation(plan) ==
  /\ HasPrior(plan)
  /\ seen[plan.key].target = plan.target /\ seen[plan.key].action = plan.action

NextOperation ==
  /\ pc = "operations" /\ todo # <<>>
  /\ todo' = Tail(todo)
  /\ UNCHANGED <<resources, pc, resolution, capture, bundle>>

\* An operation whose key has been seen with its target and action.
SkipOperation_AnyAction ==
  /\ NextOperation
  /\ HasPrior(operationPlan(Head(todo), resources, instances))
  /\ UNCHANGED <<ops, diags>>

SkipOperation ==
  /\ NextOperation
  /\ SameOperation(operationPlan(Head(todo), resources, instances))
  /\ UNCHANGED <<ops, diags>>

\* One whose key is taken by another is reported, and planned.
PlanOperation ==
  /\ NextOperation
  /\ \E plan \in {operationPlan(Head(todo), resources, instances)} :
       /\ ~SameOperation(plan)
       /\ diags' = IF HasPrior(plan) THEN diags \cup {<<"DOPS011", plan.id>>} ELSE diags
       /\ seen' = IF plan.key = Unset THEN seen ELSE Stored(seen, plan.key, plan)
       /\ operations' = Append(operations, plan)

buildOperationPlans == SkipOperation \/ PlanOperation

-----------------------------------------------------------------------------
\* Any error, of whatever part, and there is no bundle.
PlanResources ==
  /\ pc = "operations" /\ todo = <<>>
  /\ \E needs \in {requirements(resources, bindings, target)} :
       /\ planned' = plannedProviderResources(reg, needs, target)
       /\ diags' = diags \cup plannedDiags(reg, needs, target)
            \cup validateComposeProduction(buildTargetPlan(resources, target), planned', reg)
  /\ pc' = IF diags' = {} THEN "render" ELSE "refused"
  /\ UNCHANGED <<resources, resolution, capture, todo, ops, services>>

Render ==
  /\ pc = "render"
  /\ services' \in collectServices(planned, instances, connectors)
  /\ pc' = "done"
  /\ UNCHANGED <<resources, resolution, capture, todo, ops, planned, diags>>

Done == pc \in {"refused", "done"} /\ UNCHANGED vars

Next ==
  \/ Validate \/ Resolve \/ buildResourceGraph \/ buildCDCPlan \/ buildOperationPlans
  \/ PlanResources \/ Render \/ Done

Spec == Init /\ [][Next]_vars

-----------------------------------------------------------------------------
Accepted == pc = "done"
Ops == Range(OfKind(resources, "CDCOperation"))
ServedBy(capability, requester) ==
  {p.instance : p \in {q \in planned : q.capability = capability /\ q.requester = requester}}

TypeOK ==
  /\ resources \in Inputs
  /\ pc \in {"validate", "resolve", "graph", "instances", "connectors", "operations",
             "render", "refused", "done"}
  /\ \A c \in connectors : \E i \in instances : i.id = c.instance
  /\ \A i, j \in instances : i.id = j.id => i = j
  /\ \A k \in DOMAIN seen : seen[k].key = k /\ seen[k] \in Range(operations)

\* Two components follow one reference: what validation has accepted, the
\* resolver finds, although each parses references by itself.  Bindings that
\* are planned or disabled are not validated (validate.go:318).
ReferenceCodes ==
  {"DBIND006", "DBIND007", "DBIND008", "DBIND010", "DBIND014",
   "DBIND016", "DBIND017", "DBIND018", "DBIND019"}
ValidatedReferencesResolve ==
  pc = "graph" => \A d \in diags :
    d[1] \in ReferenceCodes => plannedOrDisabled(ById(resources, d[2]))

\* "Multiple connectors may share one CDC instance or be split across
\* instances" (docs/adrs/ADR-0065-first-class-cdc-runtime-resources.md:23): what
\* shares a runtime does not share a name, and no two runtimes are one service.
NamesDistinct ==
  Accepted =>
    /\ \A c, d \in connectors : (c.instance = d.instance /\ c.name = d.name) => c = d
    /\ \A i, j \in instances :
         (/\ i.ownership = "managed" /\ j.ownership = "managed"
          /\ cdcWorkerServiceName(i.id) = cdcWorkerServiceName(j.id)) => i = j

\* "CDC begins only when a `CDCBinding` binds it to an event stream"
\* (docs/adrs/ADR-0048-cdc-binding-rules.md:5): every live binding of a plan
\* that is accepted has its own connector, no other binding has one, and the
\* provider of each is in the registry, wherever it comes from.  "Production
\* profiles require explicit CDC runtime references" (ADR-0065:27): in
\* production no runtime is inferred.
CapturesConnected ==
  /\ ValidatedReferencesResolve
  /\ NamesDistinct
  /\ Accepted =>
       /\ {c.binding : c \in connectors} = {b.id : b \in Live}
       /\ Cardinality(connectors) = Cardinality(Live)
       /\ \A c \in connectors : InstancesOf(reg, InstanceKey(c.provider, target)) # {}
  /\ (diags = {} /\ productionProfile(resources)) => \A c \in connectors :
       RefId(ById(resources, c.binding), "cdcRef") = c.instance

\* "use one stable key per logical operation" (internal/validation/validate.go:619):
\* an accepted plan has no key twice, and every operation that is declared is
\* there under its key, as itself or as the one it repeats.
OneKeyOneOperation ==
  Accepted =>
    /\ \A j, k \in DOMAIN operations : operations[j].key = operations[k].key => j = k
    /\ \A op \in Ops : \E k \in DOMAIN operations :
         /\ operations[k].key = ValOf(op, "idempotencyKey")
         /\ operations[k].action = ValOf(op, "action")
         /\ operations[k].target = RefId(op, "targetRef")

\* Validation compares the targets as they are written, the planner as they
\* are meant: it finds a key taken after all only when two namespaces have
\* written the same short reference.
CollisionsExplained ==
  \A d \in diags : d[1] = "DOPS011" => \E op \in Ops :
    /\ op.id.ns # d[2].ns
    /\ RefOf(op, "targetRef") = RefOf(ById(resources, d[2]), "targetRef")

\* "External `ManagedConnectors` instances allow connector-management plans but
\* reject worker-management plans" (docs/adrs/ADR-0066-steady-state-and-cdc-operations.md:21),
\* and an observed runtime that an operation or its binding names is not touched.
\* Validation does not read the field external, which a kind of another group
\* may have: a runtime that is the planner's external and validation's managed.
NamedRuntimesRespected ==
  Accepted => \A k \in DOMAIN operations : \A i \in instances :
    (/\ i.id = operationCDCInstance(ById(resources, operations[k].id), resources)
     /\ ValOf(ById(resources, i.id), "external") # "true") =>
      /\ i.policy = "ObserveOnly" => ~operations[k].mutates
      /\ i.ownership \in Foreign => ~operationManagesWorker(operations[k].action)

\* The operations of a plan are those of the specification, each once, on
\* runtimes that allow them, and a key is refused for a reason.
OperationsSound == OneKeyOneOperation /\ CollisionsExplained /\ NamedRuntimesRespected

\* "Provider instances are selected by capability, target compatibility, and
\* typed binding kind" (docs/specification/reference.md:96): the resolver and the
\* planner select by themselves, and in a plan that is accepted the binding has
\* the instance the resolver gave it, each of its dependencies one instance,
\* the one its end has, unless the source is not ours, and what the policy
\* requires is served.  A binding that asks for a capability in its own name is
\* given an instance for that beside the one of its end.
Outside(b, capability) ==
  /\ capability = "source.relational"
  /\ relationalSourceExternal(ById(resources, b.source), resources)
AsksItself(b, capability) ==
  capability \in resourceCapabilities(ById(resources, b.id), resources)
PlanServed ==
  Accepted =>
    /\ \A b \in bindings : LiveBinding(b) =>
         /\ ServedBy(b.capability, b.id) = {b.provider}
         /\ \A c \in b.closure \ {b.capability} :
              (~Outside(b, c) /\ ~AsksItself(b, c)) =>
              LET end == IF c = "source.relational" THEN b.source ELSE b.target IN
              /\ Cardinality(ServedBy(c, b.id)) = 1
              /\ (c \in {"source.relational", "stream.publish"} /\ ServedBy(c, end) # {}) =>
                   ServedBy(c, b.id) = ServedBy(c, end)
    /\ \A c \in effectivePolicy(resources).required : \E p \in planned : p.capability = c

\* A runtime that is ours, or has an endpoint, or must have one: validation asks
\* for the endpoint of a runtime that is not ours when it finds its class and reads
\* whose it is, which is not in the field external.
Located(i) ==
  \/ i.ownership = "managed" \/ i.endpoint # Unset
  \/ /\ ValOf(ById(resources, i.id), "external") # "true"
     /\ ById(resources, i.class).id # NoId

\* "A managed `CDCInstance` renders one Kafka Connect worker service and
\* per-binding registration jobs" (docs/usage/production-compose.md:24): every
\* connector that is to be registered has its job, which talks to its own
\* runtime and waits for its worker; nothing of change capture waits for a
\* service the bundle does not have.  Jobs whose names are the same or a
\* worker's, and services that have the names of a provider's, are left out;
\* so is the utility service, for which a worker waits in vain when its stream
\* or its database has that name: the bundle leaves it out (render.go:317).
UniqueJob(c) ==
  LET name == cdcRegisterServiceName(c) IN
  /\ \A d \in connectors : cdcRegisterServiceName(d) = name => d = c
  /\ \A i \in instances : cdcWorkerServiceName(i.id) # name
  /\ \A p \in planned : \A s \in p.services :
       s.name \notin {name, cdcWorkerServiceName(c.instance)}
BundleWired ==
  Accepted => \A c \in connectors, i \in instances :
    (i.id = c.instance /\ Registered(i) /\ UniqueJob(c)) =>
      LET name == cdcRegisterServiceName(c)
          worker == cdcWorkerServiceName(i.id)
          ours == i.ownership = "managed"
      IN /\ name \in DOMAIN services
         /\ Located(i) => services[name].talksTo = IF ours THEN worker ELSE <<i.endpoint>>
         /\ services[name].dependsOn = IF ours THEN {worker} ELSE {}
         /\ ours => /\ worker \in DOMAIN services
                    /\ services[worker].dependsOn \subseteq DOMAIN services \cup {UtilityService}

\* "`ObserveOnly` resources reject mutation operations" (ADR-0066:21): on the
\* runtime of a connector too when the binding names none.
ObservedUntouched ==
  Accepted => \A k \in DOMAIN operations : \A i \in instances :
    (/\ i.policy = "ObserveOnly"
     /\ \/ i.id = operations[k].target
        \/ \E c \in connectors : c.binding = operations[k].target /\ c.instance = i.id) =>
      ~operations[k].mutates

\* "Generate a production bundle with a platform whose providers use immutable
\* image references" (docs/usage/production-compose.md:34): a production plan whose
\* providers have checksums, images with digests and local ports is not refused
\* for its images and ports.
ProductionImmutable ==
  (pc = "refused" /\ \A p \in Range(OfPlatform(resources, "Provider")) :
       LET d == descriptorFromResource(p) IN
       d.verified /\ \A s \in d.services : s.pinned /\ s.local) =>
    \A d \in diags : d[1] \notin {"DPROV009", "DCOMPOSE002", "DCOMPOSE003"}

\* "Artifacts exclude current timestamps, random IDs, unordered map iteration"
\* (docs/adrs/ADR-0006-deterministic-compilation.md:9): one plan has one bundle.
OneBundle ==
  Accepted => collectServices(planned, instances, connectors) = {services}
=============================================================================
