------------------------------- MODULE Bindings -------------------------------
(***************************************************************************)
(* internal/binding/registry.go: the definitions of bindings and what one  *)
(* binding resolves to.  A registry is a record of its three maps.         *)
(***************************************************************************)
EXTENDS Providers

\* An empty set of kinds or types lets every one through.
Definition(name, kind, capability, sources, targets, types, closure) ==
  [id |-> Identity("platform", "BindingDefinition", Default, name), name |-> name,
   kind |-> kind, capability |-> capability, sources |-> sources,
   targets |-> targets, types |-> types, closure |-> closure]

Kinds(names) == {<<apiVersionForKind(k), k>> : k \in names}

bindingSourceKinds ==
  Kinds({"RelationalSource", "EventProducer", "EventStream", "Pipeline", "Table",
         "DatabaseInstance", "TableCatalog", "QueryEngine"})

BuiltinDefinitions ==
  {Definition(<<"cdc">>, "CDCBinding", "source.change-stream", Kinds({"RelationalSource"}),
     Kinds({"EventStream"}), {"cdc", "source"}, {"source.relational", "stream.publish"}),
   Definition(<<"stream", "publish">>, "StreamPublishBinding", "stream.publish",
     Kinds({"EventProducer"}), Kinds({"EventStream"}), {"stream"}, {"stream.publish"}),
   Definition(<<"stream", "archive">>, "StreamArchiveBinding", "store.object",
     Kinds({"EventStream"}), Kinds({"ObjectStore"}), {"store"}, {"store.object"}),
   Definition(<<"lineage">>, "LineageBinding", "lineage.admit", bindingSourceKinds,
     Kinds({"LineageSink"}), {"lineage"}, {"lineage.admit"}),
   Definition(<<"audit">>, "AuditBinding", "audit.record", bindingSourceKinds,
     Kinds({"AuditStore"}), {"audit"}, {"audit.record"}),
   Definition(<<"pipeline">>, "PipelineBinding", "pipeline.run", bindingSourceKinds,
     Kinds({"Pipeline"}), {"pipeline"}, {"pipeline.run"}),
   Definition(<<"access">>, "AccessBinding", "access.grant", bindingSourceKinds, {},
     {"access"}, {"access.grant"}),
   Definition(<<"batch", "ingest">>, "BatchIngestBinding", "ingest.batch",
     Kinds({"RelationalSource"}), Kinds({"Table"}), {"pipeline"}, {"pipeline.run"}),
   Definition(<<"stream", "ingest">>, "StreamIngestBinding", "ingest.stream",
     Kinds({"EventStream"}), Kinds({"Table"}), {"pipeline"}, {"pipeline.run", "catalog.table"}),
   Definition(<<"transform">>, "TransformBinding", "transform.table", Kinds({"Table"}),
     Kinds({"Table"}), {"pipeline"}, {"pipeline.run", "catalog.table"}),
   Definition(<<"volume", "mount">>, "VolumeMountBinding", "storage.mount",
     Kinds({"PersistentVolumeClaim"}), {}, {"storage"}, {"storage.volume"})}

definitionFromResource(res) ==
  [id |-> res.id, name |-> res.id.name, kind |-> ValOf(res, "bindingKind"),
   capability |-> ValOf(res, "capability"), sources |-> ListOf(res, "sourceKinds"),
   targets |-> ListOf(res, "targetKinds"), types |-> ListOf(res, "providerTypes"),
   closure |-> ListOf(res, "dependencyClosure")]

\* Register: byName is written over, and byKind is not reached by an error.
Stored(map, key, def) ==
  [k \in DOMAIN map \cup {key} |-> IF k = key THEN def ELSE map[k]]

Register(defs, def) ==
  IF def.capability \in DOMAIN defs.byCapability THEN defs
  ELSE [byCapability |-> Stored(defs.byCapability, def.capability, def),
        byName |-> Stored(defs.byName, def.name, def),
        byKind |-> IF def.kind = Unset \/ def.kind \in DOMAIN defs.byKind THEN defs.byKind
                   ELSE Stored(defs.byKind, def.kind, def)]

RegisterFails(defs, def) ==
  def.capability \in DOMAIN defs.byCapability \/ def.kind \in DOMAIN defs.byKind

\* No two of the built-in definitions have a capability, a name or a kind in
\* common, so that they are all there when each has been registered.
BuiltinRegistry ==
  [byCapability |-> [c \in {d.capability : d \in BuiltinDefinitions} |->
                       CHOOSE d \in BuiltinDefinitions : d.capability = c],
   byName |-> [n \in {d.name : d \in BuiltinDefinitions} |->
                 CHOOSE d \in BuiltinDefinitions : d.name = n],
   byKind |-> [k \in {d.kind : d \in BuiltinDefinitions} |->
                 CHOOSE d \in BuiltinDefinitions : d.kind = k]]

\* The fields of a binding that name its ends; the first that is set counts.
EndFields ==
  [Binding |-> <<<<"sourceRef">>, <<"targetRef">>>>,
   CDCBinding |-> <<<<"sourceRef">>, <<"streamRef">>>>,
   StreamPublishBinding |-> <<<<"sourceRef">>, <<"streamRef">>>>,
   StreamArchiveBinding |-> <<<<"streamRef">>, <<"objectStoreRef">>>>,
   LineageBinding |-> <<<<"sourceRef">>, <<"sinkRef">>>>,
   AuditBinding |-> <<<<"sourceRef">>, <<"auditStoreRef">>>>,
   PipelineBinding |-> <<<<"sourceRef">>, <<"pipelineRef", "targetRef">>>>,
   AccessBinding |-> <<<<"subjectRef", "sourceRef">>, <<"resourceRef", "targetRef">>>>,
   BatchIngestBinding |-> <<<<"sourceRef">>, <<"tableRef">>>>,
   StreamIngestBinding |-> <<<<"streamRef">>, <<"tableRef">>>>,
   TransformBinding |-> <<<<"sourceRef">>, <<"targetRef">>>>,
   VolumeMountBinding |-> <<<<"claimRef">>, <<"workloadRef">>>>]

firstRef(res, fields) ==
  IF RefOf(res, Head(fields)) # Absent THEN RefOf(res, Head(fields)) ELSE RefOf(res, Last(fields))
SourceRef(res) == firstRef(res, EndFields[res.id.kind][1])
TargetRef(res) == firstRef(res, EndFields[res.id.kind][2])

\* A typed kind that only a definition of the specification knows is no binding,
\* and neither is a kind Binding of another group, whatever defines it.
IsBinding(res, defs) ==
  /\ res.id.kind \in DOMAIN EndFields
  /\ IF res.id.kind = "Binding" THEN res.id.api = "platform"
     ELSE res.id.kind \in DOMAIN defs.byKind

\* refName is the last part of the reference, whatever the others say.
bindingCapability(res, defs) ==
  LET named == RefOf(res, "bindingDefinitionRef") IN
  IF res.id.kind # "Binding" THEN defs.byKind[res.id.kind].capability
  ELSE IF ValOf(res, "capability") # Unset THEN ValOf(res, "capability")
  ELSE IF named # Absent /\ named.name \in DOMAIN defs.byName
         THEN defs.byName[named.name].capability
         ELSE Unset

\* The key of a provider instance as a reference of the plan's target names it.
InstanceKey(id, target) == [id |-> id, target |-> target]

providerCompatibleForBinding(reg, instance, def, capability, kind, target) ==
  LET descriptor == DescriptorOf(reg, instance) IN
  /\ target = Unset \/ instance.key.target \in {Unset, target}
  /\ def.types = {} \/ descriptor.type \in def.types
  /\ capability \in instance.capabilities
  /\ descriptor.bindingKinds = {} \/ kind \in descriptor.bindingKinds

\* The instance a binding is given: the one it names, else the one its CDC
\* instance names, else the only candidate.  NoId: none.
chooseProvider(res, capability, def, cdc, resources, reg, target) ==
  LET sole == ResolveBinding(reg, capability, res.id.kind, target) IN
  IF RefOf(res, "providerInstanceRef") # Absent THEN RefId(res, "providerInstanceRef")
  ELSE IF cdc # NoId THEN RefId(ById(resources, cdc), "providerInstanceRef")
  ELSE IF \E i \in sole : def.types = {} \/ DescriptorOf(reg, i).type \in def.types
    THEN (CHOOSE i \in sole : TRUE).key.id
    ELSE NoId

\* The diagnostics of one binding, as their codes.
endDiags(ref, id, required, allowed, resources, missing, malformed, unknown, kind) ==
  (IF required /\ ref = Absent THEN {missing} ELSE {})
    \cup (IF ref # Absent /\ id = NoId THEN {malformed} ELSE {})
    \cup (IF id # NoId /\ ~Exists(resources, id) THEN {unknown} ELSE {})
    \cup (IF id # NoId /\ allowed # {} /\ <<id.api, id.kind>> \notin allowed
            THEN {kind} ELSE {})

resolutionDiags(res, capability, def, b, resources, reg, target) ==
  LET typed == res.id.kind # "Binding"
      explicit == RefOf(res, "providerInstanceRef") # Absent
      instances == InstancesOf(reg, InstanceKey(RefId(res, "providerInstanceRef"), target))
  IN endDiags(SourceRef(res), b.source, typed, def.sources, resources,
              "DBIND014", "DBIND006", "DBIND008", "DBIND009")
     \cup endDiags(TargetRef(res), b.target, typed, def.targets, resources,
                   "DBIND014", "DBIND007", "DBIND010", "DBIND011")
     \cup (IF res.id.kind # "CDCBinding" THEN {} ELSE
             endDiags(RefOf(res, "cdcRef"), b.cdc, FALSE, {}, resources,
                      Unset, "DBIND016", "DBIND017", Unset)
             \cup endDiags(RefOf(res, "connectorClassRef"), b.connectorClass, FALSE, {},
                           resources, Unset, "DBIND018", "DBIND019", Unset))
     \cup (IF b.provider = NoId \/ (explicit /\ instances = {}) THEN {"DBIND012"} ELSE {})
     \cup (IF explicit /\ \E i \in instances :
                ~providerCompatibleForBinding(reg, i, def, capability, res.id.kind, target)
             THEN {"DBIND015"} ELSE {})
     \cup (IF /\ ~explicit /\ b.cdc = NoId
              /\ ResolveBinding(reg, capability, res.id.kind, target) = {}
              /\ Cardinality(BindingCandidates(reg, capability, res.id.kind, target)) > 1
             THEN {"DBIND020"} ELSE {})

\* What a binding resolves to.
resolveBinding(res, defs, resources, reg, target) ==
  LET capability == bindingCapability(res, defs)
      def == defs.byCapability[capability]
      isCDC == res.id.kind = "CDCBinding"
      cdc == IF isCDC THEN RefId(res, "cdcRef") ELSE NoId
      ownership == stringDefault(ValOf(res, "ownership"), "managed")
  IN [id |-> res.id, capability |-> capability, definition |-> def.id,
      source |-> parseRef(SourceRef(res), res), target |-> parseRef(TargetRef(res), res),
      cdc |-> cdc,
      connectorClass |-> IF isCDC THEN RefId(res, "connectorClassRef") ELSE NoId,
      provider |-> chooseProvider(res, capability, def, cdc, resources, reg, target),
      ownership |-> ownership, state |-> graphState(ownership, ValOf(res, "state")),
      closure |-> def.closure]

\* What a specification without definitions of its own resolves to, and its
\* diagnostics.
ResolvableIn(resources) ==
  {r \in Range(resources) :
     /\ IsBinding(r, BuiltinRegistry)
     /\ bindingCapability(r, BuiltinRegistry) \in DOMAIN BuiltinRegistry.byCapability}

ResolvedOf(resources, target) ==
  LET reg == RegistryOf(resources, target) IN
  {resolveBinding(r, BuiltinRegistry, resources, reg, target) : r \in ResolvableIn(resources)}

ResolutionDiagsOf(resources, target) ==
  LET reg == RegistryOf(resources, target)
      of(r) ==
        LET capability == bindingCapability(r, BuiltinRegistry) IN
        resolutionDiags(r, capability, BuiltinRegistry.byCapability[capability],
                        resolveBinding(r, BuiltinRegistry, resources, reg, target),
                        resources, reg, target)
  IN UNION {{<<code, r.id>> : code \in of(r)} : r \in ResolvableIn(resources)}
=============================================================================
