------------------------------ MODULE Providers ------------------------------
(***************************************************************************)
(* internal/provider/registry.go: what the lookups of a registry answer.   *)
(* A registry is a record of its two maps, as sets of their entries.  The  *)
(* identity of an instance has the target it is for; that of a resource    *)
(* has none here, being always the plan's.                                 *)
(***************************************************************************)
EXTENDS PlatformResources, FiniteSets

\* verified: its package is built in or has a checksum.
Descriptor(name, type, capabilities, bindingKinds, targets, services) ==
  [id |-> Identity("platform", "Provider", Default, name), type |-> type,
   capabilities |-> capabilities, bindingKinds |-> bindingKinds,
   targets |-> targets, services |-> services, verified |-> TRUE]

InstanceId(ns, name, target) ==
  [id |-> Identity("platform", "ProviderInstance", ns, name), target |-> target]

Instance(key, provider, capabilities) ==
  [key |-> key, provider |-> provider, capabilities |-> capabilities]

\* A service of a provider: its name, the capability it is for, the services it
\* waits for.  pinned: its image has a digest; local: its ports are published
\* on 127.0.0.1 only.
Service(name, capability, pinned, local, dependsOn) ==
  [name |-> name, capability |-> capability, pinned |-> pinned, local |-> local,
   dependsOn |-> dependsOn]

Builtin(name, type, capabilities, kinds, services) ==
  Descriptor(<<"local">> \o name, type, capabilities, kinds, {"compose"}, services)

\* Their images have tags and no digest, their ports are published everywhere.
BuiltinDescriptors ==
  {Builtin(<<"storage">>, "storage", {"storage.volume", "storage.mount"},
           {"Binding", "VolumeMountBinding"}, {}),
   Builtin(<<"source">>, "source", {"source.relational"}, {"Binding"},
           {Service(<<"relational", "source">>, "source.relational", FALSE, FALSE, {})}),
   Builtin(<<"cdc">>, "cdc", {"source.change-stream"}, {"Binding", "CDCBinding"}, {}),
   Builtin(<<"event", "stream">>, "stream", {"stream.publish", "schema.register"},
           {"Binding", "StreamPublishBinding"},
           {Service(<<"event", "stream">>, "stream.publish", FALSE, FALSE, {})}),
   Builtin(<<"object", "store">>, "store", {"store.object", "audit.record"},
           {"AuditBinding", "Binding", "StreamArchiveBinding"},
           {Service(<<"object", "store">>, "store.object", FALSE, FALSE, {})}),
   Builtin(<<"lineage">>, "lineage", {"lineage.admit"}, {"Binding", "LineageBinding"},
           {Service(<<"lineage", "admission">>, "lineage.admit", FALSE, FALSE, {})}),
   Builtin(<<"utility">>, "runtime", {"runtime.utility"}, {},
           {Service(<<"runtime", "utility">>, "runtime.utility", FALSE, TRUE, {})})}

BuiltinInstances(target) ==
  {Instance(InstanceId(Default, d.id.name, IF target = Unset THEN "compose" ELSE target),
            d.id, d.capabilities) : d \in BuiltinDescriptors}

DescriptorsOf(reg, id) == {d \in reg.descriptors : d.id = id}

descriptorFromResource(res) ==
  [id |-> res.id, type |-> stringDefault(ValOf(res, "type"), "provider"),
   capabilities |-> ListOf(res, "capabilities"),
   bindingKinds |-> ListOf(res, "bindingKinds"),
   targets |-> IF "targetCompatibility" \in DOMAIN res.lists
                 THEN res.lists.targetCompatibility ELSE ListOf(res, "targets"),
   services |-> ListOf(res, "services"),
   verified |-> \/ ValOf(res, "packageVersion") \in
                     {"builtin", IF Head(res.id.name) = "local" THEN Unset ELSE "builtin"}
                \/ ValOf(res, "packageDigest") = "sha256"]

\* parseRef of this package does not look at the group, and takes what is not
\* a reference for a name.
providerOf(ref, owner) ==
  CASE ref.parts = 2 -> Identity("platform", ref.kind, owner.id.ns, ref.name)
    [] ref.parts \in {3, 5} -> Identity("platform", ref.kind, ref.ns, ref.name)
    [] OTHER -> Identity("platform", "Provider", owner.id.ns, ref.name)

instanceFromResource(res, target) ==
  Instance(InstanceId(res.id.ns, res.id.name, stringDefault(ValOf(res, "target"), target)),
           providerOf(RefOf(res, "providerRef"), res),
           IF ListOf(res, "capabilities") = {}
             THEN ListOf(res, "enabledCapabilities") ELSE ListOf(res, "capabilities"))

targetCompatible(descriptor, target) ==
  target = Unset \/ descriptor.targets = {} \/ target \in descriptor.targets

\* An instance whose provider is unknown is none.
InstancesOf(reg, key) ==
  {i \in reg.instances : i.key = key /\ DescriptorsOf(reg, i.provider) # {}}

DescriptorOf(reg, instance) == CHOOSE d \in DescriptorsOf(reg, instance.provider) : TRUE

CapabilityCandidates(reg, capability, target) ==
  {i \in reg.instances :
     /\ target = Unset \/ i.key.target \in {Unset, target}
     /\ capability \in i.capabilities
     /\ \E d \in DescriptorsOf(reg, i.provider) : targetCompatible(d, target)}

BindingCandidates(reg, capability, bindingKind, target) ==
  {i \in CapabilityCandidates(reg, capability, target) :
     DescriptorOf(reg, i).bindingKinds = {} \/ bindingKind \in DescriptorOf(reg, i).bindingKinds}

\* Exactly one candidate, as a set.
Sole(candidates) == IF Cardinality(candidates) = 1 THEN candidates ELSE {}
ResolveCapability(reg, capability, target) ==
  Sole(CapabilityCandidates(reg, capability, target))
ResolveBinding(reg, capability, bindingKind, target) ==
  Sole(BindingCandidates(reg, capability, bindingKind, target))

\* The registry of a specification: what is built in wins over what has its
\* name, and an instance without capabilities has those of its provider.
RegistryOf(resources, target) ==
  LET declared == {descriptorFromResource(r) : r \in Range(OfPlatform(resources, "Provider"))}
      builtin == {d.id : d \in BuiltinDescriptors}
      descriptors == BuiltinDescriptors
        \cup {d \in declared : d.capabilities # {} /\ d.id \notin builtin}
      configured ==
        {instanceFromResource(r, target) :
           r \in {q \in Range(OfPlatform(resources, "ProviderInstance")) :
                   RefOf(q, "providerRef") # Absent}}
      taken == {i.key : i \in BuiltinInstances(target)}
      inherit(i) ==
        IF i.capabilities # {} THEN i
        ELSE [i EXCEPT !.capabilities =
                UNION {d.capabilities : d \in {e \in descriptors : e.id = i.provider}}]
  IN [descriptors |-> descriptors,
      instances |-> {inherit(i) : i \in BuiltinInstances(target)
                                    \cup {k \in configured : k.key \notin taken}}]
=============================================================================
