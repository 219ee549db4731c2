------------------------ MODULE BindingResolution_proofs ------------------------
(***************************************************************************)
(* The registries of providers and of definitions, and the resolution of   *)
(* the bindings, for any specifications of distinct identities.            *)
(***************************************************************************)
EXTENDS BindingResolution, SequenceLemmas

-----------------------------------------------------------------------------
(* The invariant. *)

\* The resources of a kind of the platform's own.
Own(s, kind) == {r \in Range(s) : r.id.api = "platform" /\ r.id.kind = kind}

BuiltinIds == {d.id : d \in BuiltinDescriptors}
BuiltinKeys(t) == {i.key : i \in BuiltinInstances(t)}

\* What the loops make of the resources they have passed.
Registrable(r) == descriptorFromResource(r).capabilities # {} /\ r.id \notin BuiltinIds
Described(passed) ==
  BuiltinDescriptors \cup {descriptorFromResource(r) : r \in {q \in passed : Registrable(q)}}

Configurable(r, t) ==
  RefOf(r, "providerRef") # Absent /\ instanceFromResource(r, t).key \notin BuiltinKeys(t)
Configured(passed, t) ==
  BuiltinInstances(t)
    \cup {instanceFromResource(r, t) : r \in {q \in passed : Configurable(q, t)}}

\* The resources of a kind that the loop over them has passed in its phase, and
\* all of them later.
Passed(kind, phase) ==
  Own(resources, kind) \ (IF pc = phase THEN Range(todo) ELSE {})

LoopInv ==
  /\ resources \in Inputs /\ target \in Targets
  /\ pc \in {"start", "providers", "instances", "registered", "definitions", "bindings", "done"}
  /\ todo \in Seq(Range(resources)) /\ IsInjective(todo)
  /\ pc = "providers" => Range(todo) \subseteq Own(resources, "Provider")
  /\ pc = "instances" => Range(todo) \subseteq Own(resources, "ProviderInstance")
  /\ pc = "done" => todo = <<>>

DescriptorInv ==
  /\ pc # "start" => descriptors = Described(Passed("Provider", "providers"))
  /\ pc # "start" => \A r \in Passed("Provider", "providers") :
                       descriptorFromResource(r) \in descriptors \/ Diagnosed(r)
  /\ \A d, e \in descriptors : d.id = e.id => d = e

InstanceInv ==
  /\ pc \in {"start", "providers"} => instances = {}
  /\ pc = "instances" =>
       instances = Configured(Passed("ProviderInstance", "instances"), target)
  /\ pc \notin {"start", "providers"} =>
       \A r \in Passed("ProviderInstance", "instances") :
         \/ \E i \in instances : /\ i.key = instanceFromResource(r, target).key
                                 /\ i.provider = instanceFromResource(r, target).provider
         \/ Diagnosed(r)
  /\ \A i, j \in instances : i.key = j.key => i = j
  /\ IsFiniteSet(instances)

\* Once the registry is settled.
RegisteredInv ==
  /\ pc \notin {"start", "providers", "instances"} => registry = RegistryOf(resources, target)
  /\ pc = "registered" => InstancesSelectable

DefinitionsInv ==
  /\ \A c \in DOMAIN defs.byCapability : defs.byCapability[c].capability = c
  /\ MapsAgree

\* The binding that a resource resolves to when nothing is reported of it.
ResolvesTo(res, b) ==
  LET capability == bindingCapability(res, defs) IN
  /\ IsBinding(res, defs)
  /\ capability \in DOMAIN defs.byCapability
  /\ b = resolveBinding(res, defs, resources, registry, target)
  /\ resolutionDiags(res, capability, defs.byCapability[capability], b,
                     resources, registry, target) = {}

ResolvedInv ==
  /\ pc \notin {"bindings", "done"} => resolved = {}
  /\ \A b \in resolved : \E r \in Range(resources) \ Range(todo) : b.id = r.id
  /\ \A b, c \in resolved : b.id = c.id => b = c
  /\ diags = {} => \A b \in resolved : \E r \in Range(resources) : ResolvesTo(r, b)

IInv ==
  /\ LoopInv /\ DescriptorInv /\ InstanceInv
  /\ RegisteredInv /\ DefinitionsInv /\ ResolvedInv

-----------------------------------------------------------------------------
(* What is built in. *)

\* The second words of their names tell the built-in providers apart.
LEMMA BuiltinsDistinct ==
  /\ \A d, e \in BuiltinDescriptors : d.id = e.id => d = e
  /\ \A d \in BuiltinDescriptors : /\ d.id = Identity("platform", "Provider", Default, d.id.name)
                                   /\ d.capabilities # {}
  /\ IsFiniteSet(BuiltinDescriptors)
<1> DEFINE
      B1 == Builtin(<<"storage">>, "storage", {"storage.volume", "storage.mount"},
                    {"Binding", "VolumeMountBinding"}, {})
      B2 == Builtin(<<"source">>, "source", {"source.relational"}, {"Binding"},
                    {Service(<<"relational", "source">>, "source.relational", FALSE, FALSE, {})})
      B3 == Builtin(<<"cdc">>, "cdc", {"source.change-stream"}, {"Binding", "CDCBinding"}, {})
      B4 == Builtin(<<"event", "stream">>, "stream", {"stream.publish", "schema.register"},
                    {"Binding", "StreamPublishBinding"},
                    {Service(<<"event", "stream">>, "stream.publish", FALSE, FALSE, {})})
      B5 == Builtin(<<"object", "store">>, "store", {"store.object", "audit.record"},
                    {"AuditBinding", "Binding", "StreamArchiveBinding"},
                    {Service(<<"object", "store">>, "store.object", FALSE, FALSE, {})})
      B6 == Builtin(<<"lineage">>, "lineage", {"lineage.admit"}, {"Binding", "LineageBinding"},
                    {Service(<<"lineage", "admission">>, "lineage.admit", FALSE, FALSE, {})})
      B7 == Builtin(<<"utility">>, "runtime", {"runtime.utility"}, {},
                    {Service(<<"runtime", "utility">>, "runtime.utility", FALSE, TRUE, {})})
<1>1. BuiltinDescriptors = {B1, B2, B3, B4, B5, B6, B7}
  BY DEF BuiltinDescriptors
<1>2. /\ B1.id.name[2] = "storage" /\ B2.id.name[2] = "source" /\ B3.id.name[2] = "cdc"
      /\ B4.id.name[2] = "event" /\ B5.id.name[2] = "object" /\ B6.id.name[2] = "lineage"
      /\ B7.id.name[2] = "utility"
  BY DEF Builtin, Descriptor, Identity
<1>3. /\ B1.capabilities # {} /\ B2.capabilities # {} /\ B3.capabilities # {}
      /\ B4.capabilities # {} /\ B5.capabilities # {} /\ B6.capabilities # {}
      /\ B7.capabilities # {}
  BY DEF Builtin, Descriptor
<1>4. \A name, type, capabilities, kinds, services :
        LET d == Builtin(name, type, capabilities, kinds, services) IN
        d.id = Identity("platform", "Provider", Default, d.id.name)
  BY DEF Builtin, Descriptor, Identity
<1>5. \A d \in {B1, B2, B3, B4, B5, B6, B7} :
        d.id = Identity("platform", "Provider", Default, d.id.name)
  BY <1>4
<1>6. IsFiniteSet({B1, B2, B3, B4, B5, B6, B7})
  <2> HIDE DEF B1, B2, B3, B4, B5, B6, B7
  <2>1. IsFiniteSet({B1}) /\ IsFiniteSet({B2}) /\ IsFiniteSet({B3}) /\ IsFiniteSet({B4})
        /\ IsFiniteSet({B5}) /\ IsFiniteSet({B6}) /\ IsFiniteSet({B7})
    BY FS_Singleton
  <2>2. IsFiniteSet({B1} \cup {B2} \cup {B3} \cup {B4} \cup {B5} \cup {B6} \cup {B7})
    BY <2>1, FS_Union
  <2>3. QED
    BY <2>2
<1> HIDE DEF B1, B2, B3, B4, B5, B6, B7
<1>7. \A d, e \in {B1, B2, B3, B4, B5, B6, B7} : d.id.name[2] = e.id.name[2] => d = e
  BY <1>2
<1>8. QED
  BY <1>1, <1>3, <1>5, <1>6, <1>7

LEMMA BuiltinInstancesDistinct ==
  ASSUME NEW t
  PROVE  /\ \A i, j \in BuiltinInstances(t) : i.key = j.key => i = j
         /\ IsFiniteSet(BuiltinInstances(t))
         /\ \A i \in BuiltinInstances(t) : i = Instance(i.key, i.provider, i.capabilities)
<1> DEFINE tt == IF t = Unset THEN "compose" ELSE t
           f == [d \in BuiltinDescriptors |->
                   Instance(InstanceId(Default, d.id.name, tt), d.id, d.capabilities)]
<1> HIDE DEF tt
<1>1. BuiltinInstances(t) = {f[d] : d \in BuiltinDescriptors}
  BY DEF BuiltinInstances, tt
<1>2. \A d, e \in BuiltinDescriptors : f[d].key = f[e].key => d = e
  <2> SUFFICES ASSUME NEW d \in BuiltinDescriptors, NEW e \in BuiltinDescriptors,
                      f[d].key = f[e].key
               PROVE  d = e
    OBVIOUS
  <2>1. d.id.name = e.id.name
    BY DEF Instance, InstanceId, Identity
  <2>2. d.id = e.id
    BY <2>1, BuiltinsDistinct
  <2>3. QED
    BY <2>2, BuiltinsDistinct
<1>3. \A d \in BuiltinDescriptors :
        f[d] = Instance(f[d].key, f[d].provider, f[d].capabilities)
  BY DEF Instance
<1>4. IsFiniteSet({f[d] : d \in BuiltinDescriptors})
  <2> HIDE DEF f
  <2>1. QED
    BY BuiltinsDistinct, FiniteImage
<1> HIDE DEF f
<1>5. QED
  BY <1>1, <1>2, <1>3, <1>4

\* No two built-in definitions have a capability or a kind in common.
LEMMA DefinitionsDistinct ==
  \A d, e \in BuiltinDefinitions :
    (d.capability = e.capability \/ d.kind = e.kind) => d = e
<1>1. QED
  BY SMTT(60) DEF BuiltinDefinitions, Definition

\* The registry of definitions as it is before the specification is looked at.
LEMMA BuiltinMaps ==
  /\ \A c \in DOMAIN BuiltinRegistry.byCapability :
       BuiltinRegistry.byCapability[c].capability = c
  /\ \A c \in DOMAIN BuiltinRegistry.byCapability :
       LET def == BuiltinRegistry.byCapability[c] IN
       /\ def.kind \in DOMAIN BuiltinRegistry.byKind
       /\ BuiltinRegistry.byKind[def.kind] = def
<1> DEFINE r == BuiltinRegistry
<1>1. /\ DOMAIN r.byCapability = {d.capability : d \in BuiltinDefinitions}
      /\ DOMAIN r.byKind = {d.kind : d \in BuiltinDefinitions}
  BY DEF BuiltinRegistry
<1>2. \A d \in BuiltinDefinitions : r.byCapability[d.capability] = d
  <2>1. \A d \in BuiltinDefinitions : r.byCapability[d.capability] =
          CHOOSE e \in BuiltinDefinitions : e.capability = d.capability
    BY DEF BuiltinRegistry
  <2>2. QED
    BY <2>1, DefinitionsDistinct
<1>3. \A d \in BuiltinDefinitions : r.byKind[d.kind] = d
  <2>1. \A d \in BuiltinDefinitions : r.byKind[d.kind] =
          CHOOSE e \in BuiltinDefinitions : e.kind = d.kind
    BY DEF BuiltinRegistry
  <2>2. QED
    BY <2>1, DefinitionsDistinct
<1>4. QED
  BY <1>1, <1>2, <1>3

-----------------------------------------------------------------------------
(* The resources of a specification, and what a loop makes of them. *)

LEMMA InputFacts ==
  ASSUME NEW s \in Inputs
  PROVE  /\ s \in Seq(Range(s)) /\ IsInjective(s)
         /\ \A q, r \in Range(s) : q.id = r.id => q = r
         /\ \A q \in Range(s) : q.id = Identity(q.id.api, q.id.kind, q.id.ns, q.id.name)
<1>1. QED
  BY UniqueAssumption DEF Range, IsInjective

LEMMA OfPlatformFacts ==
  ASSUME NEW s \in Inputs, NEW kind
  PROVE  /\ OfPlatform(s, kind) \in Seq(Range(s))
         /\ Range(OfPlatform(s, kind)) = Own(s, kind)
         /\ IsInjective(OfPlatform(s, kind))
<1> DEFINE places == {k \in DOMAIN s : s[k].id.api = "platform" /\ s[k].id.kind = kind}
<1>1. OfPlatform(s, kind) = Selected(s, places)
  BY DEF OfPlatform
<1>2. {s[k] : k \in places} = Own(s, kind)
  BY DEF Own, Range
<1>3. places \in SUBSET DOMAIN s
  OBVIOUS
<1>4. s \in Seq(Range(s)) /\ IsInjective(s)
  BY InputFacts
<1> HIDE DEF places
<1>5. /\ Selected(s, places) \in Seq(Range(s))
      /\ Range(Selected(s, places)) = {s[k] : k \in places}
      /\ IsInjective(s) => IsInjective(Selected(s, places))
  BY <1>3, <1>4, SelectedFacts
<1>6. QED
  BY <1>1, <1>2, <1>4, <1>5

\* Two instances of a specification do not have the same key.
LEMMA KeysDistinct ==
  ASSUME NEW s \in Inputs, NEW t, NEW q \in Own(s, "ProviderInstance"),
         NEW r \in Own(s, "ProviderInstance"),
         instanceFromResource(q, t).key = instanceFromResource(r, t).key
  PROVE  q = r
<1>1. q.id.ns = r.id.ns /\ q.id.name = r.id.name
  BY DEF instanceFromResource, Instance, InstanceId, Identity
<1>2. q.id = r.id
  BY <1>1, InputFacts DEF Own
<1>3. QED
  BY <1>2, InputFacts DEF Own

LEMMA FromResource ==
  /\ \A r : descriptorFromResource(r).id = r.id
  /\ \A r, t : LET i == instanceFromResource(r, t) IN
                i = Instance(i.key, i.provider, i.capabilities)
<1>1. QED
  BY DEF descriptorFromResource, instanceFromResource, Instance

\* What RegistryOf does to the instances in the end.
Inherited(i, described) ==
  IF i.capabilities # {} THEN i
  ELSE [i EXCEPT !.capabilities =
          UNION {d.capabilities : d \in {e \in described : e.id = i.provider}}]

LEMMA RegistryOfIs ==
  ASSUME NEW s \in Inputs, NEW t
  PROVE  RegistryOf(s, t) =
           [descriptors |-> Described(Own(s, "Provider")),
            instances |-> {Inherited(i, Described(Own(s, "Provider"))) :
                             i \in Configured(Own(s, "ProviderInstance"), t)}]
<1> DEFINE
      declared == {descriptorFromResource(r) : r \in Own(s, "Provider")}
      described == BuiltinDescriptors
        \cup {d \in declared : d.capabilities # {} /\ d.id \notin BuiltinIds}
      configured ==
        {instanceFromResource(r, t) :
           r \in {q \in Own(s, "ProviderInstance") : RefOf(q, "providerRef") # Absent}}
      all == BuiltinInstances(t) \cup {k \in configured : k.key \notin BuiltinKeys(t)}
<1>1. RegistryOf(s, t) =
        [descriptors |-> described, instances |-> {Inherited(i, described) : i \in all}]
  BY OfPlatformFacts DEF RegistryOf, Inherited, BuiltinIds, BuiltinKeys
<1>2. described = Described(Own(s, "Provider"))
  BY FromResource DEF Described, Registrable
<1>3. all = Configured(Own(s, "ProviderInstance"), t)
  BY DEF Configured, Configurable
<1> HIDE DEF described, all
<1>4. QED
  BY <1>1, <1>2, <1>3

-----------------------------------------------------------------------------
(* The registry of providers. *)

LEMMA InitIInv == Init => IInv
<1> SUFFICES ASSUME Init PROVE IInv
  OBVIOUS
<1> USE DEF Init, RegistryInit
<1>1. LoopInv
  BY EmptySeq, RangeEmpty DEF LoopInv, IsInjective
<1>2. DescriptorInv /\ RegisteredInv /\ ResolvedInv
  BY DEF DescriptorInv, RegisteredInv, ResolvedInv
<1>3. InstanceInv
  BY FS_EmptySet DEF InstanceInv
<1>4. DefinitionsInv
  BY BuiltinMaps DEF DefinitionsInv, MapsAgree
<1>5. QED
  BY <1>1, <1>2, <1>3, <1>4 DEF IInv

\* The loop of a phase takes the next resource.
LEMMA TakesNext ==
  ASSUME LoopInv, todo # <<>>, todo' = Tail(todo),
         UNCHANGED <<resources, target, pc>>, pc # "done"
  PROVE  /\ LoopInv'
         /\ Head(todo) \in Range(todo) /\ Head(todo) \in Range(resources)
         /\ Range(todo') = Range(todo) \ {Head(todo)}
<1>1. /\ todo' \in Seq(Range(resources)) /\ IsInjective(todo')
      /\ Head(todo) \in Range(todo)
      /\ Range(todo') = Range(todo) \ {Head(todo)}
  BY InjectiveTail DEF LoopInv
<1>2. Range(todo) \subseteq Range(resources)
  BY LenProperties DEF LoopInv, Range
<1>3. LoopInv'
  BY <1>1 DEF LoopInv
<1>4. QED
  BY <1>1, <1>2, <1>3

\* The definitions and the bindings come later.
LEMMA NotYetResolved ==
  ASSUME IInv, BuildRegistry, UNCHANGED <<defs, resolved>>
  PROVE  DefinitionsInv' /\ ResolvedInv'
<1>1. pc \in {"start", "providers", "instances"} /\ pc' \notin {"bindings", "done"}
      /\ diags \subseteq diags'
  BY DEF BuildRegistry, RegisterBuiltinDescriptors, RegisterDescriptor,
         RegisterBuiltinInstances, RegisterInstance, SettleInstances
<1>2. resolved' = {}
  BY <1>1 DEF IInv, ResolvedInv
<1>3. ResolvedInv'
  BY <1>2 DEF ResolvedInv
<1>4. DefinitionsInv'
  BY <1>1 DEF IInv, DefinitionsInv, MapsAgree
<1>5. QED
  BY <1>3, <1>4

LEMMA BuiltinDescriptorsStep ==
  ASSUME IInv, RegisterBuiltinDescriptors
  PROVE  LoopInv' /\ DescriptorInv' /\ InstanceInv' /\ RegisteredInv'
<1> USE DEF RegisterBuiltinDescriptors
<1>1. LoopInv'
  BY OfPlatformFacts DEF IInv, LoopInv, Own
<1>2. Passed("Provider", "providers")' = {}
  BY OfPlatformFacts DEF IInv, LoopInv, Passed
<1>3. Described({}) = BuiltinDescriptors
  BY DEF Described
<1>4. DescriptorInv'
  BY <1>2, <1>3, BuiltinsDistinct DEF DescriptorInv
<1>5. InstanceInv' /\ RegisteredInv'
  BY DEF IInv, InstanceInv, RegisteredInv
<1>6. QED
  BY <1>1, <1>4, <1>5

LEMMA DescriptorStep ==
  ASSUME IInv, RegisterDescriptor
  PROVE  LoopInv' /\ DescriptorInv' /\ InstanceInv' /\ RegisteredInv'
<1> USE DEF RegisterDescriptor
<1> DEFINE res == Head(todo)
           d == descriptorFromResource(res)
           before == Passed("Provider", "providers")
<1>1. /\ LoopInv'
      /\ res \in Range(todo) /\ res \in Own(resources, "Provider")
      /\ Range(todo') = Range(todo) \ {res}
  BY TakesNext DEF IInv, LoopInv
<1>2. Passed("Provider", "providers")' = before \cup {res} /\ res \notin before
  BY <1>1 DEF Passed
<1>3. d.id = res.id
  BY FromResource
<1>4. descriptors = Described(before) /\ diags \subseteq diags'
  BY DEF IInv, DescriptorInv
<1>5. DescriptorsOf(registry, d.id) = {} <=> res.id \notin BuiltinIds
  <2>1. \A q \in before : q.id # res.id
    BY <1>1, <1>2, InputFacts DEF IInv, LoopInv, Own, Passed
  <2>2. \A e \in descriptors : e.id = res.id => e \in BuiltinDescriptors
    BY <1>4, <2>1, FromResource DEF Described
  <2>3. BuiltinDescriptors \subseteq descriptors
    BY <1>4 DEF Described
  <2>4. QED
    BY <1>3, <2>2, <2>3 DEF DescriptorsOf, registry, BuiltinIds
<1>6. Described(before \cup {res}) =
        Described(before) \cup (IF Registrable(res) THEN {d} ELSE {})
  BY DEF Described
<1>7. descriptors' = descriptors \cup (IF Registrable(res) THEN {d} ELSE {})
      /\ (~Registrable(res) => \E x \in diags' : x[2] = d.id)
  <2>1. CASE ~Registrable(res)
    <3>1. UNCHANGED descriptors
      BY <1>5, <2>1 DEF Registrable
    <3>2. <<"DPROV001", d.id>> \in diags' \/ <<"DPROV002", d.id>> \in diags'
      BY <1>5, <2>1 DEF Registrable
    <3>3. QED
      BY <2>1, <3>1, <3>2
  <2>2. CASE Registrable(res)
    BY <1>5, <2>2 DEF Registrable
  <2>3. QED
    BY <2>1, <2>2
<1>8. \A e, f \in descriptors' : e.id = f.id => e = f
  BY <1>3, <1>5, <1>7 DEF IInv, DescriptorInv, DescriptorsOf, registry, Registrable
<1>9. \A r \in before \cup {res} :
        descriptorFromResource(r) \in descriptors' \/ Diagnosed(r)'
  BY <1>3, <1>4, <1>7 DEF IInv, DescriptorInv, Diagnosed
<1>10. DescriptorInv'
  BY <1>2, <1>4, <1>6, <1>7, <1>8, <1>9 DEF DescriptorInv
<1>11. InstanceInv' /\ RegisteredInv'
  BY DEF IInv, InstanceInv, RegisteredInv
<1>12. QED
  BY <1>1, <1>10, <1>11

LEMMA BuiltinInstancesStep ==
  ASSUME IInv, RegisterBuiltinInstances
  PROVE  LoopInv' /\ DescriptorInv' /\ InstanceInv' /\ RegisteredInv'
<1> USE DEF RegisterBuiltinInstances
<1>1. LoopInv'
  BY OfPlatformFacts DEF IInv, LoopInv, Own
<1>2. /\ Passed("ProviderInstance", "instances")' = {}
      /\ Passed("Provider", "providers")' = Passed("Provider", "providers")
  BY OfPlatformFacts, RangeEmpty DEF IInv, LoopInv, Passed
<1>3. Configured({}, target) = BuiltinInstances(target)
  BY DEF Configured
<1>4. DescriptorInv'
  BY <1>2 DEF IInv, DescriptorInv, Diagnosed
<1>5. InstanceInv'
  BY <1>2, <1>3, BuiltinInstancesDistinct DEF IInv, InstanceInv
<1>6. RegisteredInv'
  BY DEF RegisteredInv
<1>7. QED
  BY <1>1, <1>4, <1>5, <1>6

LEMMA InstanceStep ==
  ASSUME IInv, RegisterInstance
  PROVE  LoopInv' /\ DescriptorInv' /\ InstanceInv' /\ RegisteredInv'
<1> USE DEF RegisterInstance
<1> DEFINE res == Head(todo)
           new == instanceFromResource(res, target)
           before == Passed("ProviderInstance", "instances")
<1>1. /\ LoopInv'
      /\ res \in Range(todo) /\ res \in Own(resources, "ProviderInstance")
      /\ Range(todo') = Range(todo) \ {res}
  BY TakesNext DEF IInv, LoopInv
<1>2. /\ Passed("ProviderInstance", "instances")' = before \cup {res} /\ res \notin before
      /\ Passed("Provider", "providers")' = Passed("Provider", "providers")
  BY <1>1 DEF Passed
<1>3. instances = Configured(before, target) /\ diags \subseteq diags'
  BY DEF IInv, InstanceInv
<1>4. new.key \in {k.key : k \in instances} <=> new.key \in BuiltinKeys(target)
  <2>1. \A q \in before : instanceFromResource(q, target).key # new.key
    BY <1>1, <1>2, KeysDistinct DEF IInv, LoopInv, Passed
  <2>2. \A i \in instances : i.key = new.key => i \in BuiltinInstances(target)
    BY <1>3, <2>1 DEF Configured
  <2>3. BuiltinInstances(target) \subseteq instances
    BY <1>3 DEF Configured
  <2>4. QED
    BY <2>2, <2>3 DEF BuiltinKeys
<1>5. Configured(before \cup {res}, target) =
        Configured(before, target) \cup (IF Configurable(res, target) THEN {new} ELSE {})
  BY DEF Configured
<1>6. instances' = instances \cup (IF Configurable(res, target) THEN {new} ELSE {})
      /\ (~Configurable(res, target) => \E x \in diags' : x[2] = res.id)
  <2>1. CASE ~Configurable(res, target)
    <3>1. UNCHANGED instances
      BY <1>4, <2>1 DEF Configurable
    <3>2. <<"DPROV004", res.id>> \in diags' \/ <<"DPROV005", res.id>> \in diags'
      BY <1>4, <2>1 DEF Configurable
    <3>3. QED
      BY <2>1, <3>1, <3>2
  <2>2. CASE Configurable(res, target)
    BY <1>4, <2>2 DEF Configurable
  <2>3. QED
    BY <2>1, <2>2
<1>7. \A i, j \in instances' : i.key = j.key => i = j
  BY <1>4, <1>6 DEF IInv, InstanceInv, Configurable
<1>8. IsFiniteSet(instances')
  BY <1>6, FS_AddElement DEF IInv, InstanceInv
<1>9. \A r \in before \cup {res} :
        \/ \E i \in instances' : /\ i.key = instanceFromResource(r, target).key
                                 /\ i.provider = instanceFromResource(r, target).provider
        \/ Diagnosed(r)'
  BY <1>3, <1>6 DEF IInv, InstanceInv, Diagnosed
<1>10. InstanceInv'
  BY <1>2, <1>3, <1>5, <1>6, <1>7, <1>8, <1>9 DEF InstanceInv
<1>11. DescriptorInv'
  BY <1>2 DEF IInv, DescriptorInv, Diagnosed
<1>12. RegisteredInv'
  BY DEF RegisteredInv
<1>13. QED
  BY <1>1, <1>10, <1>11, <1>12

\* The last pass over the instances changes no key and no provider.
LEMMA SettledFacts ==
  ASSUME IInv, pc = "instances", todo = <<>>, NEW i \in instances
  PROVE  /\ settled(i).key = i.key /\ settled(i).provider = i.provider
         /\ i.capabilities # {} => settled(i) = i
         /\ DescriptorsOf(registry, i.provider) # {} => settled(i).capabilities # {}
         /\ settled(i) = Inherited(i, descriptors)
<1>1. i = Instance(i.key, i.provider, i.capabilities)
  <2>1. i \in Configured(Passed("ProviderInstance", "instances"), target)
    BY DEF IInv, InstanceInv
  <2>2. CASE i \in BuiltinInstances(target)
    BY <2>2, BuiltinInstancesDistinct
  <2>3. CASE i \notin BuiltinInstances(target)
    BY <2>1, <2>3, FromResource DEF Configured
  <2>4. QED
    BY <2>2, <2>3
<1>2. \A d \in descriptors : d.capabilities # {}
  BY BuiltinsDistinct DEF IInv, DescriptorInv, Described, Registrable
<1>3. \A d, e \in descriptors : d.id = e.id => d = e
  BY DEF IInv, DescriptorInv
<1>4. CASE i.capabilities # {}
  BY <1>4 DEF settled, Inherited
<1>5. CASE i.capabilities = {} /\ DescriptorsOf(registry, i.provider) = {}
  <2>1. {e \in descriptors : e.id = i.provider} = {}
    BY <1>5 DEF DescriptorsOf, registry
  <2>2. UNION {d.capabilities : d \in {e \in descriptors : e.id = i.provider}} = {}
    BY <2>1
  <2>3. [i EXCEPT !.capabilities = {}] = i
    BY <1>1, <1>5 DEF Instance
  <2>4. Inherited(i, descriptors) = i
    BY <1>5, <2>2, <2>3 DEF Inherited
  <2>5. QED
    BY <1>5, <2>4 DEF settled
<1>6. CASE i.capabilities = {} /\ DescriptorsOf(registry, i.provider) # {}
  <2>1. PICK d \in descriptors : d.id = i.provider
    BY <1>6 DEF DescriptorsOf, registry
  <2>2. {e \in descriptors : e.id = i.provider} = {d}
    BY <1>3, <2>1
  <2>3. DescriptorOf(registry, i) = d
    BY <2>2 DEF DescriptorOf, DescriptorsOf, registry
  <2>4. UNION {e.capabilities : e \in {f \in descriptors : f.id = i.provider}} = d.capabilities
    BY <2>2
  <2>5. settled(i) = [i EXCEPT !.capabilities = d.capabilities]
    BY <1>6, <2>3 DEF settled
  <2>6. Inherited(i, descriptors) = [i EXCEPT !.capabilities = d.capabilities]
    BY <1>6, <2>4 DEF Inherited
  <2>7. /\ [i EXCEPT !.capabilities = d.capabilities].key = i.key
        /\ [i EXCEPT !.capabilities = d.capabilities].provider = i.provider
        /\ [i EXCEPT !.capabilities = d.capabilities].capabilities = d.capabilities
    BY <1>1 DEF Instance
  <2>8. QED
    BY <1>2, <1>6, <2>5, <2>6, <2>7
<1>7. QED
  BY <1>4, <1>5, <1>6

LEMMA SettleStep ==
  ASSUME IInv, SettleInstances
  PROVE  LoopInv' /\ DescriptorInv' /\ InstanceInv' /\ RegisteredInv'
<1> USE DEF SettleInstances
<1>1. /\ LoopInv' /\ resources \in Inputs
      /\ diags \subseteq diags'
  BY DEF IInv, LoopInv
<1>2. /\ Passed("ProviderInstance", "instances") = Own(resources, "ProviderInstance")
      /\ Passed("Provider", "providers") = Own(resources, "Provider")
      /\ Passed("ProviderInstance", "instances")' = Own(resources, "ProviderInstance")
      /\ Passed("Provider", "providers")' = Own(resources, "Provider")
  BY RangeEmpty DEF Passed
<1>3. /\ descriptors = Described(Own(resources, "Provider"))
      /\ instances = Configured(Own(resources, "ProviderInstance"), target)
  BY <1>2 DEF IInv, DescriptorInv, InstanceInv
<1>4. \A i \in instances :
        /\ settled(i).key = i.key /\ settled(i).provider = i.provider
        /\ DescriptorsOf(registry, i.provider) # {} => settled(i).capabilities # {}
        /\ settled(i) = Inherited(i, descriptors)
  BY SettledFacts
<1>5. instances' = {settled(i) : i \in instances}
  OBVIOUS
<1>6. DescriptorInv'
  BY <1>1, <1>2 DEF IInv, DescriptorInv, Diagnosed
<1>7. InstanceInv'
  <2>1. \A i, j \in instances' : i.key = j.key => i = j
    BY <1>4, <1>5 DEF IInv, InstanceInv
  <2>2. IsFiniteSet(instances')
    <3> DEFINE f == [i \in instances |-> settled(i)]
    <3>1. instances' = {f[i] : i \in instances}
      BY <1>5
    <3>2. IsFiniteSet(instances)
      BY DEF IInv, InstanceInv
    <3> HIDE DEF f
    <3>3. IsFiniteSet({f[i] : i \in instances})
      BY <3>2, FiniteImage
    <3>4. QED
      BY <3>1, <3>3
  <2>3. \A r \in Passed("ProviderInstance", "instances") :
          \/ \E i \in instances' : /\ i.key = instanceFromResource(r, target).key
                                   /\ i.provider = instanceFromResource(r, target).provider
          \/ Diagnosed(r)'
    BY <1>1, <1>4, <1>5 DEF IInv, InstanceInv, Diagnosed
  <2>4. QED
    BY <1>2, <2>1, <2>2, <2>3 DEF InstanceInv
<1>8. registry' = RegistryOf(resources, target)
  <2>1. instances' = {Inherited(i, descriptors) : i \in instances}
    BY <1>4, <1>5
  <2>2. QED
    BY <1>1, <1>3, <2>1, RegistryOfIs DEF registry
<1>9. InstancesSelectable'
  <2> SUFFICES ASSUME diags' = {}, NEW i \in instances
               PROVE  \E c \in settled(i).capabilities :
                        settled(i) \in CapabilityCandidates(registry', c, settled(i).key.target)
    BY <1>5 DEF InstancesSelectable
  <2>1. DescriptorsOf(registry, i.provider) # {}
    BY DEF SettleInstances
  <2>2. \A d \in DescriptorsOf(registry, i.provider) : targetCompatible(d, i.key.target)
    BY DEF SettleInstances
  <2>3. PICK c \in settled(i).capabilities : TRUE
    BY <1>4, <2>1
  <2>4. DescriptorsOf(registry', i.provider) = DescriptorsOf(registry, i.provider)
    BY DEF DescriptorsOf, registry
  <2>5. settled(i) \in registry'.instances
    BY <1>5 DEF registry
  <2>6. settled(i) \in CapabilityCandidates(registry', c, settled(i).key.target)
    BY <1>4, <2>1, <2>2, <2>3, <2>4, <2>5 DEF CapabilityCandidates
  <2>7. QED
    BY <2>3, <2>6
<1>10. RegisteredInv'
  BY <1>8, <1>9 DEF RegisteredInv
<1>11. QED
  BY <1>1, <1>6, <1>7, <1>10

-----------------------------------------------------------------------------
(* The definitions and the bindings. *)

\* What the later steps leave alone.
LEMMA ProvidersSettled ==
  ASSUME IInv, pc \in {"registered", "definitions", "bindings", "done"},
         pc' \in {"definitions", "bindings", "done"},
         UNCHANGED providers, diags \subseteq diags'
  PROVE  DescriptorInv' /\ InstanceInv' /\ RegisteredInv'
<1> USE DEF providers
<1>1. /\ Passed("ProviderInstance", "instances")' = Passed("ProviderInstance", "instances")
      /\ Passed("Provider", "providers")' = Passed("Provider", "providers")
  BY DEF Passed
<1>2. DescriptorInv'
  BY <1>1 DEF IInv, DescriptorInv, Diagnosed
<1>3. InstanceInv'
  BY <1>1 DEF IInv, InstanceInv, Diagnosed
<1>4. RegisteredInv'
  BY DEF IInv, RegisteredInv, registry
<1>5. QED
  BY <1>2, <1>3, <1>4

LEMMA RegisterKeepsMaps ==
  ASSUME IInv, NEW def, defs' = Register(defs, def),
         diags \subseteq diags', diags' = {} => ~RegisterFails(defs, def)
  PROVE  DefinitionsInv'
<1>1. CASE def.capability \in DOMAIN defs.byCapability
  BY <1>1 DEF IInv, DefinitionsInv, MapsAgree, Register
<1>2. CASE def.capability \notin DOMAIN defs.byCapability
  <2>1. /\ defs'.byCapability = Stored(defs.byCapability, def.capability, def)
        /\ defs'.byKind = IF def.kind = Unset \/ def.kind \in DOMAIN defs.byKind THEN defs.byKind
                          ELSE Stored(defs.byKind, def.kind, def)
    BY <1>2 DEF Register
  <2>2. \A c \in DOMAIN defs'.byCapability : defs'.byCapability[c].capability = c
    BY <2>1 DEF Stored, IInv, DefinitionsInv
  <2>3. ASSUME diags' = {}, NEW c \in DOMAIN defs'.byCapability,
               defs'.byCapability[c].kind # Unset
        PROVE  LET k == defs'.byCapability[c].kind IN
               k \in DOMAIN defs'.byKind /\ defs'.byKind[k] = defs'.byCapability[c]
    <3>1. diags = {} /\ def.kind \notin DOMAIN defs.byKind
      BY <2>3 DEF RegisterFails
    <3>2. CASE c = def.capability
      BY <2>1, <2>3, <3>1, <3>2 DEF Stored
    <3>3. CASE c # def.capability
      <4>1. c \in DOMAIN defs.byCapability /\ defs'.byCapability[c] = defs.byCapability[c]
        BY <2>1, <3>3 DEF Stored
      <4>2. LET k == defs.byCapability[c].kind IN
            k \in DOMAIN defs.byKind /\ defs.byKind[k] = defs.byCapability[c]
        BY <2>3, <3>1, <4>1 DEF IInv, DefinitionsInv, MapsAgree
      <4>3. \A k \in DOMAIN defs.byKind :
              k \in DOMAIN defs'.byKind /\ defs'.byKind[k] = defs.byKind[k]
        BY <2>1, <3>1 DEF Stored
      <4>4. QED
        BY <4>1, <4>2, <4>3
    <3>4. QED
      BY <3>2, <3>3
  <2>4. QED
    BY <2>2, <2>3 DEF DefinitionsInv, MapsAgree
<1>3. QED
  BY <1>1, <1>2

\* What a binding resolves to is told by the registries, which the loop over
\* the bindings leaves alone.
LEMMA ResolvesToKept ==
  ASSUME UNCHANGED <<providers, defs>>, NEW r, NEW b
  PROVE  ResolvesTo(r, b)' <=> ResolvesTo(r, b)
<1>1. registry' = registry
  BY DEF providers, registry
<1>2. QED
  BY <1>1 DEF ResolvesTo, providers

\* The steps that resolve nothing.
LEMMA NothingResolved ==
  ASSUME IInv, UNCHANGED <<providers, resolved>>, diags \subseteq diags',
         \/ resolved = {} /\ pc' # "done"
         \/ pc \in {"bindings", "done"} /\ pc' = pc /\ UNCHANGED defs
         \/ pc = "bindings" /\ pc' = "done" /\ UNCHANGED defs,
         Range(todo') \subseteq Range(todo) \/ resolved = {}
  PROVE  ResolvedInv'
<1>1. CASE resolved = {}
  BY <1>1 DEF ResolvedInv
<1>2. CASE resolved # {}
  <2>1. UNCHANGED defs /\ Range(todo') \subseteq Range(todo) /\ pc' \in {"bindings", "done"}
    BY <1>2
  <2>2. \A b \in resolved : \E r \in Range(resources) \ Range(todo') : b.id = r.id
    BY <2>1 DEF IInv, ResolvedInv
  <2>3. \A b, c \in resolved : b.id = c.id => b = c
    BY DEF IInv, ResolvedInv
  <2>4. diags' = {} => \A b \in resolved : \E r \in Range(resources) : ResolvesTo(r, b)'
    BY <2>1, ResolvesToKept DEF IInv, ResolvedInv
  <2>5. UNCHANGED resources
    BY DEF providers
  <2>6. QED
    BY <2>1, <2>2, <2>3, <2>4, <2>5 DEF ResolvedInv
<1>3. QED
  BY <1>1, <1>2

LEMMA DefinitionsStep ==
  ASSUME IInv, StartDefinitions \/ RegisterDefinition \/ Registered
  PROVE  IInv'
<1>1. /\ UNCHANGED <<providers, resolved>> /\ diags \subseteq diags'
      /\ pc \in {"registered", "definitions"} /\ pc' \in {"definitions", "bindings"}
      /\ resources \in Inputs
  BY DEF StartDefinitions, RegisterDefinition, Registered, providers, IInv, LoopInv
<1>2. LoopInv'
  <2>1. CASE StartDefinitions
    BY <2>1, <1>1, OfPlatformFacts DEF StartDefinitions, IInv, LoopInv, providers
  <2>2. CASE RegisterDefinition
    BY <2>2, TakesNext DEF RegisterDefinition, IInv, providers
  <2>3. CASE Registered
    BY <2>3, <1>1, InputFacts DEF Registered, IInv, LoopInv, providers
  <2>4. QED
    BY <2>1, <2>2, <2>3
<1>3. DescriptorInv' /\ InstanceInv' /\ RegisteredInv'
  BY <1>1, ProvidersSettled
<1>4. DefinitionsInv'
  <2>1. CASE UNCHANGED defs
    BY <1>1, <2>1 DEF IInv, DefinitionsInv, MapsAgree
  <2>2. CASE ~UNCHANGED defs
    <3> DEFINE def == definitionFromResource(Head(todo))
    <3>1. /\ defs' = Register(defs, def)
          /\ diags' = IF RegisterFails(defs, def)
                        THEN diags \cup {<<"DBIND002", def.id>>} ELSE diags
      BY <2>2 DEF StartDefinitions, RegisterDefinition, Registered
    <3>2. diags' = {} => ~RegisterFails(defs, def)
      BY <3>1
    <3> HIDE DEF def
    <3>3. QED
      BY <1>1, <3>1, <3>2, RegisterKeepsMaps
  <2>3. QED
    BY <2>1, <2>2
<1>5. resolved = {}
  BY <1>1 DEF IInv, ResolvedInv
<1>6. ResolvedInv'
  BY <1>1, <1>5, NothingResolved
<1>7. QED
  BY <1>2, <1>3, <1>4, <1>6 DEF IInv

LEMMA ResolveOneStep ==
  ASSUME IInv, ResolveOne
  PROVE  ResolvedInv'
<1> USE DEF ResolveOne
<1> DEFINE res == Head(todo)
           capability == bindingCapability(res, defs)
           new == resolveBinding(res, defs, resources, registry, target)
           found == resolutionDiags(res, capability, defs.byCapability[capability], new,
                                    resources, registry, target)
<1>1. /\ res \in Range(todo) /\ res \in Range(resources)
      /\ Range(todo') = Range(todo) \ {res}
  BY TakesNext DEF IInv, providers
<1>2. /\ resolved' = resolved \cup {new} /\ new.id = res.id
      /\ UNCHANGED <<resources, pc>>
  BY DEF resolveBinding, providers
<1>3. \A b \in resolved : b.id # res.id
  BY <1>1, InputFacts DEF IInv, LoopInv, ResolvedInv
<1>4. \A b, c \in resolved' : b.id = c.id => b = c
  BY <1>2, <1>3 DEF IInv, ResolvedInv
<1>5. \A b \in resolved' : \E r \in Range(resources) \ Range(todo') : b.id = r.id
  BY <1>1, <1>2 DEF IInv, ResolvedInv
<1>6. ASSUME diags' = {}, NEW b \in resolved'
      PROVE  \E r \in Range(resources) : ResolvesTo(r, b)'
  <2>1. diags = {} /\ found = {}
    BY <1>6
  <2>2. ResolvesTo(res, new)
    BY <2>1 DEF ResolvesTo
  <2> HIDE DEF new, res
  <2>3. \E r \in Range(resources) : ResolvesTo(r, b)
    BY <1>1, <1>2, <2>1, <2>2 DEF IInv, ResolvedInv
  <2>4. UNCHANGED <<providers, defs>>
    OBVIOUS
  <2>5. QED
    BY <2>3, <2>4, ResolvesToKept
<1>7. pc' = "bindings"
  BY <1>2
<1>8. QED
  BY <1>2, <1>4, <1>5, <1>6, <1>7 DEF ResolvedInv

LEMMA ResolveStep ==
  ASSUME IInv, Resolve \/ Done
  PROVE  IInv'
<1> USE DEF Resolve, NoBinding, NoCapability, ResolveOne, ResolvedAll, Done, vars, registryVars
<1>1. /\ UNCHANGED <<providers, defs>> /\ diags \subseteq diags'
      /\ pc \in {"bindings", "done"} /\ pc' \in {"bindings", "done"}
  BY DEF providers
<1>2. LoopInv' /\ Range(todo') \subseteq Range(todo)
  <2>1. CASE pc = "bindings" /\ todo # <<>> /\ todo' = Tail(todo) /\ pc' = pc
    BY <1>1, <2>1, TakesNext DEF IInv, providers
  <2>2. CASE UNCHANGED todo /\ (pc' = "done" => todo = <<>>)
    BY <1>1, <2>2 DEF IInv, LoopInv, providers
  <2>3. QED
    BY <2>1, <2>2 DEF IInv, LoopInv
<1>3. DescriptorInv' /\ InstanceInv' /\ RegisteredInv'
  BY <1>1, ProvidersSettled
<1>4. DefinitionsInv'
  BY <1>1 DEF IInv, DefinitionsInv, MapsAgree
<1>5. ResolvedInv'
  <2>1. CASE ResolveOne
    BY <2>1, ResolveOneStep
  <2>2. CASE ~ResolveOne
    <3>1. UNCHANGED resolved
      BY <2>2
    <3>2. pc' = pc \/ (pc = "bindings" /\ pc' = "done")
      BY <2>2
    <3>3. QED
      BY <1>1, <1>2, <3>1, <3>2, NothingResolved
  <2>3. QED
    BY <2>1, <2>2
<1>6. QED
  BY <1>2, <1>3, <1>4, <1>5 DEF IInv

LEMMA StepIInv == IInv /\ [Next]_vars => IInv'
<1> SUFFICES ASSUME IInv, [Next]_vars PROVE IInv'
  OBVIOUS
<1>1. CASE BuildRegistry /\ UNCHANGED <<defs, resolved>>
  <2>1. LoopInv' /\ DescriptorInv' /\ InstanceInv' /\ RegisteredInv'
    BY <1>1, BuiltinDescriptorsStep, DescriptorStep, BuiltinInstancesStep, InstanceStep,
       SettleStep DEF BuildRegistry
  <2>2. QED
    BY <1>1, <2>1, NotYetResolved DEF IInv
<1>2. CASE StartDefinitions \/ RegisterDefinition \/ Registered
  BY <1>2, DefinitionsStep
<1>3. CASE Resolve \/ Done
  BY <1>3, ResolveStep
<1>4. CASE UNCHANGED vars
  <2>1. UNCHANGED <<resources, target, pc, todo, descriptors, instances, diags, defs, resolved>>
    BY <1>4 DEF vars, registryVars
  <2>2. LoopInv' /\ DescriptorInv'
    BY <2>1 DEF IInv, LoopInv, DescriptorInv, Passed, Diagnosed
  <2>3. InstanceInv'
    BY <2>1 DEF IInv, InstanceInv, Passed, Diagnosed
  <2>4. RegisteredInv' /\ DefinitionsInv'
    BY <2>1 DEF IInv, RegisteredInv, InstancesSelectable, registry, DefinitionsInv, MapsAgree
  <2>5. ResolvedInv'
    BY <2>1, ResolvesToKept DEF IInv, ResolvedInv, providers
  <2>6. QED
    BY <2>2, <2>3, <2>4, <2>5 DEF IInv
<1>5. QED
  BY <1>1, <1>2, <1>3, <1>4 DEF Next

LEMMA SpecIInv == Spec => []IInv
<1>1. QED
  BY InitIInv, StepIInv, PTL DEF Spec

-----------------------------------------------------------------------------
(* What follows for every set of specifications. *)

\* The identities are keys of the registries, a definition is found under its
\* capability, a resource resolves once.
THEOREM TypeCorrect == Spec => []TypeOK
<1>1. IInv => TypeOK
  BY DEF IInv, TypeOK, RegistryTypeOK, LoopInv, DescriptorInv, InstanceInv, DefinitionsInv,
         ResolvedInv
<1>2. QED
  BY <1>1, SpecIInv, PTL

\* Whatever a specification declares is in the registries or is reported, what
\* is in them can be selected, and the loops make the registry that RegistryOf
\* says; the maps of definitions agree while nothing is reported.
THEOREM RegistriesAreSound == Spec => []RegistriesSound
<1>1. IInv => RegistriesSound
  <2> SUFFICES ASSUME IInv PROVE RegistriesSound
    OBVIOUS
  <2>1. ASSUME pc = "registered" PROVE NothingDropped
    <3>1. /\ Passed("ProviderInstance", "instances") = Own(resources, "ProviderInstance")
          /\ Passed("Provider", "providers") = Own(resources, "Provider")
      BY <2>1 DEF Passed
    <3>2. \A r \in Own(resources, "Provider") :
            descriptorFromResource(r) \in descriptors \/ Diagnosed(r)
      BY <2>1, <3>1 DEF IInv, DescriptorInv
    <3>3. \A r \in Own(resources, "ProviderInstance") :
            \/ \E i \in instances : /\ i.key = instanceFromResource(r, target).key
                                    /\ i.provider = instanceFromResource(r, target).provider
            \/ Diagnosed(r)
      BY <2>1, <3>1 DEF IInv, InstanceInv
    <3>4. QED
      BY <3>2, <3>3 DEF NothingDropped, InRegistry, Own
  <2>2. QED
    BY <2>1 DEF IInv, RegisteredInv, DefinitionsInv, RegistriesSound
<1>2. QED
  BY <1>1, SpecIInv, PTL

\* No step takes a candidate from a capability or gives its identity to another
\* provider.
THEOREM CandidatesAreKept == Spec => CandidatesKept
<1> DEFINE Kept == \A c \in AllCapabilities : Candidates(c) \subseteq Candidates(c)'
<1>1. IInv /\ [Next]_vars => [Kept]_vars
  <2> SUFFICES ASSUME IInv, Next, NEW c PROVE Candidates(c) \subseteq Candidates(c)'
    BY DEF Kept
  <2> DEFINE Offers(i) ==
        /\ target = Unset \/ i.key.target \in {Unset, target}
        /\ c \in i.capabilities
        /\ \E d \in descriptors : d.id = i.provider /\ targetCompatible(d, target)
  <2>1. Candidates(c) = {<<i.key, i.provider>> : i \in {k \in instances : Offers(k)}}
    BY DEF Candidates, CapabilityCandidates, DescriptorsOf, registry
  <2>2. Candidates(c)' = {<<i.key, i.provider>> : i \in {k \in instances' : Offers(k)'}}
    BY DEF Candidates, CapabilityCandidates, DescriptorsOf, registry
  <2>3. CASE instances = {}
    BY <2>1, <2>3
  <2>4. CASE UNCHANGED <<target, descriptors>> /\ instances \subseteq instances'
    BY <2>1, <2>2, <2>4
  <2>5. CASE SettleInstances
    <3>1. /\ UNCHANGED <<target, descriptors>>
          /\ instances' = {settled(i) : i \in instances}
          /\ pc = "instances" /\ todo = <<>>
      BY <2>5 DEF SettleInstances
    <3>2. \A i \in instances : i.capabilities # {} => settled(i) = i
      BY <3>1, SettledFacts
    <3>3. \A i \in instances : c \in i.capabilities => i \in instances'
      BY <3>1, <3>2
    <3>4. QED
      BY <2>1, <2>2, <3>1, <3>3
  <2>6. CASE RegisterBuiltinDescriptors \/ RegisterDescriptor \/ RegisterBuiltinInstances
    BY <2>3, <2>6 DEF RegisterBuiltinDescriptors, RegisterDescriptor,
                      RegisterBuiltinInstances, IInv, InstanceInv
  <2>7. CASE RegisterInstance
    BY <2>4, <2>7 DEF RegisterInstance
  <2>8. CASE StartDefinitions \/ RegisterDefinition \/ Registered \/ Resolve \/ Done
    BY <2>4, <2>8 DEF StartDefinitions, RegisterDefinition, Registered, Resolve, NoBinding,
                      NoCapability, ResolveOne, ResolvedAll, Done, vars, registryVars, providers
  <2>9. QED
    BY <2>5, <2>6, <2>7, <2>8 DEF Next, BuildRegistry
<1>2. QED
  BY <1>1, SpecIInv, PTL DEF Spec, CandidatesKept

\* An end of a binding of which nothing is reported.
LEMMA EndFound ==
  ASSUME NEW ref, NEW id, NEW required \in BOOLEAN, NEW allowed, NEW s,
         NEW missing, NEW malformed, NEW unknown, NEW kind,
         ref = Absent => id = NoId,
         endDiags(ref, id, required, allowed, s, missing, malformed, unknown, kind) = {}
  PROVE  \/ id = NoId /\ ~required
         \/ Exists(s, id) /\ (allowed = {} \/ <<id.api, id.kind>> \in allowed)
<1>1. QED
  BY DEF endDiags

LEMMA AbsentIsNoId == \A r : parseRef(Absent, r) = NoId
BY DEF parseRef, Absent, Ref

\* What the resolver has found nothing wrong with.
LEMMA Honoured ==
  ASSUME IInv, NEW res \in Range(resources), NEW b, ResolvesTo(res, b)
  PROVE  /\ EndsResolved(b)
         /\ b.cdc = NoId => ProviderSuits(b)
         /\ (b.cdc = NoId /\ RefOf(ById(resources, b.id), "providerInstanceRef") = Absent) =>
              OnlyChoice(b)
<1> DEFINE capability == bindingCapability(res, defs)
           def == defs.byCapability[capability]
           typed == res.id.kind # "Binding"
           explicit == RefOf(res, "providerInstanceRef") # Absent
           named == RefId(res, "providerInstanceRef")
           found == InstancesOf(registry, InstanceKey(named, target))
           kind == res.id.kind
           sole == ResolveBinding(registry, capability, kind, target)
           cdc == IF kind = "CDCBinding" THEN RefId(res, "cdcRef") ELSE NoId
<1>1. /\ b.id = res.id /\ b.capability = capability /\ b.cdc = cdc
      /\ b.source = parseRef(SourceRef(res), res) /\ b.target = parseRef(TargetRef(res), res)
      /\ b.provider = chooseProvider(res, capability, def, cdc, resources, registry, target)
  BY DEF ResolvesTo, resolveBinding
<1>2. /\ endDiags(SourceRef(res), b.source, typed, def.sources, resources,
                  "DBIND014", "DBIND006", "DBIND008", "DBIND009") = {}
      /\ endDiags(TargetRef(res), b.target, typed, def.targets, resources,
                  "DBIND014", "DBIND007", "DBIND010", "DBIND011") = {}
      /\ ~(b.provider = NoId \/ (explicit /\ found = {}))
      /\ ~(explicit /\ \E i \in found :
             ~providerCompatibleForBinding(registry, i, def, capability, kind, target))
  BY DEF ResolvesTo, resolutionDiags
<1>3. EndsResolved(b)
  <2> HIDE DEF typed, def
  <2>1. \/ b.source = NoId /\ ~typed
        \/ Exists(resources, b.source)
           /\ (def.sources = {} \/ <<b.source.api, b.source.kind>> \in def.sources)
    <3>1. SourceRef(res) = Absent => b.source = NoId
      BY <1>1, AbsentIsNoId
    <3>2. typed \in BOOLEAN
      BY DEF typed
    <3>3. QED
      BY <1>2, <3>1, <3>2, EndFound
  <2>2. \/ b.target = NoId /\ ~typed
        \/ Exists(resources, b.target)
           /\ (def.targets = {} \/ <<b.target.api, b.target.kind>> \in def.targets)
    <3>1. TargetRef(res) = Absent => b.target = NoId
      BY <1>1, AbsentIsNoId
    <3>2. typed \in BOOLEAN
      BY DEF typed
    <3>3. QED
      BY <1>2, <3>1, <3>2, EndFound
  <2>3. QED
    BY <1>1, <2>1, <2>2 DEF EndsResolved, typed, def
<1>4. \A i : Suits(i, b) <=>
               providerCompatibleForBinding(registry, i, def, capability, kind, target)
  BY <1>1 DEF Suits
<1>5. ASSUME ~explicit, b.cdc = NoId
      PROVE  /\ \E i \in sole : def.types = {} \/ DescriptorOf(registry, i).type \in def.types
             /\ b.provider = (CHOOSE i \in sole : TRUE).key.id
  BY <1>1, <1>2, <1>5 DEF chooseProvider
<1>6. ASSUME ~explicit, b.cdc = NoId
      PROVE  \E x : /\ BindingCandidates(registry, capability, kind, target) = {x}
                    /\ sole = {x} /\ b.provider = x.key.id
                    /\ def.types = {} \/ DescriptorOf(registry, x).type \in def.types
  <2> DEFINE candidates == BindingCandidates(registry, capability, kind, target)
  <2>1. candidates \subseteq instances
    BY DEF BindingCandidates, CapabilityCandidates, registry
  <2>2. IsFiniteSet(candidates)
    BY <2>1, FS_Subset DEF IInv, InstanceInv
  <2>3. sole = candidates /\ Cardinality(candidates) = 1
    BY <1>5, <1>6 DEF ResolveBinding, Sole
  <2> HIDE DEF candidates
  <2>4. PICK x : candidates = {x}
    BY <2>2, <2>3, FS_Singleton
  <2>5. QED
    BY <1>5, <1>6, <2>3, <2>4 DEF candidates
<1>7. ASSUME b.cdc = NoId PROVE ProviderSuits(b)
  <2>1. CASE explicit
    <3>1. PICK i \in found : TRUE
      BY <1>2, <2>1
    <3>2. /\ i \in registry.instances /\ i.key.id = named
          /\ DescriptorsOf(registry, i.provider) # {}
      BY <3>1 DEF InstancesOf, InstanceKey
    <3>3. b.provider = named
      BY <1>1, <2>1 DEF chooseProvider
    <3>4. Suits(i, b)
      BY <1>2, <1>4, <2>1, <3>1
    <3>5. QED
      BY <3>2, <3>3, <3>4 DEF ProviderSuits
  <2>2. CASE ~explicit
    <3>1. PICK x : /\ BindingCandidates(registry, capability, kind, target) = {x}
                   /\ b.provider = x.key.id
                   /\ def.types = {} \/ DescriptorOf(registry, x).type \in def.types
      BY <1>6, <1>7, <2>2
    <3>2. x \in BindingCandidates(registry, capability, kind, target)
      BY <3>1
    <3>3. /\ x \in registry.instances /\ DescriptorsOf(registry, x.provider) # {}
          /\ providerCompatibleForBinding(registry, x, def, capability, kind, target)
      BY <3>1, <3>2 DEF BindingCandidates, CapabilityCandidates, providerCompatibleForBinding
    <3>4. QED
      BY <1>4, <3>1, <3>3 DEF ProviderSuits
  <2>3. QED
    BY <2>1, <2>2
<1>8. ASSUME b.cdc = NoId, RefOf(ById(resources, b.id), "providerInstanceRef") = Absent
      PROVE  OnlyChoice(b)
  <2>1. ById(resources, b.id) = res
    BY <1>1, InputFacts DEF ById, IInv, LoopInv
  <2>2. PICK x : /\ BindingCandidates(registry, capability, kind, target) = {x}
                 /\ b.provider = x.key.id
    BY <1>6, <1>8, <2>1
  <2>3. ASSUME NEW i \in registry.instances, DescriptorsOf(registry, i.provider) # {},
               Suits(i, b), targetCompatible(DescriptorOf(registry, i), target)
        PROVE  i.key.id = b.provider
    <3>1. DescriptorOf(registry, i) \in DescriptorsOf(registry, i.provider)
      BY <2>3 DEF DescriptorOf
    <3>2. providerCompatibleForBinding(registry, i, def, capability, kind, target)
      BY <1>4, <2>3
    <3>3. i \in BindingCandidates(registry, capability, kind, target)
      BY <2>3, <3>1, <3>2
         DEF BindingCandidates, CapabilityCandidates, providerCompatibleForBinding
    <3>4. QED
      BY <2>2, <3>3
  <2>4. QED
    BY <2>3 DEF OnlyChoice
<1>9. QED
  BY <1>3, <1>7, <1>8

\* Whatever a specification adds to the registries: a binding that is accepted
\* has both its ends, of kinds its definition has, and one instance that suits
\* it, the only one if the resolver had to choose.
THEOREM BindingsAreHonoured == Spec => []BindingsHonoured
<1>1. IInv => BindingsHonoured
  <2> SUFFICES ASSUME IInv, diags = {}, NEW b \in resolved
               PROVE  /\ EndsResolved(b)
                      /\ b.cdc = NoId => ProviderSuits(b)
                      /\ (/\ b.cdc = NoId
                          /\ RefOf(ById(resources, b.id), "providerInstanceRef") = Absent) =>
                           OnlyChoice(b)
    BY DEF BindingsHonoured, Accepted
  <2>1. PICK res \in Range(resources) : ResolvesTo(res, b)
    BY DEF IInv, ResolvedInv
  <2>2. QED
    BY <2>1, Honoured
<1>2. QED
  BY <1>1, SpecIInv, PTL
=============================================================================
