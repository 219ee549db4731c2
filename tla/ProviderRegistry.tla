--------------------------- MODULE ProviderRegistry ---------------------------
(***************************************************************************)
(* internal/provider/registry.go BuildRegistry: the built-in providers,    *)
(* the providers of the specification, the built-in instances for the      *)
(* target, the instances of the specification, and a last pass over all    *)
(* the instances.  It is the first part of BindingResolution, which has    *)
(* the specification.                                                      *)
(***************************************************************************)
EXTENDS Providers

CONSTANTS
  Inputs,   (* specifications: sequences of resources                      *)
  Targets   (* the targets a plan may be for                               *)

\* ValidateResources has refused a specification that has an identity twice.
ASSUME UniqueAssumption ==
  \A s \in Inputs :
    /\ s \in Seq(Range(s))
    /\ \A k \in DOMAIN s : LET id == s[k].id IN
                            id = Identity(id.api, id.kind, id.ns, id.name)
    /\ \A j, k \in DOMAIN s : s[j].id = s[k].id => j = k

VARIABLES
  resources,
  target,
  pc,
  todo,          (* what the loop has still to look at                     *)
  descriptors,
  instances,
  diags          (* pairs of a code and the resource it is about           *)

registryVars == <<resources, target, pc, todo, descriptors, instances, diags>>

registry == [descriptors |-> descriptors, instances |-> instances]

RegistryInit ==
  /\ resources \in Inputs
  /\ target \in Targets
  /\ pc = "start"
  /\ todo = <<>>
  /\ descriptors = {} /\ instances = {} /\ diags = {}

RegisterBuiltinDescriptors ==
  /\ pc = "start"
  /\ descriptors' = BuiltinDescriptors
  /\ todo' = OfPlatform(resources, "Provider")
  /\ pc' = "providers"
  /\ UNCHANGED <<resources, target, instances, diags>>

RegisterDescriptor ==
  /\ pc = "providers" /\ todo # <<>>
  /\ LET d == descriptorFromResource(Head(todo)) IN
     \/ /\ d.capabilities = {}
        /\ diags' = diags \cup {<<"DPROV001", d.id>>}
        /\ UNCHANGED descriptors
     \/ /\ d.capabilities # {} /\ DescriptorsOf(registry, d.id) # {}
        /\ diags' = diags \cup {<<"DPROV002", d.id>>}
        /\ UNCHANGED descriptors
     \/ /\ d.capabilities # {} /\ DescriptorsOf(registry, d.id) = {}
        /\ descriptors' = descriptors \cup {d}
        /\ UNCHANGED diags
  /\ todo' = Tail(todo)
  /\ UNCHANGED <<resources, target, pc, instances>>

RegisterBuiltinInstances ==
  /\ pc = "providers" /\ todo = <<>>
  /\ instances' = BuiltinInstances(target)
  /\ todo' = OfPlatform(resources, "ProviderInstance")
  /\ pc' = "instances"
  /\ UNCHANGED <<resources, target, descriptors, diags>>

RegisterInstance_Replaces ==
  /\ pc = "instances" /\ todo # <<>>
  /\ LET i == instanceFromResource(Head(todo), target) IN
       instances' = {k \in instances : k.key # i.key} \cup {i}
  /\ UNCHANGED diags
  /\ todo' = Tail(todo)
  /\ UNCHANGED <<resources, target, pc, descriptors>>

RegisterInstance_Silent ==
  /\ pc = "instances" /\ todo # <<>>
  /\ LET i == instanceFromResource(Head(todo), target) IN
       instances' = IF i.key \in {k.key : k \in instances} THEN instances
                    ELSE instances \cup {i}
  /\ UNCHANGED diags
  /\ todo' = Tail(todo)
  /\ UNCHANGED <<resources, target, pc, descriptors>>

RegisterInstance ==
  /\ pc = "instances" /\ todo # <<>>
  /\ LET res == Head(todo)
         i == instanceFromResource(res, target) IN
     \/ /\ RefOf(res, "providerRef") = Absent
        /\ diags' = diags \cup {<<"DPROV004", res.id>>}
        /\ UNCHANGED instances
     \/ /\ RefOf(res, "providerRef") # Absent /\ i.key \in {k.key : k \in instances}
        /\ diags' = diags \cup {<<"DPROV005", res.id>>}
        /\ UNCHANGED instances
     \/ /\ RefOf(res, "providerRef") # Absent /\ i.key \notin {k.key : k \in instances}
        /\ instances' = instances \cup {i}
        /\ UNCHANGED diags
  /\ todo' = Tail(todo)
  /\ UNCHANGED <<resources, target, pc, descriptors>>

\* The last pass.  What it does to one instance another does not see, so that
\* its order is none of the model's.
settled(i) ==
  IF i.capabilities = {} /\ DescriptorsOf(registry, i.provider) # {}
    THEN [i EXCEPT !.capabilities = DescriptorOf(registry, i).capabilities]
    ELSE i

SettleInstances ==
  /\ pc = "instances" /\ todo = <<>>
  /\ instances' = {settled(i) : i \in instances}
  /\ diags' = diags
       \cup {<<"DPROV006", i.key.id>> :
               i \in {k \in instances : DescriptorsOf(registry, k.provider) = {}}}
       \cup {<<"DPROV007", i.key.id>> :
               i \in {k \in instances : \E d \in DescriptorsOf(registry, k.provider) :
                                          ~targetCompatible(d, k.key.target)}}
  /\ pc' = "registered"
  /\ UNCHANGED <<resources, target, todo, descriptors>>

BuildRegistry ==
  \/ RegisterBuiltinDescriptors \/ RegisterDescriptor
  \/ RegisterBuiltinInstances \/ RegisterInstance
  \/ SettleInstances

-----------------------------------------------------------------------------
\* The identities are keys: the maps of the code have one entry for each.
RegistryTypeOK ==
  /\ resources \in Inputs /\ target \in Targets
  /\ \A d, e \in descriptors : d.id = e.id => d = e
  /\ \A i, j \in instances : i.key = j.key => i = j

\* Every Provider and ProviderInstance is in the registry or has a diagnostic.
InRegistry(res) ==
  IF res.id.kind = "Provider"
    THEN descriptorFromResource(res) \in descriptors
    ELSE \E i \in instances :
           /\ i.key = instanceFromResource(res, target).key
           /\ i.provider = instanceFromResource(res, target).provider
Diagnosed(res) == \E d \in diags : d[2] = res.id
NothingDropped ==
  \A r \in Range(resources) :
    (r.id.api = "platform" /\ r.id.kind \in {"Provider", "ProviderInstance"}) =>
      InRegistry(r) \/ Diagnosed(r)

\* When nothing is reported, every instance is a candidate for its own target,
\* for one capability at least.
InstancesSelectable ==
  diags = {} => \A i \in instances :
    \E c \in i.capabilities : i \in CapabilityCandidates(registry, c, i.key.target)

AllCapabilities ==
  UNION ({d.capabilities : d \in BuiltinDescriptors}
           \cup {ListOf(r, f) : r \in Range(resources),
                                f \in {"capabilities", "enabledCapabilities"}})
Candidates(c) == {<<i.key, i.provider>> : i \in CapabilityCandidates(registry, c, target)}
=============================================================================
