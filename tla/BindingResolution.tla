-------------------------- MODULE BindingResolution --------------------------
(***************************************************************************)
(* internal/provider/registry.go BuildRegistry, then                       *)
(* internal/binding/registry.go BuildRegistry and Resolve, as BuildPlan    *)
(* calls them: the definitions of the specification join the built-in      *)
(* ones, and each binding is given its definition, its ends and its        *)
(* provider instance.  The search for cycles that follows is               *)
(* BindingCycles.                                                          *)
(***************************************************************************)
EXTENDS ProviderRegistry, Bindings

VARIABLES
  defs,       (* the registry of definitions                               *)
  resolved

vars == <<registryVars, defs, resolved>>
providers == <<resources, target, descriptors, instances>>

Init ==
  /\ RegistryInit
  /\ defs = BuiltinRegistry
  /\ resolved = {}

StartDefinitions ==
  /\ pc = "registered"
  /\ todo' = OfPlatform(resources, "BindingDefinition")
  /\ pc' = "definitions"
  /\ UNCHANGED <<providers, defs, resolved, diags>>

RegisterDefinition ==
  /\ pc = "definitions" /\ todo # <<>>
  /\ LET def == definitionFromResource(Head(todo)) IN
     IF def.capability = Unset
       THEN /\ diags' = diags \cup {<<"DBIND001", def.id>>}
            /\ UNCHANGED defs
       ELSE /\ defs' = Register(defs, def)
            /\ diags' = IF RegisterFails(defs, def)
                          THEN diags \cup {<<"DBIND002", def.id>>} ELSE diags
  /\ todo' = Tail(todo)
  /\ UNCHANGED <<providers, pc, resolved>>

Registered ==
  /\ pc = "definitions" /\ todo = <<>>
  /\ todo' = resources
  /\ pc' = "bindings"
  /\ UNCHANGED <<providers, defs, resolved, diags>>

NoBinding ==
  /\ pc = "bindings" /\ todo # <<>>
  /\ ~IsBinding(Head(todo), defs)
  /\ todo' = Tail(todo)
  /\ UNCHANGED <<providers, pc, defs, resolved, diags>>

NoCapability ==
  /\ pc = "bindings" /\ todo # <<>>
  /\ LET res == Head(todo) IN
     /\ IsBinding(res, defs)
     /\ bindingCapability(res, defs) \notin DOMAIN defs.byCapability
     /\ diags' = diags \cup
          {<<IF bindingCapability(res, defs) = Unset THEN "DBIND004" ELSE "DBIND005", res.id>>}
  /\ todo' = Tail(todo)
  /\ UNCHANGED <<providers, pc, defs, resolved>>

ResolveOne_NoDiags ==
  /\ pc = "bindings" /\ todo # <<>>
  /\ IsBinding(Head(todo), defs)
  /\ bindingCapability(Head(todo), defs) \in DOMAIN defs.byCapability
  /\ resolved' = resolved \cup {resolveBinding(Head(todo), defs, resources, registry, target)}
  /\ todo' = Tail(todo)
  /\ UNCHANGED <<providers, pc, defs, diags>>

\* A binding with diagnostics is resolved all the same.
ResolveOne ==
  /\ pc = "bindings" /\ todo # <<>>
  /\ LET res == Head(todo)
         capability == bindingCapability(res, defs)
         b == resolveBinding(res, defs, resources, registry, target)
     IN /\ IsBinding(res, defs)
        /\ capability \in DOMAIN defs.byCapability
        /\ resolved' = resolved \cup {b}
        /\ diags' = diags \cup
             {<<code, res.id>> : code \in
                resolutionDiags(res, capability, defs.byCapability[capability], b,
                                resources, registry, target)}
  /\ todo' = Tail(todo)
  /\ UNCHANGED <<providers, pc, defs>>

ResolvedAll_Early ==
  /\ pc = "bindings"
  /\ pc' = "done"
  /\ UNCHANGED <<providers, todo, defs, resolved, diags>>

ResolvedAll ==
  /\ pc = "bindings" /\ todo = <<>>
  /\ pc' = "done"
  /\ UNCHANGED <<providers, todo, defs, resolved, diags>>

Resolve == NoBinding \/ NoCapability \/ ResolveOne \/ ResolvedAll

Done == pc = "done" /\ UNCHANGED vars

Next ==
  \/ BuildRegistry /\ UNCHANGED <<defs, resolved>>
  \/ StartDefinitions \/ RegisterDefinition \/ Registered \/ Resolve \/ Done

Spec == Init /\ [][Next]_vars

-----------------------------------------------------------------------------
Accepted == pc = "done" /\ diags = {}

TypeOK ==
  /\ RegistryTypeOK
  /\ pc \in {"start", "providers", "instances", "registered", "definitions", "bindings", "done"}
  /\ \A c \in DOMAIN defs.byCapability : defs.byCapability[c].capability = c
  /\ \A b, c \in resolved : b.id = c.id => b = c
  /\ pc = "done" => todo = <<>>

\* "Built-in providers use the same registry path as user providers"
\* (docs/adrs/ADR-0054-providers-and-capabilities.md:7): a specification can add
\* candidates for a capability and so make a choice ambiguous, but no step
\* takes a candidate away or gives its identity to another provider.
CandidatesKept == [][\A c \in AllCapabilities : Candidates(c) \subseteq Candidates(c)']_vars

\* Register enters a definition under its capability before it looks at its
\* kind (internal/binding/registry.go:94): a registry without an error has the
\* same definition for a kind and for that definition's capability.
MapsAgree ==
  diags = {} => \A c \in DOMAIN defs.byCapability :
    LET def == defs.byCapability[c] IN
      def.kind # Unset => def.kind \in DOMAIN defs.byKind /\ defs.byKind[def.kind] = def

\* What a specification declares is in the registries or is reported, what they
\* hold can be selected, and the loops end with the registry that RegistryOf
\* says, which the planners are given.
RegistriesSound ==
  /\ pc = "registered" => NothingDropped /\ InstancesSelectable
  /\ pc = "registered" => registry = RegistryOf(resources, target)
  /\ MapsAgree

\* The ends of a binding are there and of a kind its definition has.
EndsResolved(b) ==
  \A end \in {"source", "target"} :
    LET def == defs.byCapability[b.capability]
        kinds == IF end = "source" THEN def.sources ELSE def.targets
    IN \/ b[end] = NoId /\ b.id.kind = "Binding"
       \/ Exists(resources, b[end]) /\ (kinds = {} \/ <<b[end].api, b[end].kind>> \in kinds)

\* A binding that names its provider, or is left to be given one, has one that
\* suits it; the one that is given is the only one that does.
Suits(i, b) ==
  providerCompatibleForBinding(registry, i, defs.byCapability[b.capability], b.capability,
                               b.id.kind, target)
ProviderSuits(b) ==
  \E i \in registry.instances :
    i.key.id = b.provider /\ DescriptorsOf(registry, i.provider) # {} /\ Suits(i, b)
OnlyChoice(b) ==
  \A i \in registry.instances :
    (/\ DescriptorsOf(registry, i.provider) # {} /\ Suits(i, b)
     /\ targetCompatible(DescriptorOf(registry, i), target)) => i.key.id = b.provider

\* "The resolver validates references, provider compatibility, cycles"
\* (docs/adrs/ADR-0055-bindings.md:7) and "Provider instances are selected by
\* capability, target compatibility, and typed binding kind"
\* (docs/specification/reference.md:96): so for every binding that is accepted,
\* whatever else the specification adds to the registries.
BindingsHonoured ==
  Accepted => \A b \in resolved :
    /\ EndsResolved(b)
    /\ b.cdc = NoId => ProviderSuits(b)
    /\ (b.cdc = NoId /\ RefOf(ById(resources, b.id), "providerInstanceRef") = Absent) =>
         OnlyChoice(b)
=============================================================================
