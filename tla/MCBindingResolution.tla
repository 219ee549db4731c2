------------------------- MODULE MCBindingResolution -------------------------
(* Instances of BindingResolution for TLC. *)
EXTENDS BindingResolution

\* What registering the built-in definitions one by one makes of no definitions.
NoDefinitions == [byCapability |-> <<>>, byName |-> <<>>, byKind |-> <<>>]
ASSUME BuiltinRegistry =
  FoldSet(LAMBDA def, made : Register(made, def), NoDefinitions, BuiltinDefinitions)

MCRes(kind, name, refs, vals, lists) ==
  Resource(Identity(apiVersionForKind(kind), kind, Default, <<name>>), refs, vals, lists)
MCIn(ns, kind, name, refs, vals, lists) ==
  Resource(Identity(apiVersionForKind(kind), kind, <<ns>>, <<name>>), refs, vals, lists)
MCLocal(name) == Short("ProviderInstance", <<"local">> \o name)

\* The resources that the bindings are between.
MCEnds ==
  <<MCRes("RelationalSource", "orders", <<>>, <<>>, <<>>),
    MCRes("EventStream", "events", <<>>, <<>>, <<>>),
    MCRes("ObjectStore", "archive", <<>>, <<>>, <<>>),
    MCRes("AuditStore", "audit", <<>>, <<>>, <<>>)>>

\* A second instance of the provider of change streams, a provider of object
\* stores for other bindings only, definitions of a new capability, of a built-in
\* one, of a new capability for a built-in kind.
MCContext ==
  <<MCRes("BindingDefinition", "copy", <<>>,
          [capability |-> "copy", bindingKind |-> "CopyBinding"], [providerTypes |-> {"store"}]),
    MCRes("BindingDefinition", "cdc", <<>>,
          [capability |-> "store.object"], <<>>),
    MCRes("BindingDefinition", "other", <<>>,
          [capability |-> "other", bindingKind |-> "CDCBinding"], <<>>),
    MCRes("Provider", "store", <<>>, [type |-> "store"],
          [capabilities |-> {"store.object", "copy"}, bindingKinds |-> {"AuditBinding", "Binding"}]),
    MCRes("ProviderInstance", "store", [providerRef |-> Short("Provider", <<"store">>)], <<>>, <<>>),
    MCRes("ProviderInstance", "second",
          [providerRef |-> Short("Provider", <<"local", "cdc">>)], <<>>, <<>>)>>

Orders == Short("RelationalSource", <<"orders">>)
Events == Short("EventStream", <<"events">>)
Archive == Short("ObjectStore", <<"archive">>)

\* The binding of each input.
MCCDC(refs) ==
  MCRes("CDCBinding", "capture", [sourceRef |-> Orders, streamRef |-> Events] @@ refs, <<>>, <<>>)
MCBindings ==
  {MCCDC(<<>>), MCCDC([providerInstanceRef |-> Short("ProviderInstance", <<"second">>)]),
   MCCDC([providerInstanceRef |-> MCLocal(<<"object", "store">>)]),
   MCCDC([cdcRef |-> Malformed]), MCCDC([cdcRef |-> Short("CDCInstance", <<"gone">>)]),
   MCRes("CDCBinding", "capture", [sourceRef |-> Events, streamRef |-> Malformed], <<>>, <<>>),
   MCRes("CDCBinding", "capture", [sourceRef |-> Orders], <<>>, <<>>),
   MCRes("StreamArchiveBinding", "keep", [streamRef |-> Events, objectStoreRef |-> Archive], <<>>, <<>>),
   MCRes("Binding", "generic", [sourceRef |-> Events, targetRef |-> Archive],
         [capability |-> "copy"], <<>>),
   MCRes("Binding", "generic", [sourceRef |-> Events,
                                bindingDefinitionRef |-> Short("BindingDefinition", <<"cdc">>)],
         <<>>, <<>>),
   MCRes("Binding", "generic", [sourceRef |-> Events], <<>>, <<>>),
   MCRes("CopyBinding", "typed", <<>>, <<>>, <<>>),
   Resource(Identity("other", "Binding", Default, <<"generic">>),
            [sourceRef |-> Events], [capability |-> "copy"], <<>>)}

MCProvider(name, lists) ==
  Resource(Identity("platform", "Provider", Default, name), <<>>, <<>>, lists)
MCInstance(name, refs, vals, lists) ==
  Resource(Identity("platform", "ProviderInstance", Default, name), refs, vals, lists)

\* A provider of its own, one with the name of a built-in one, one without a
\* capability; instances of the first, of a built-in one for another target, of
\* one that has the name of a built-in instance, of none and of an unknown one.
MCPool ==
  <<MCProvider(<<"a">>, [capabilities |-> {"store.object", "quality"},
                         targetCompatibility |-> {"compose"}]),
    MCProvider(<<"local", "cdc">>, [capabilities |-> {"source.change-stream"}]),
    MCProvider(<<"empty">>, [bindingKinds |-> {"CDCBinding"}]),
    MCInstance(<<"a">>, [providerRef |-> Short("Provider", <<"a">>)], <<>>, <<>>),
    MCInstance(<<"b">>, [providerRef |-> Ref(1, "", "", None, <<"local", "object", "store">>)],
               [target |-> "other"], <<>>),
    MCInstance(<<"local", "object", "store">>,
               [providerRef |-> InNamespace("Provider", Default, <<"a">>)], <<>>,
               [capabilities |-> {"store.object"}]),
    MCInstance(<<"none">>, <<>>, <<>>, <<>>),
    MCInstance(<<"unknown">>, [providerRef |-> Short("Provider", <<"empty">>)], <<>>,
               [enabledCapabilities |-> {"quality"}])>>

\* Both: every specification of the second pool, and every binding with every
\* specification of the first; and every binding without the source it may name.
MCInputs ==
  {c \o MCEnds \o <<b>> : c \in AllSubSeqs(MCContext), b \in MCBindings}
    \cup {Tail(MCEnds) \o <<b>> : b \in MCBindings}
    \cup AllSubSeqs(MCPool)
MCTargets == {"", "compose"}
=============================================================================
