------------------------------ MODULE MCBuildPlan ------------------------------
(* Instances of BuildPlan for TLC. *)
EXTENDS BuildPlan

MCIn(ns, kind, name, refs, vals, lists) ==
  Resource(Identity(apiVersionForKind(kind), kind, ns, name), refs, vals, lists)
MCRes(kind, name, refs, vals, lists) == MCIn(Default, kind, name, refs, vals, lists)

LocalProvider == [providerInstanceRef |-> InNamespace("ProviderInstance", Default, <<"local", "cdc">>)]
Verified == [verification |-> {"reachable"}]

\* What every specification has: one database and one stream.
MCBase ==
  <<MCRes("ConnectorClass", <<"debezium">>, <<>>, [interface |-> "native", transport |-> "tcp"],
          [operations |-> {"change-stream"}, compatibleEngines |-> {"postgresql"}]),
    MCRes("SecretReference", <<"secret">>, <<>>, [backend |-> "env"], [keys |-> {"username", "password"}]),
    MCRes("DatabaseClass", <<"pg">>, <<>>, [engine |-> "postgresql"], <<>>),
    MCRes("DatabaseInstance", <<"db">>, [classRef |-> Short("DatabaseClass", <<"pg">>)], <<>>, <<>>)>>
Connection1 ==
  MCRes("DatabaseConnection", <<"db">>,
        [instanceRef |-> Short("DatabaseInstance", <<"db">>),
         connectorClassRef |-> Short("ConnectorClass", <<"debezium">>),
         credentialsRef |-> Short("SecretReference", <<"secret">>)],
        [endpointHost |-> "db", endpointPort |-> "5432"], <<>>)
Orders(refs, vals) == MCRes("RelationalSource", <<"orders">>, refs, vals, Verified)
Connected == [connectionRef |-> Short("DatabaseConnection", <<"db">>)]
Stream(name, refs, vals, lists) == MCRes("EventStream", name, refs, vals, lists)
Events == Stream(<<"events">>, <<>>, <<>>, <<>>)

Class(refs, lists) == MCRes("CDCClass", <<"kafka">>, refs, [engine |-> "kafka-connect"], lists)
Runtime1(name, refs, vals) ==
  MCRes("CDCInstance", name, [classRef |-> Short("CDCClass", <<"kafka">>)] @@ refs, vals, Verified)
External(policy) == [ownership |-> "external", endpointUrl |-> "url", managementPolicy |-> policy]
Main(vals) == <<Class(<<>>, <<>>), Runtime1(<<"main">>, LocalProvider, vals)>>

To(stream) == InNamespace("EventStream", Default, stream)
Capture1(ns, name, refs, vals) ==
  MCIn(ns, "CDCBinding", name,
       refs @@ [sourceRef |-> InNamespace("RelationalSource", Default, <<"orders">>),
                streamRef |-> To(<<"events">>)], vals, <<>>)
On(name) == [cdcRef |-> InNamespace("CDCInstance", Default, name)]

\* Captures: one or two of a source, a connection to which may be missing; two
\* runtimes, one of them observed, one called default-cdc, or none; a production
\* profile or not; names that are the same or become so when they are joined.
MCSources ==
  {<<Connection1, Orders(Connected, <<>>)>>, <<Orders(<<>>, [ownership |-> "external"])>>,
   <<Orders(Connected, <<>>)>>, <<>>}
MCProfiles ==
  {<<>>, <<MCRes("RuntimeProfile", <<"p">>, <<>>, [target |-> "compose", class |-> "production"], <<>>)>>}
MCRuntimes ==
  {<<>>, Main(<<>>),
   <<Class(LocalProvider, <<>>), Runtime1(<<"default", "cdc">>, LocalProvider, <<>>),
     Runtime1(<<"main">>, LocalProvider, [replicas |-> "2"])>>,
   <<Class(<<>>, [supportedConnectorClasses |-> {Short("ConnectorClass", <<"debezium">>)}]),
     Runtime1(<<"main">>, LocalProvider, External("ManagedConnectors")),
     MCIn(<<"a">>, "CDCInstance", <<"b">>,
          LocalProvider @@ [classRef |-> Short("CDCClass", <<"kafka">>)], <<>>, <<>>),
     Runtime1(<<"a", "b">>, LocalProvider, <<>>)>>,
   <<Class(<<>>, <<>>),
     Runtime1(<<"main">>, [providerInstanceRef |-> Short("ProviderInstance", <<"local", "gone">>)], <<>>)>>}
MCCaptures ==
  {<<c>> : c \in {Capture1(Default, <<"x">>, <<>>, v) : v \in {<<>>, [state |-> "disabled"]}}
                  \cup {Capture1(Default, <<"x">>, [cdcRef |-> Malformed], [state |-> "planned"]),
                        Capture1(Default, <<"x">>, [cdcRef |-> Malformed],
                                 [ownership |-> "external", state |-> "planned"]),
                        Capture1(Default, <<"x">>, On(<<"gone">>), <<>>),
                        Capture1(Default, <<"x">>, [cdcRef |-> To(<<"events">>)], <<>>),
                        Capture1(Default, <<"x">>, On(<<"main">>),
                                 [ownership |-> "external", state |-> "planned"])}}
    \cup {<<Capture1(<<"a">>, <<"b", "c">>, On(<<"main">>), <<>>),
            Capture1(<<"a", "b">>, <<"c">>, r, <<>>)>> :
            r \in {<<>>, On(<<"main">>), On(<<"default", "cdc">>), [connectorName |-> Named(<<"own">>)]}}
MCCaptureInputs ==
  {p \o MCBase \o <<Events>> \o r \o s \o c :
     p \in MCProfiles, r \in MCRuntimes, s \in MCSources, c \in MCCaptures}

\* Operations: two, in one namespace or two, on a runtime or on the binding of
\* either namespace, with one key or two.
MCOp(ns, name, ref, action, key, params) ==
  MCIn(ns, "CDCOperation", <<name>>, [targetRef |-> ref],
       [action |-> action, idempotencyKey |-> key, parameters |-> params, backupRef |-> "b",
        approvalRequired |-> "true"],
       [preconditions |-> {"ConnectorPaused"}])
MCOrders == MCBase \o <<Events, Connection1, Orders(Connected, <<>>)>>
MCBinding == Short("CDCBinding", <<"x">>)
MCOperationInputs ==
  {MCOrders \o Main(r) \o <<Capture1(<<"a">>, <<"x">>, b, <<>>), Capture1(Default, <<"x">>, b, <<>>),
     MCOp(<<"a">>, "one", MCBinding, x, "k", "p"), MCOp(ns, "two", t, y, key, "p")>> :
     r \in {<<>>, External("ObserveOnly"), External("ManagedConnectors")},
     b \in {<<>>, On(<<"main">>)}, x \in {"PauseConnector", "Inspect"},
     ns \in {<<"a">>, Default},
     t \in {MCBinding, InNamespace("CDCBinding", Default, <<"x">>),
            InNamespace("CDCInstance", Default, <<"main">>)},
     y \in {"PauseConnector", "Inspect", "RestartWorker", "ResetOffsets", "Delete"},
     key \in {"k", "l"}}

\* Policies: each of their rules, on a source that is not ours, an override and
\* a binding that records lineage.
MCPolicies ==
  {<<>>} \cup {<<MCRes("PlatformPolicy", <<"policy">>, <<>>, v, <<>>)>> :
                 v \in {<<>>, [requiresLineage |-> "true"], [allowExternalOwnership |-> "false"],
                        [allowExternalTrustOverrides |-> "true"], [validationMode |-> "permissive"],
                        [allowOverrides |-> "true", requiresAudit |-> "true"]}}
MCForeign ==
  {<<Stream(<<"theirs">>, <<>>, v, l)>> :
     v \in {[ownership |-> "imported", trustPolicy |-> "theirs"], [external |-> "true"],
            [ownership |-> "external", lifecycle |-> "disabled"]},
     l \in {<<>>, Verified}}
  \cup {<<Stream(<<"ours">>, <<>>, <<>>, [overrides |-> o])>> :
          o \in {{"complete"}, {"incomplete"}}}
MCLineage ==
  {<<>>} \cup {<<MCRes("LineageSink", <<"sink">>, <<>>, <<>>, <<>>),
                 MCRes("LineageBinding", <<"trace">>,
                       [sourceRef |-> Short("RelationalSource", <<"orders">>),
                        sinkRef |-> Short("LineageSink", <<"sink">>)], [state |-> v], <<>>)>> :
                 v \in {"disabled", "active"}}
MCPolicyInputs ==
  {MCOrders \o p \o f \o l : p \in MCPolicies, f \in MCForeign, l \in MCLineage}

\* Providers: brokers and databases of the specification's own beside those
\* that are built in, and a kind of its own that needs a store.
Offers(name, type, capability, service, vals, pinned) ==
  <<MCRes("Provider", name, <<>>, [type |-> type] @@ vals,
          [capabilities |-> {capability},
           services |-> {Service(service, capability, pinned, pinned, {})}]),
    MCRes("ProviderInstance", name, [providerRef |-> Short("Provider", name)], <<>>, <<>>)>>
Broker(name, vals, pinned) == Offers(<<name>>, "stream", "stream.publish", <<name, "broker">>, vals, pinned)
Checksum == [packageDigest |-> "sha256"]
From(name) == [providerInstanceRef |-> Short("ProviderInstance", <<name>>)]
Widget ==
  {<<>>, <<MCRes("ResourceDefinition", <<"widget">>, <<>>, [apiVersion |-> "acme", kind |-> "Widget"],
                 [capabilities |-> {"store.object"}]),
           MCRes("ResourceDefinition", <<"widgets">>, <<>>, [apiVersion |-> "acme"], <<>>),
           MCRes("ResourceDefinition", <<"stream">>, <<>>,
                 [apiVersion |-> "streams", kind |-> "EventStream"], <<>>)>>,
   <<MCRes("ResourceDefinition", <<"widget">>, <<>>, [apiVersion |-> "acme", kind |-> "Widget"],
           [capabilities |-> {"store.object"}]),
     Resource(Identity("acme", "Widget", Default, <<"w">>), <<>>, <<>>, <<>>)>>}
MCProviderInputs ==
  {p \o MCBase \o w \o Broker("red", v, pinned)
     \o Offers(<<"pg">>, "source", "source.relational", <<"db">>, v, pinned)
     \o <<Connection1, Orders(Connected @@ From("pg"), <<>>), Stream(<<"events">>, s, <<>>, <<>>)>>
     \o Main(r) \o <<Capture1(Default, <<"x">>, On(<<"main">>), <<>>)>> :
     p \in MCProfiles, w \in Widget, v \in {<<>>, Checksum}, pinned \in BOOLEAN,
     s \in {<<>>, From("red"), From("gone"), From("pg")},
     r \in {<<>>, External("ManagedConnectors"), External("ObserveOnly")}}

\* A runtime that has the name of another's job, a stream that has the name of
\* the utility service, and a binding that asks for its stream's capability.
MCNameInputs ==
  {MCOrders \o Main(<<>>)
     \o <<MCIn(<<"register">>, "CDCInstance", <<"default", "main", "x">>,
               LocalProvider @@ [classRef |-> Short("CDCClass", <<"kafka">>)], <<>>, Verified),
          Stream(<<"runtime", "utility">>, <<>>, <<>>, <<>>),
          Capture1(Default, <<"x">>, [streamRef |-> To(s)] @@ On(<<"main">>), <<>>),
          Capture1(Default, <<"y">>,
            [cdcRef |-> InNamespace("CDCInstance", <<"register">>, <<"default", "main", "x">>)], <<>>)>> :
     s \in {<<"events">>, <<"runtime", "utility">>}}

\* A runtime of another group, which says that it is external, with its endpoint
\* or without.
MCSaysExternal ==
  LET theirs == Identity("acme", "CDCInstance", Default, <<"theirs">>) IN
  {MCOrders
     \o <<MCRes("ResourceDefinition", <<"runtime">>, <<>>, [apiVersion |-> "acme", kind |-> "CDCInstance"], <<>>),
          Class(<<>>, <<>>),
          Resource(theirs, LocalProvider @@ [classRef |-> Short("CDCClass", <<"kafka">>)], v, Verified),
          Capture1(Default, <<"x">>, <<>>, <<>>),
          MCOp(Default, "one", Qualified(theirs), "RestartWorker", "k", "p")>> :
     v \in {<<>>, [external |-> "true", endpointUrl |-> "url"],
            [external |-> "true", managementPolicy |-> "ManagedConnectors"]}}

MCOwnInputs ==
  {MCBase \o Main(<<>>) \o Broker("red", <<>>, TRUE)
     \o <<Connection1, Orders(Connected, <<>>), Stream(<<"events">>, From("red"), <<>>, <<>>),
          MCRes("Provider", <<"both">>, <<>>, [type |-> "cdc"],
                [capabilities |-> {"source.change-stream", "stream.publish"}]),
          MCRes("ProviderInstance", <<"both">>, [providerRef |-> Short("Provider", <<"both">>)], <<>>, <<>>),
          [Capture1(Default, <<"x">>, From("both") @@ On(<<"main">>), <<>>)
             EXCEPT !.lists = [capabilities |-> own]]>> :
     own \in {{}, {"stream.publish"}}}

MCInputs ==
  MCCaptureInputs \cup MCOperationInputs \cup MCPolicyInputs \cup MCProviderInputs
    \cup MCNameInputs \cup MCOwnInputs \cup MCSaysExternal

\* An operation on a binding whose runtime, which is observed, is inferred.
MCObserved ==
  {MCOrders \o Main(External("ObserveOnly"))
     \o <<Capture1(Default, <<"x">>, <<>>, <<>>),
          MCOp(Default, "one", MCBinding, "PauseConnector", "k", "p")>>}

\* Two streams, each with a broker of its own, and a capture to either.
MCBrokers ==
  {MCBase \o Broker("red", <<>>, TRUE) \o Broker("blue", <<>>, TRUE)
     \o <<Connection1, Orders(Connected, <<>>), Stream(<<"events">>, From("red"), <<>>, <<>>),
          Stream(<<"others">>, From("blue"), <<>>, <<>>)>>
     \o Main(<<>>) \o <<Capture1(Default, <<"x">>, On(<<"main">>) @@ [streamRef |-> To(s)], <<>>)>> :
     s \in {<<"events">>, <<"others">>}}

\* Production, with a broker and a database as it wants them.
MCProduction ==
  {p \o Broker("red", Checksum, TRUE) \o <<Stream(<<"events">>, From("red"), <<>>, <<>>)>> :
     p \in MCProfiles}
=============================================================================
