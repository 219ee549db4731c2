---------------------------- MODULE ChangeCapture ----------------------------
(***************************************************************************)
(* internal/compiler/cdc.go: the plans of the CDC classes and instances of *)
(* a specification, and of the connector of one binding.                   *)
(***************************************************************************)
EXTENDS Bindings, Validation

DebeziumImage == "debezium"   (* quay.io/debezium/connect:3.6.0.Final       *)
LocalCDC == Identity("platform", "ProviderInstance", Default, <<"local", "cdc">>)

defaultCDCClass ==
  [id |-> Identity("cdc", "CDCClass", Default, <<"debezium", "kafka", "connect">>),
   provider |-> LocalCDC, supported |-> {}, image |-> DebeziumImage]

cdcClassPlan(res) ==
  [id |-> res.id, provider |-> RefId(res, "providerInstanceRef"),
   supported |-> SupportedClasses(res) \ {NoId}, image |-> ValOf(res, "image")]

\* endpoint: the control endpoint of a runtime that is not ours.
defaultCDCInstance ==
  [id |-> Identity("cdc", "CDCInstance", Default, <<"default", "cdc">>),
   class |-> defaultCDCClass.id, ownership |-> "managed", policy |-> "ManagedConnectors",
   provider |-> LocalCDC, single |-> TRUE, image |-> DebeziumImage, endpoint |-> Unset,
   state |-> "satisfied"]

cdcInstancePlan(res, classes) ==
  LET class == {c \in classes : c.id = RefId(res, "classRef")}
      explicit == RefId(res, "providerInstanceRef")
      ownership == resourceOwnership(res)
  IN [id |-> res.id, class |-> RefId(res, "classRef"), ownership |-> ownership,
      policy |-> cdcManagementPolicy(ValOf(res, "managementPolicy"), ownership),
      provider |-> IF explicit # NoId \/ class = {} THEN explicit
                   ELSE (CHOOSE c \in class : TRUE).provider,
      single |-> ValOf(res, "replicas") \in {Unset, "0", "1"},
      image |-> IF ValOf(res, "image") # Unset \/ class = {} THEN ValOf(res, "image")
                ELSE (CHOOSE c \in class : TRUE).image,
      endpoint |-> stringDefault(ValOf(res, "endpointUrl"), ValOf(res, "endpointHost")),
      state |-> graphState(ownership, resourceLifecycle(res))]

\* A binding that is disabled or deferred has no connector.
LiveCapture(b) == b.id.kind = "CDCBinding" /\ b.state \notin {"disabled", "deferred"}

Classes(resources, bindings) ==
  LET declared == {cdcClassPlan(r) : r \in Range(OfKind(resources, "CDCClass"))} IN
  IF declared = {} /\ \E b \in bindings : LiveCapture(b) THEN {defaultCDCClass} ELSE declared

Instances_AlwaysDefault(resources, bindings) ==
  LET classes == {cdcClassPlan(r) : r \in Range(OfKind(resources, "CDCClass"))} IN
  {defaultCDCInstance} \cup {cdcInstancePlan(r, classes) : r \in Range(OfKind(resources, "CDCInstance"))}

\* The classes the instances inherit from are those of the specification.
Instances(resources, bindings) ==
  LET classes == {cdcClassPlan(r) : r \in Range(OfKind(resources, "CDCClass"))}
      declared == {cdcInstancePlan(r, classes) : r \in Range(OfKind(resources, "CDCInstance"))}
  IN IF declared = {} /\ \E b \in bindings : LiveCapture(b)
       THEN {defaultCDCInstance} ELSE declared

\* The only instance, else the one called default-cdc of the namespace.
inferCDCInstance(b, instances) ==
  LET named == Identity("cdc", "CDCInstance", b.id.ns, <<"default", "cdc">>) IN
  IF Cardinality(instances) = 1 THEN (CHOOSE i \in instances : TRUE).id
  ELSE IF \E i \in instances : i.id = named THEN named ELSE NoId

CaptureInstance(b, instances) == IF b.cdc # NoId THEN b.cdc ELSE inferCDCInstance(b, instances)

normalizeDatabaseEngine(engine) ==
  IF engine \in {"postgres", "postgresql"} THEN "postgresql" ELSE engine

\* resolveDatabaseConnection: what the connection does not say its instance
\* and its class do.
resolveDatabaseConnection(connection, resources) ==
  LET instance == ById(resources, RefId(connection, "instanceRef"))
      class == ById(resources, RefId(instance, "classRef"))
      own == RefId(connection, "credentialsRef")
      engine == normalizeDatabaseEngine(stringDefault(ValOf(connection, "engine"), ValOf(class, "engine")))
      host == stringDefault(ValOf(connection, "endpointHost"), ValOf(connection, "host"))
      port == stringDefault(ValOf(connection, "endpointPort"), ValOf(connection, "port"))
  IN [id |-> connection.id, instance |-> RefId(connection, "instanceRef"), engine |-> engine,
      credentials |-> IF own # NoId THEN own ELSE RefId(instance, "credentialsRef"),
      host |-> IF host # Unset THEN <<host>> ELSE RefId(connection, "instanceRef").name,
      port |-> IF port = Unset /\ engine = "postgresql" THEN "5432" ELSE port,
      connectorClass |-> RefId(connection, "connectorClassRef")]

defaultConnectorClass ==
  Identity("connections", "ConnectorClass", Default, <<"postgres", "debezium">>)

\* postgresIdentifier keeps 63 characters: here as many words of a name.
MaxIdentifierWords == 4
postgresIdentifier(words) ==
  IF Len(words) <= MaxIdentifierWords THEN words ELSE SubSeq(words, 1, MaxIdentifierWords)

\* A written name is one part.
Named(name) == Ref(1, Unset, Unset, None, name)
NameOf(res, field, fallback) ==
  IF RefOf(res, field) = Absent THEN fallback ELSE RefOf(res, field).name

\* cdcProviderConfiguration, for the keys whose values two connectors may have
\* in common: what the configuration of the binding says comes last.
cdcProviderConfiguration(binding, name, topic) ==
  [prefix |-> NameOf(binding, "topic.prefix", name),
   slot |-> NameOf(binding, "slot.name", postgresIdentifier(name \o <<"slot">>)),
   route |-> NameOf(binding, "transforms.route.topic.replacement", topic)]

connectorState(instance) ==
  IF instance.ownership \notin Foreign THEN "planned"
  ELSE IF instance.policy = "ObserveOnly" THEN "externallyAppliedOrPending"
  ELSE "externallyManaged"

\* The connector of a binding on an instance, through a connection.
connectorPlan(b, resources, instance, connection) ==
  LET binding == ById(resources, b.id)
      info == resolveDatabaseConnection(connection, resources)
      name == NameOf(binding, "connectorName", b.id.ns \o b.id.name)
  IN [binding |-> b.id, source |-> b.source, stream |-> b.target, connection |-> info,
      instance |-> instance.id, name |-> name,
      connectorClass |-> IF b.connectorClass # NoId THEN b.connectorClass
                         ELSE IF info.connectorClass # NoId THEN info.connectorClass
                         ELSE defaultConnectorClass,
      configuration |->
        cdcProviderConfiguration(binding, name, NameOf(binding, "topic", b.target.name)),
      path |-> <<b.id.ns, instance.id.name, b.id.name>>,
      provider |-> IF instance.provider # NoId THEN instance.provider ELSE b.provider,
      ownership |-> instance.ownership, policy |-> instance.policy,
      state |-> connectorState(instance)]

\* The services a bundle has for them.  The default namespace is left out of
\* the name of a worker.
cdcWorkerServiceName(id) ==
  <<"cdc">> \o (IF id.ns = Default THEN None ELSE id.ns) \o id.name
cdcRegisterServiceName(connector) ==
  <<"cdc", "register">> \o connector.binding.ns \o connector.instance.name \o connector.binding.name

\* Names that two have: each is a collision.
Collides(things, name(_)) ==
  {t \in things : \E u \in things : u # t /\ name(u) = name(t)}

validateCDCPlan(instances, connectors, target) ==
  LET managed == {i \in instances : i.ownership = "managed"} IN
  {<<"DCDC016", c.binding>> :
     c \in Collides(connectors, LAMBDA k : <<k.instance, k.name>>)}
   \cup {<<"DCDC017", i.id>> : i \in {m \in managed : target = "compose" /\ ~m.single}}
   \cup {<<"DCOMPOSE004", i.id>> :
           i \in Collides(managed, LAMBDA k : cdcWorkerServiceName(k.id))}

\* relationalSourceExternal.
relationalSourceExternal(source, resources) ==
  LET connection == ById(resources, RefId(source, "connectionRef"))
      instance == ById(resources, RefId(connection, "instanceRef"))
  IN resourceOwnership(connection) \in Foreign \/ resourceOwnership(instance) \in Foreign
=============================================================================
