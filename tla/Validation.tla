------------------------------ MODULE Validation ------------------------------
(***************************************************************************)
(* internal/validation/validate.go, from the duplicates on: the checks of  *)
(* each resource by its kind, of its references, and of what databases,    *)
(* connectors, CDC runtimes and operations say of each other.  Each check  *)
(* is the set of its diagnostics, pairs of a code and the resource.        *)
(*                                                                         *)
(* A nested field is one value: endpointHost is endpoint.host.  Whether a  *)
(* capacity or a schema is well formed, and the search for secret values,  *)
(* are left out.                                                           *)
(***************************************************************************)
EXTENDS Providers

\* The code of a rule that a resource breaks, and what is reported of it.
Rule(code, broken) == IF broken THEN {code} ELSE {}
Broken(res, codes) == {<<c, res.id>> : c \in codes}
ForAll(resources, kind, check(_)) ==
  UNION {check(r) : r \in Range(OfKind(resources, kind))}

validateDuplicates(resources) ==
  {<<"DVAL001", resources[k].id>> :
     k \in {j \in DOMAIN resources : \E i \in 1..(j - 1) : resources[i].id = resources[j].id}}

plannedOrDisabled(res) ==
  \/ ValOf(res, "state") \in {"planned", "deferred", "disabled"}
  \/ ValOf(res, "ownership") \in {"planned", "disabled"}

externallyOwned(res) == ValOf(res, "ownership") \in Foreign \/ ValOf(res, "external") = "true"

typedBindingRequiredFields ==
  [CDCBinding |-> {"sourceRef", "streamRef"}, StreamPublishBinding |-> {"sourceRef", "streamRef"},
   StreamArchiveBinding |-> {"streamRef", "objectStoreRef"},
   LineageBinding |-> {"sourceRef", "sinkRef"}, AuditBinding |-> {"sourceRef", "auditStoreRef"},
   PipelineBinding |-> {"sourceRef", "pipelineRef"},
   AccessBinding |-> {"subjectRef", "resourceRef"},
   BatchIngestBinding |-> {"sourceRef", "tableRef"},
   StreamIngestBinding |-> {"streamRef", "tableRef"},
   TransformBinding |-> {"sourceRef", "targetRef"}, VolumeMountBinding |-> {"claimRef", "workloadRef"}]

\* validateCoreInvariants.
validateCoreInvariants(res) ==
  LET kind == res.id.kind
      v(field) == ValOf(res, field)
      missing(field) == RefOf(res, field) = Absent
      legacy == v("engine") # Unset \/ v("host") # Unset
  IN Broken(res,
   Rule("DVAL006", kind = "RuntimeProfile" /\ v("target") = "compose" /\ v("class") = "production-ha")
     \cup Rule("DPROV001", kind = "Provider" /\ ListOf(res, "capabilities") = {})
     \cup Rule("DPROV004", kind = "ProviderInstance" /\ missing("providerRef"))
     \cup Rule("DCONN001", kind = "SecretReference" /\ v("backend") \notin {"env", "file", "kubernetes", "vault"})
     \cup Rule("DCONN002", kind = "SecretReference" /\ ListOf(res, "keys") = {})
     \cup Rule("DSTOR001", kind = "StorageClass" /\ v("reclaimPolicy") \notin {Unset, "Retain", "Delete"})
     \cup Rule("DSTOR002", /\ kind = "StorageClass"
                           /\ v("volumeBindingMode") \notin {Unset, "Immediate", "WaitForFirstConsumer"})
     \cup Rule("DSTOR004", /\ kind \in {"PersistentVolume", "PersistentVolumeClaim"}
                           /\ \/ ListOf(res, "accessModes") = {}
                              \/ ~(ListOf(res, "accessModes") \subseteq
                                     {"ReadWriteOnce", "ReadOnlyMany", "ReadWriteMany"}))
     \cup Rule("DDB001", kind = "DatabaseClass" /\ v("engine") = Unset)
     \cup Rule("DCONN007", kind = "ConnectorClass" /\ v("interface") \notin {"native", "jdbc", "odbc"})
     \cup Rule("DCONN008", kind = "ConnectorClass" /\ v("transport") \notin {"tcp", "unix", "file"})
     \cup Rule("DCDC001", kind = "CDCClass" /\ v("engine") # "kafka-connect")
     \cup Rule("DCDC002", kind = "CDCInstance" /\ missing("classRef"))
     \cup Rule("DCDC003", /\ kind = "CDCInstance"
                          /\ v("ownership") \notin {Unset, "managed", "imported", "external"})
     \cup Rule("DCDC004", /\ kind = "CDCInstance"
                          /\ v("managementPolicy") \notin {Unset, "ManagedConnectors", "ObserveOnly"})
     \cup Rule("DOPS001", kind = "CDCOperation" /\ missing("targetRef"))
     \cup Rule("DOPS002", kind = "CDCOperation" /\ v("action") = Unset)
     \cup Rule("DOPS003", kind = "CDCOperation" /\ v("idempotencyKey") = Unset)
     \cup Rule("DDB002", kind = "DatabaseInstance" /\ missing("classRef"))
     \cup Rule("DCONN003", /\ kind = "DatabaseConnection" /\ legacy /\ ~externallyOwned(res)
                           /\ \/ Unset \in {v("engine"), v("host"), v("port"), v("database")}
                              \/ missing("credentialsRef"))
     \cup Rule("DCONN009", /\ kind = "DatabaseConnection" /\ ~legacy /\ ~externallyOwned(res)
                           /\ missing("instanceRef") \/ missing("connectorClassRef"))
     \cup Rule("DCONN003", /\ kind \in {"ObjectStoreConnection", "EventStreamConnection"}
                           /\ ~externallyOwned(res) /\ missing("credentialsRef"))
     \cup Rule("DCONN006", kind = "RelationalSource" /\ ~externallyOwned(res) /\ missing("connectionRef"))
     \cup Rule("DTABLE001", kind = "Table" /\ v("layer") \notin {Unset, "bronze", "silver", "gold"})
     \cup Rule("DBIND004", kind = "Binding" /\ v("capability") = Unset /\ missing("bindingDefinitionRef"))
     \cup Rule("DBIND014", /\ kind \in DOMAIN typedBindingRequiredFields
                           /\ \E f \in typedBindingRequiredFields[kind] : missing(f))
     \cup Rule("DBIND014", kind = "VolumeMountBinding" /\ v("mountPath") = Unset))

\* The references that must lead somewhere.  Only a provider instance may be
\* built in, which is to say have a name that says so.
RefFields(kind) ==
  CASE kind \in DOMAIN typedBindingRequiredFields ->
         typedBindingRequiredFields[kind] \cup {"providerInstanceRef"}
           \cup (IF kind = "CDCBinding" THEN {"cdcRef", "connectorClassRef"} ELSE {})
    [] kind = "Binding" -> {"sourceRef", "targetRef", "providerInstanceRef"}
    [] kind = "CDCClass" -> {"providerInstanceRef"}
    [] kind = "CDCInstance" -> {"classRef", "providerInstanceRef", "credentialsRef"}
    [] kind = "CDCOperation" -> {"targetRef", "providerInstanceRef"}
    [] kind = "RelationalSource" -> {"connectionRef"}
    [] kind = "DatabaseInstance" -> {"classRef", "storageClaimRef", "credentialsRef"}
    [] kind = "PersistentVolume" -> {"storageClassRef"}
    [] kind = "PersistentVolumeClaim" -> {"storageClassRef", "volumeRef"}
    [] kind = "DatabaseConnection" ->
         {"instanceRef", "connectorClassRef", "claimRef", "credentialsRef"}
    [] kind \in {"ObjectStoreConnection", "EventStreamConnection"} -> {"credentialsRef"}
    [] OTHER -> {}

isBuiltin(id, kind) == id.api = "platform" /\ id.kind = kind /\ Head(id.name) = "local"

validateRefField(res, resources, field) ==
  LET ref == RefOf(res, field)
      id == parseRef(ref, res)
  IN Broken(res,
       Rule("DREF003", ref # Absent /\ id = NoId)
         \cup Rule("DREF002", /\ id # NoId /\ ~Exists(resources, id)
                              /\ ~(field = "providerInstanceRef" /\ isBuiltin(id, "ProviderInstance"))))

requiredSecretKeys ==
  [DatabaseConnection |-> {"username", "password"}, ObjectStoreConnection |-> {"accessKey", "secretKey"},
   EventStreamConnection |-> {"token"}]

validateRequiredSecretKeys(res, resources) ==
  LET id == RefId(res, "credentialsRef") IN
  Broken(res,
    Rule("DCONN004", /\ res.id.kind \in DOMAIN requiredSecretKeys
                     /\ Exists(resources, id) /\ id.kind = "SecretReference"
                     /\ ~(requiredSecretKeys[res.id.kind] \subseteq
                            ListOf(ById(resources, id), "keys"))))

SupportedClasses(class) ==
  {parseRef(ref, class) : ref \in ListOf(class, "supportedConnectorClasses")}

\* validateReferences, up to the topologies.
referencesOf(res, resources) ==
  LET provider == RefId(res, "providerRef") IN
  (UNION {validateRefField(res, resources, f) : f \in RefFields(res.id.kind)})
    \cup validateRequiredSecretKeys(res, resources)
    \cup Broken(res,
      Rule("DREF002", /\ res.id.kind = "ProviderInstance" /\ provider # NoId
                      /\ ~Exists(resources, provider) /\ ~isBuiltin(provider, "Provider"))
        \cup Rule("DCDC005", res.id.kind = "CDCClass" /\ \E id \in SupportedClasses(res) :
                               id # NoId /\ ~Exists(resources, id)))

\* An empty list of engines is compatible with all.
Incompatible(connector, engine) ==
  ListOf(connector, "compatibleEngines") # {} /\ engine \notin ListOf(connector, "compatibleEngines")

databaseEngineForSource(res, resources) ==
  LET follow(from, field) == ById(resources, RefId(from, field))
      connection == follow(follow(res, "sourceRef"), "connectionRef")
  IN ValOf(follow(follow(connection, "instanceRef"), "classRef"), "engine")

classTopology(class, resources) ==
  Broken(class,
    Rule("DDB003", \E id \in SupportedClasses(class) : ~Exists(resources, id))
      \cup Rule("DCONN010", \E id \in SupportedClasses(class) :
                  Exists(resources, id) /\ Incompatible(ById(resources, id), ValOf(class, "engine"))))

connectionTopology(connection, resources) ==
  LET instance == ById(resources, RefId(connection, "instanceRef"))
      connector == ById(resources, RefId(connection, "connectorClassRef"))
      class == ById(resources, RefId(instance, "classRef"))
      known == NoId \notin {instance.id, connector.id, class.id}
      v(field) == ValOf(connection, field)
  IN Broken(connection,
       Rule("DCONN010", known /\ Incompatible(connector, ValOf(class, "engine")))
         \cup Rule("DCONN011", /\ known /\ ValOf(connector, "transport") = "file"
                               /\ RefOf(connection, "claimRef") = Absent \/ v("filePath") = Unset)
         \cup Rule("DCONN012", /\ known /\ ValOf(connector, "transport") = "tcp"
                               /\ Unset \in {v("endpointHost"), v("endpointPort")}))

captureTopology(binding, resources) ==
  LET connector == ById(resources, RefId(binding, "connectorClassRef"))
      engine == databaseEngineForSource(binding, resources)
  IN Broken(binding,
       Rule("DCONN013", connector.id # NoId /\ "change-stream" \notin ListOf(connector, "operations"))
         \cup Rule("DCONN010", connector.id # NoId /\ engine # Unset /\ Incompatible(connector, engine)))

validateDatabaseTopology(resources) ==
  ForAll(resources, "DatabaseClass", LAMBDA r : classTopology(r, resources))
    \cup ForAll(resources, "DatabaseConnection", LAMBDA r : connectionTopology(r, resources))
    \cup ForAll(resources, "CDCBinding", LAMBDA r : captureTopology(r, resources))

\* The profiles and targets, in the order of their identities.
Profiles(resources) ==
  SelectSeq(resources, LAMBDA r : r.id.kind \in {"RuntimeProfile", "Target"})

runtimeTarget(resources) ==
  LET named == SelectSeq(Profiles(resources),
                         LAMBDA r : ValOf(r, "target") # Unset \/ ValOf(r, "type") # Unset)
  IN IF named = <<>> THEN Unset
     ELSE stringDefault(ValOf(Head(named), "target"), ValOf(Head(named), "type"))

productionProfile(resources) ==
  \E r \in Range(Profiles(resources)) :
    /\ ValOf(r, "development") # "true" /\ ValOf(r, "allowUnpinnedImages") # "true"
    /\ ValOf(r, "class") \in {"production", "single-host-production"}

UnfitFor(class, target) ==
  /\ target # Unset /\ ListOf(class, "targetCompatibility") # {}
  /\ target \notin ListOf(class, "targetCompatibility")

instanceTopology(instance, resources) ==
  LET class == ById(resources, RefId(instance, "classRef")) IN
  Broken(instance,
    Rule("DCDC006", class.id # NoId /\ UnfitFor(class, runtimeTarget(resources)))
      \cup Rule("DCDC007", /\ class.id # NoId /\ ValOf(instance, "ownership") \in Foreign
                           /\ ValOf(instance, "endpointUrl") = Unset /\ ValOf(instance, "endpointHost") = Unset))

bindingTopology(binding, resources) ==
  LET inferred == RefOf(binding, "cdcRef") = Absent
      class == ById(resources, RefId(ById(resources, RefId(binding, "cdcRef")), "classRef"))
      connector == RefId(binding, "connectorClassRef")
  IN Broken(binding,
       Rule("DCDC008", inferred /\ productionProfile(resources))
         \cup Rule("DCDC009", /\ inferred /\ ~productionProfile(resources)
                              /\ Len(OfKind(resources, "CDCInstance")) > 1)
         \cup Rule("DCDC010", /\ class.id # NoId /\ connector # NoId
                              /\ SupportedClasses(class) # {} /\ connector \notin SupportedClasses(class)))

validateCDCTopology(resources) ==
  ForAll(resources, "CDCClass", LAMBDA r :
           Broken(r, Rule("DCDC006", UnfitFor(r, runtimeTarget(resources)))))
    \cup ForAll(resources, "CDCInstance", LAMBDA r : instanceTopology(r, resources))
    \cup ForAll(resources, "CDCBinding", LAMBDA r : bindingTopology(r, resources))

\* What operations do, as validation has it.
ReadOnlyActions ==
  {"Inspect", "InspectOffsets", "VerifyConnector", "ValidateConnectivity", "PlanBackup", "PlanRestore"}
operationMutates(action) == action \notin ReadOnlyActions
operationManagesWorker(action) ==
  action \in {"ScaleWorker", "UpgradeWorker", "RestartWorker", "ReplaceWorker", "RotateWorkerCertificate"}
operationDestructive(action) ==
  action \in {"ResetOffsets", "DeleteConnector", "DeleteCDCInstance", "Delete", "DetachAndDelete"}

operationCDCInstance(op, resources) ==
  LET named == RefId(op, "targetRef") IN
  CASE named.kind = "CDCInstance" -> named
    [] named.kind = "CDCBinding" -> RefId(ById(resources, named), "cdcRef")
    [] OTHER -> NoId

cdcInstanceHasBindings(instance, resources) ==
  \E b \in Range(OfKind(resources, "CDCBinding")) : RefId(b, "cdcRef") = instance

\* An operation is compared with the first that has its key, by the references
\* as they are written.
operationDiags(ops, k, resources) ==
  LET op == ops[k]
      v(field) == ValOf(op, field)
      sameKey == {j \in 1..(k - 1) : ValOf(ops[j], "idempotencyKey") = v("idempotencyKey")}
      prior == ops[CHOOSE j \in sameKey : \A i \in sameKey : j <= i]
      instance == ById(resources, operationCDCInstance(op, resources))
      ownership == ValOf(instance, "ownership")
      policy == cdcManagementPolicy(ValOf(instance, "managementPolicy"), ownership)
  IN Broken(op,
     Rule("DOPS004", /\ v("idempotencyKey") # Unset /\ sameKey # {}
                     /\ \/ RefOf(prior, "targetRef") # RefOf(op, "targetRef")
                        \/ ValOf(prior, "action") # v("action"))
       \cup Rule("DOPS005", instance.id # NoId /\ policy = "ObserveOnly" /\ operationMutates(v("action")))
       \cup Rule("DOPS006", /\ instance.id # NoId /\ ownership \in Foreign /\ policy = "ManagedConnectors"
                            /\ operationManagesWorker(v("action")))
       \cup Rule("DOPS007", /\ operationDestructive(v("action"))
                            /\ "true" \notin {v("approvalRequired"), v("approved")})
       \cup Rule("DOPS008", v("action") = "ResetOffsets" /\ v("backupRef") = Unset /\ v("backupMetadata") = Unset)
       \cup Rule("DOPS009", v("action") = "ResetOffsets" /\ "ConnectorPaused" \notin ListOf(op, "preconditions"))
       \cup Rule("DOPS010", /\ v("action") \in {"DeleteCDCInstance", "Delete"}
                            /\ RefId(op, "targetRef").kind = "CDCInstance"
                            /\ cdcInstanceHasBindings(RefId(op, "targetRef"), resources)))

validateCDCOperations(resources) ==
  LET ops == OfKind(resources, "CDCOperation") IN
  UNION {operationDiags(ops, k, resources) : k \in DOMAIN ops}

validateReferences(resources) ==
  (UNION {referencesOf(r, resources) : r \in {q \in Range(resources) : ~plannedOrDisabled(q)}})
    \cup validateDatabaseTopology(resources)
    \cup validateCDCTopology(resources)
    \cup validateCDCOperations(resources)

ValidateResources(resources) ==
  validateDuplicates(resources)
    \cup (UNION {validateCoreInvariants(r) : r \in Range(resources)})
    \cup validateReferences(resources)
=============================================================================
