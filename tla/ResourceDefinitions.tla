-------------------------- MODULE ResourceDefinitions --------------------------
(***************************************************************************)
(* internal/resource/registry.go: the definitions of the kinds, those that *)
(* are built in and those a specification declares, and the capabilities a *)
(* resource of a kind needs.  A registry is a function of groups and kinds *)
(* to capabilities; a declaration has apiVersion, kind and capabilities.   *)
(***************************************************************************)
EXTENDS PlatformResources, TLC

LOCAL CoreKinds ==
  {"Binding", "BindingDefinition", "PlatformPolicy", "Provider", "ProviderInstance",
   "ResourceDefinition", "RuntimeProfile", "SecretReference", "Target"}

KindCapabilities ==
  [CDCInstance |-> "source.change-stream", RelationalSource |-> "source.relational",
   EventStream |-> "stream.publish", EventContract |-> "schema.register",
   ObjectStore |-> "store.object", LineageSink |-> "lineage.admit",
   AuditStore |-> "audit.record", TableCatalog |-> "catalog.table",
   MetadataCatalog |-> "metadata.catalog", QueryEngine |-> "query.sql",
   DataQualityRule |-> "quality.evaluate"]

BuiltinDefinitions ==
  [key \in (UNION {{g} \X GroupKinds[g] : g \in DOMAIN GroupKinds})
             \cup ({"platform"} \X CoreKinds) |->
     IF key[2] \in DOMAIN KindCapabilities THEN {KindCapabilities[key[2]]} ELSE {}]

Key(res) == <<ValOf(res, "apiVersion"), ValOf(res, "kind")>>
Incomplete(res) == Unset \in {Key(res)[1], Key(res)[2]}

\* What is registered first stays.
Register(registry, res) ==
  IF Incomplete(res) THEN registry ELSE registry @@ (Key(res) :> ListOf(res, "capabilities"))

BuildRegistry(resources) ==
  FoldLeft(Register, BuiltinDefinitions, OfPlatform(resources, "ResourceDefinition"))

RegistryDiags(resources) ==
  LET declared == OfPlatform(resources, "ResourceDefinition")
      taken(k) == \/ Key(declared[k]) \in DOMAIN BuiltinDefinitions
                  \/ \E j \in 1..(k - 1) : Key(declared[j]) = Key(declared[k])
  IN {<<"DDEF001", declared[k].id>> : k \in {j \in DOMAIN declared : Incomplete(declared[j])}}
     \cup {<<"DDEF002", declared[k].id>> :
             k \in {j \in DOMAIN declared : ~Incomplete(declared[j]) /\ taken(j)}}

\* The capabilities of a definition that is not there are none.
Lookup(registry, id) ==
  IF <<id.api, id.kind>> \in DOMAIN registry THEN registry[<<id.api, id.kind>>] ELSE {}
=============================================================================
