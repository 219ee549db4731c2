-------------------------- MODULE PlatformResources --------------------------
(***************************************************************************)
(* Resources, their identities and the references between them, as the     *)
(* planners of internal/compiler, internal/binding and                     *)
(* internal/validation see them.                                           *)
(*                                                                         *)
(* A name is a sequence of words, which hyphens join: the name a-b is      *)
(* <<"a", "b">>, and to join two names with a hyphen is to concatenate     *)
(* them.  A resource has three functions for its body: the references,     *)
(* the values and the lists of values it has in its fields.                *)
(***************************************************************************)
EXTENDS Integers, Sequences, SequencesExt, StableSorting

Unset == ""                   (* a value that is not there, or not set     *)
None == <<>>                  (* the name of a missing resource            *)
Default == <<"default">>      (* api.DefaultNamespace                      *)

Identity(api, kind, ns, name) == [api |-> api, kind |-> kind, ns |-> ns, name |-> name]
NoId == Identity(Unset, Unset, None, None)

\* A reference as it is written: parts is how many parts the slashes make of
\* it; no parts, no reference.  Four parts are none of the three forms.
Ref(parts, api, kind, ns, name) ==
  [parts |-> parts, api |-> api, kind |-> kind, ns |-> ns, name |-> name]
Absent == Ref(0, Unset, Unset, None, None)
Short(kind, name) == Ref(2, Unset, kind, None, name)
InNamespace(kind, ns, name) == Ref(3, Unset, kind, ns, name)
Qualified(id) == Ref(5, id.api, id.kind, id.ns, id.name)
Malformed == Ref(4, Unset, Unset, None, None)

\* The groups of the kinds; a kind the table does not have is taken for one of
\* the platform's own.
TypedBindings ==
  {"CDCBinding", "StreamPublishBinding", "StreamArchiveBinding", "LineageBinding",
   "AuditBinding", "PipelineBinding", "AccessBinding", "BatchIngestBinding",
   "StreamIngestBinding", "TransformBinding", "VolumeMountBinding"}

GroupKinds ==
  [sources |-> {"RelationalSource", "EventProducer"},
   streams |-> {"EventStream"},
   contracts |-> {"EventContract"},
   connections |-> {"DatabaseConnection", "ObjectStoreConnection",
                    "EventStreamConnection", "ConnectorClass"},
   databases |-> {"DatabaseClass", "DatabaseInstance"},
   cdc |-> {"CDCClass", "CDCInstance"},
   operations |-> {"CDCOperation"},
   storage |-> {"StorageClass", "PersistentVolume", "PersistentVolumeClaim"},
   stores |-> {"ObjectStore", "Warehouse"},
   lineage |-> {"LineageSink"},
   audit |-> {"AuditStore"},
   pipelines |-> {"Pipeline"},
   tables |-> {"Table"},
   catalogs |-> {"TableCatalog", "MetadataCatalog"},
   compute |-> {"QueryEngine"},
   quality |-> {"DataQualityRule"},
   bindings |-> TypedBindings]

apiVersionForKind(kind) ==
  IF \E g \in DOMAIN GroupKinds : kind \in GroupKinds[g]
    THEN CHOOSE g \in DOMAIN GroupKinds : kind \in GroupKinds[g]
    ELSE "platform"

ClusterScoped ==
  {"StorageClass", "PersistentVolume", "DatabaseClass", "ConnectorClass", "CDCClass"}

\* parseRef of internal/binding and internal/validation, parseCDCRef of
\* internal/compiler: a short reference is to the namespace of its owner.
parseRef(ref, owner) ==
  IF ref.parts \notin {2, 3, 5} THEN NoId
  ELSE Identity(IF ref.parts = 5 THEN ref.api ELSE apiVersionForKind(ref.kind),
                ref.kind,
                IF ref.kind \in ClusterScoped THEN Default
                ELSE IF ref.parts = 2 THEN owner.id.ns ELSE ref.ns,
                ref.name)

\* A resource.  Fields that are not in its functions are not in its body.
Resource(id, refs, vals, lists) == [id |-> id, refs |-> refs, vals |-> vals, lists |-> lists]
NoResource == Resource(NoId, <<>>, <<>>, <<>>)

RefOf(res, field) == IF field \in DOMAIN res.refs THEN res.refs[field] ELSE Absent
ValOf(res, field) == IF field \in DOMAIN res.vals THEN res.vals[field] ELSE Unset
ListOf(res, field) == IF field \in DOMAIN res.lists THEN res.lists[field] ELSE {}

RefId(res, field) == parseRef(RefOf(res, field), res)

\* resourceIndex: identities are unique in a specification that validates.
ById(resources, id) ==
  IF \E r \in Range(resources) : r.id = id
    THEN CHOOSE r \in Range(resources) : r.id = id
    ELSE NoResource
Exists(resources, id) == \E r \in Range(resources) : r.id = id

\* The loops over the resources of a kind: of any group, or of the platform's.
OfKind(resources, kind) ==
  Selected(resources, {k \in DOMAIN resources : resources[k].id.kind = kind})
OfPlatform(resources, kind) ==
  Selected(resources, {k \in DOMAIN resources :
                     resources[k].id.api = "platform" /\ resources[k].id.kind = kind})

stringDefault(value, fallback) == IF value = Unset THEN fallback ELSE value

resourceOwnership(res) ==
  IF ValOf(res, "external") = "true" THEN "external"
  ELSE stringDefault(ValOf(res, "ownership"), "managed")

resourceLifecycle(res) == stringDefault(ValOf(res, "lifecycle"), ValOf(res, "state"))

Foreign == {"external", "imported"}

graphState(ownership, lifecycle) ==
  IF "disabled" \in {ownership, lifecycle} THEN "disabled"
  ELSE IF ownership \in Foreign THEN "externallySatisfied"
  ELSE IF ownership = "planned" \/ lifecycle \in {"planned", "deferred"} THEN "deferred"
  ELSE "satisfied"

cdcManagementPolicy(policy, ownership) ==
  IF policy # Unset THEN policy
  ELSE IF ownership \in Foreign THEN "ObserveOnly" ELSE "ManagedConnectors"
=============================================================================
