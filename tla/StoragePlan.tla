----------------------------- MODULE StoragePlan -----------------------------
(***************************************************************************)
(* internal/compiler/storage.go buildStoragePlan: volumes and classes are  *)
(* collected, every claim is bound to a declared volume or given a dynamic *)
(* one, or refused, and the mounts are attached to the volumes of their    *)
(* claims.  One step is one iteration of the code's loops, in the order of *)
(* the resources.                                                          *)
(*                                                                         *)
(* An identity has a kind, a namespace and a name.  A namespace or a name  *)
(* is the sequence of its words between hyphens, so "a-b" is <<"a", "b">>  *)
(* and joining names with hyphens joins sequences.                         *)
(***************************************************************************)
EXTENDS Quantities, Sequences, FiniteSets, SequencesExt, StableSorting

CONSTANTS
  Inputs,      (* the declared resources buildStoragePlan may be given    *)
  Modes,       (* the access modes                                        *)
  Words,       (* what stands between the hyphens of namespaces and names *)
  Rank(_),     (* place of an identity in the order of canonical strings  *)
  DefinedIn    (* DefinedIn[k]: the API group of the resource definition  *)
               (* of k, for the kinds a volume may be mounted on          *)

ASSUME WordsAssumption == {"pvc", "default"} \subseteq Words

Kinds == {"", "StorageClass", "PersistentVolume", "PersistentVolumeClaim",
          "VolumeMountBinding"}

\* domain.ResourceIdentity.
Identity == [kind : Kinds, namespace : Seq(Words), name : Seq(Words)]

\* ResourceIdentity{}: the parsed form of a reference that is not set.
NoRef == [kind |-> "", namespace |-> <<>>, name |-> <<>>]

Default == <<"default">>

PersistentVolume(n) ==
  [kind |-> "PersistentVolume", namespace |-> Default, name |-> n]

\* The identity of a dynamic volume: "pvc-" namespace "-" name.
DynamicId(c) == PersistentVolume(<<"pvc">> \o c.id.namespace \o c.id.name)

\* The resources buildStoragePlan reads, with the fields it reads.
ClassBody == [provisioner : {"compose.named", "other"}, default : BOOLEAN,
              compatible : BOOLEAN]
VolumeBody == [id : Identity, class : Identity, capacity : Quantity,
               modes : SUBSET Modes, pathOk : BOOLEAN]
ClaimBody == [id : Identity, class : Identity, volumeRef : Identity,
              capacity : Quantity, modes : SUBSET Modes]
MountBody == [id : Identity, claim : Identity, pathOk : BOOLEAN,
              workload : [kind : DOMAIN DefinedIn, qualified : BOOLEAN]]

DistinctIds(s) == \A j, k \in DOMAIN s : s[j].id = s[k].id => j = k

\* What validation guarantees of an input: the resources of each kind, with
\* well-formed quantities and modes, no two of one identity; and identities
\* can be ordered.
WellFormed(in) ==
  /\ DOMAIN in.classes \subseteq Identity
  /\ \A k \in DOMAIN in.classes : /\ in.classes[k] \in ClassBody
                                  /\ k.kind = "StorageClass"
  /\ in.volumes \in Seq(VolumeBody) /\ DistinctIds(in.volumes)
  /\ in.claims \in Seq(ClaimBody) /\ DistinctIds(in.claims)
  /\ in.mounts \in Seq(MountBody) /\ DistinctIds(in.mounts)
  /\ \A k \in DOMAIN in.volumes : /\ in.volumes[k].id.kind = "PersistentVolume"
                                  /\ Rank(in.volumes[k].id) \in Nat
  /\ \A k \in DOMAIN in.claims : /\ in.claims[k].id.kind = "PersistentVolumeClaim"
                                 /\ Rank(in.claims[k].id) \in Nat
                                 /\ Rank(DynamicId(in.claims[k])) \in Nat
  /\ \A k \in DOMAIN in.mounts : /\ in.mounts[k].id.kind = "VolumeMountBinding"
                                 /\ Rank(in.mounts[k].id) \in Nat

\* No two claims have dynamic volumes of one identity, and no declared volume
\* has the identity of a dynamic one. The code does not see to it: the hyphen
\* that joins namespace and name may also be in either.
DistinctDynamicIds(in) ==
  /\ \A j, k \in DOMAIN in.claims :
       DynamicId(in.claims[j]) = DynamicId(in.claims[k]) => j = k
  /\ \A j \in DOMAIN in.claims, k \in DOMAIN in.volumes :
       DynamicId(in.claims[j]) # in.volumes[k].id

ASSUME InputsAssumption == \A in \in Inputs : WellFormed(in)

VARIABLES
  input,        (* the resources, by kind and in their order              *)
  pc,           (* the loop buildStoragePlan is in                        *)
  i,            (* the resource the loop is at                            *)
  planVolumes,  (* plan.Volumes; the volumes map holds, for an identity,  *)
                (* the last entry of this slice that has it               *)
  claimed,      (* the identities marked in the claimed map               *)
  planClaims,   (* plan.Claims, and the claims map                        *)
  planMounts,   (* plan.Mounts                                            *)
  diags         (* the diagnostics, as [code, of]; their order is that of *)
                (* a later SortDiagnostics                                *)

vars == <<input, pc, i, planVolumes, claimed, planClaims, planMounts, diags>>

Init ==
  /\ input \in Inputs
  /\ pc = "declare"
  /\ i = 1
  /\ planVolumes = <<>> /\ claimed = {}
  /\ planClaims = <<>> /\ planMounts = <<>>
  /\ diags = {}

-----------------------------------------------------------------------------
(* Operators of the loops. *)

Diag(code, of) == [code |-> code, of |-> of]

Defaults == {k \in DOMAIN input.classes : input.classes[k].default}

\* The class of a claim: the one it names, else the default if there is
\* exactly one.
ClassOf(c) ==
  IF c.class # NoRef THEN c.class
  ELSE IF Cardinality(Defaults) = 1 THEN CHOOSE d \in Defaults : TRUE
  ELSE NoRef

modesInclude(available, requested) == requested \subseteq available

Suits_AnyMode(v, c) ==
  /\ v.class = ClassOf(c)
  /\ capacityAtLeast(v.capacity, c.capacity)

\* What both the explicit and the implicit binding ask of a volume.
Suits(v, c) ==
  /\ v.class = ClassOf(c)
  /\ capacityAtLeast(v.capacity, c.capacity)
  /\ modesInclude(v.modes, c.modes)

\* The entry of the volumes map for an identity: the last one written.
Named(id) == {k \in DOMAIN planVolumes : planVolumes[k].id = id}
VolumeOf(id) == planVolumes[CHOOSE k \in Named(id) : \A j \in Named(id) : j <= k]

Candidates_IgnoreClaimed(c) ==
  {k \in DOMAIN planVolumes : Suits(planVolumes[k], c)}

\* The places in plan.Volumes of the volumes an implicit claim may take.
Candidates(c) ==
  {k \in DOMAIN planVolumes : /\ planVolumes[k].id \notin claimed
                              /\ Suits(planVolumes[k], c)}

Refusal_IgnoresClaimed(c) ==
  IF ClassOf(c) = NoRef THEN "DSTOR006"
  ELSE IF ClassOf(c) \notin DOMAIN input.classes THEN "DREF002"
  ELSE IF c.volumeRef # NoRef THEN
    IF Named(c.volumeRef) = {} THEN "DREF002"
    ELSE IF ~Suits(VolumeOf(c.volumeRef), c) THEN "DSTOR011" ELSE "none"
  ELSE IF /\ Candidates(c) = {}
          /\ input.classes[ClassOf(c)].provisioner # "compose.named"
    THEN "DSTOR008"
  ELSE "none"

\* The first check that refuses claim c, or "none".
Refusal(c) ==
  IF ClassOf(c) = NoRef THEN "DSTOR006"
  ELSE IF ClassOf(c) \notin DOMAIN input.classes THEN "DREF002"
  ELSE IF c.volumeRef # NoRef THEN
    IF Named(c.volumeRef) = {} THEN "DREF002"
    ELSE LET v == VolumeOf(c.volumeRef) IN
      IF v.id \in claimed THEN "DSTOR014"
      ELSE IF v.class # ClassOf(c) THEN "DSTOR011"
      ELSE IF ~capacityAtLeast(v.capacity, c.capacity) THEN "DSTOR012"
      ELSE IF ~modesInclude(v.modes, c.modes) THEN "DSTOR013"
      ELSE "none"
  ELSE IF /\ Candidates(c) = {}
          /\ input.classes[ClassOf(c)].provisioner # "compose.named"
    THEN "DSTOR008"
  ELSE "none"

\* plan.Volumes, plan.Claims and plan.Mounts are sorted by identity.
StableSort(s) == InOrder(s, DOMAIN s, [k \in DOMAIN s |-> Rank(s[k].id)])

-----------------------------------------------------------------------------
(* The first loop and the check of the default class. *)

Declare ==
  /\ pc = "declare"
  /\ planVolumes' = [k \in DOMAIN input.volumes |->
                       [id       |-> input.volumes[k].id,
                        class    |-> input.volumes[k].class,
                        capacity |-> input.volumes[k].capacity,
                        modes    |-> input.volumes[k].modes,
                        dynamic  |-> FALSE]]
  /\ diags' =
       {Diag("DSTOR007", k) : k \in
          {k \in DOMAIN input.classes : ~input.classes[k].compatible}}
       \cup {Diag("DSTOR009", v.id) : v \in
               {v \in Range(input.volumes) : ~v.pathOk}}
       \cup (IF Cardinality(Defaults) > 1 THEN {Diag("DSTOR005", NoRef)}
                                         ELSE {})
  /\ pc' = "claims"
  /\ UNCHANGED <<input, i, claimed, planClaims, planMounts>>

-----------------------------------------------------------------------------
(* The claims loop. *)

AtClaim(c) ==
  pc = "claims" /\ i <= Len(input.claims) /\ c = input.claims[i]

\* Claim c gets volume id: plan.Claims and the claimed map.
Bind(c, id) ==
  /\ planClaims' = Append(planClaims,
                     [id |-> c.id, class |-> ClassOf(c),
                      capacity |-> c.capacity, modes |-> c.modes,
                      volume |-> id])
  /\ claimed' = claimed \cup {id}
  /\ i' = i + 1
  /\ UNCHANGED <<input, pc, planMounts, diags>>

RefuseClaim_MarksFirst(c) ==
  /\ AtClaim(c) /\ Refusal(c) # "none"
  /\ diags' = diags \cup {Diag(Refusal(c), c.id)}
  /\ claimed' = claimed \cup {planVolumes[k].id : k \in Named(c.volumeRef)}
  /\ i' = i + 1
  /\ UNCHANGED <<input, pc, planVolumes, planClaims, planMounts>>

RefuseClaim_Silent(c) ==
  /\ AtClaim(c) /\ Refusal(c) # "none"
  /\ i' = i + 1
  /\ UNCHANGED <<input, pc, planVolumes, claimed, planClaims, planMounts,
                 diags>>

RefuseClaim(c) ==
  /\ AtClaim(c) /\ Refusal(c) # "none"
  /\ diags' = diags \cup {Diag(Refusal(c), c.id)}
  /\ i' = i + 1
  /\ UNCHANGED <<input, pc, planVolumes, claimed, planClaims, planMounts>>

\* The claim names its volume.
BindExplicit(c) ==
  /\ AtClaim(c) /\ Refusal(c) = "none" /\ c.volumeRef # NoRef
  /\ Bind(c, c.volumeRef)
  /\ UNCHANGED planVolumes

\* The first candidate, in the order of plan.Volumes.
BindStatic(c) ==
  /\ AtClaim(c) /\ Refusal(c) = "none" /\ c.volumeRef = NoRef
  /\ \E k \in Candidates(c) :
       /\ \A j \in Candidates(c) : k <= j
       /\ Bind(c, planVolumes[k].id)
  /\ UNCHANGED planVolumes

Provision_NotPlanned(c) ==
  /\ AtClaim(c) /\ Refusal(c) = "none" /\ c.volumeRef = NoRef
  /\ Candidates(c) = {}
  /\ Bind(c, DynamicId(c))
  /\ UNCHANGED planVolumes

\* No candidate: a dynamic volume of the claim's own size, added to the plan
\* whatever volume already has its identity.
Provision(c) ==
  /\ AtClaim(c) /\ Refusal(c) = "none" /\ c.volumeRef = NoRef
  /\ Candidates(c) = {}
  /\ planVolumes' = Append(planVolumes,
                      [id |-> DynamicId(c), class |-> ClassOf(c),
                       capacity |-> c.capacity, modes |-> c.modes,
                       dynamic |-> TRUE])
  /\ Bind(c, DynamicId(c))

ClaimsDone ==
  /\ pc = "claims" /\ i > Len(input.claims)
  /\ pc' = "mounts" /\ i' = 1
  /\ UNCHANGED <<input, planVolumes, claimed, planClaims, planMounts, diags>>

-----------------------------------------------------------------------------
(* The mounts loop and the final sorts. *)

ClaimPlans(id) == {b \in Range(planClaims) : b.id = id}

AtMount(m) ==
  pc = "mounts" /\ i <= Len(input.mounts) /\ m = input.mounts[i]

\* The API group put in the place of one that a reference leaves out.
apiVersionForStorageKind(kind) ==
  CASE kind \in {"StorageClass", "PersistentVolume", "PersistentVolumeClaim"}
         -> "storage"
    [] kind \in {"DatabaseClass", "DatabaseInstance"} -> "databases"
    [] kind \in {"ConnectorClass", "DatabaseConnection"} -> "connections"
    [] kind = "RelationalSource" -> "sources"
    [] kind = "EventStream" -> "streams"
    [] kind \in {"ObjectStore", "Warehouse"} -> "stores"
    [] kind = "Pipeline" -> "pipelines"
    [] kind \in {"TableCatalog", "MetadataCatalog"} -> "catalogs"
    [] kind = "QueryEngine" -> "compute"
    [] OTHER -> "platform"

\* parseStorageRef of the workload finds the declared resource: the reference
\* spells the API version out, or the version put in its place is the one of
\* the resource's definition.
Resolves(workload) ==
  \/ workload.qualified
  \/ apiVersionForStorageKind(workload.kind) = DefinedIn[workload.kind]

\* A mount whose claim has no plan or whose workload is not found is passed
\* over in silence.
SkipMount(m) ==
  /\ AtMount(m)
  /\ ClaimPlans(m.claim) = {} \/ ~Resolves(m.workload)
  /\ i' = i + 1
  /\ UNCHANGED <<input, pc, planVolumes, claimed, planClaims, planMounts,
                 diags>>

RefuseMount(m) ==
  /\ AtMount(m)
  /\ ClaimPlans(m.claim) # {} /\ Resolves(m.workload) /\ ~m.pathOk
  /\ diags' = diags \cup {Diag("DSTOR010", m.id)}
  /\ i' = i + 1
  /\ UNCHANGED <<input, pc, planVolumes, claimed, planClaims, planMounts>>

Mount(m) ==
  /\ AtMount(m)
  /\ Resolves(m.workload) /\ m.pathOk
  /\ \E b \in ClaimPlans(m.claim) :
       planMounts' = Append(planMounts, [id |-> m.id, claim |-> m.claim,
                                         volume |-> b.volume])
  /\ i' = i + 1
  /\ UNCHANGED <<input, pc, planVolumes, claimed, planClaims, diags>>

Finish ==
  /\ pc = "mounts" /\ i > Len(input.mounts)
  /\ planVolumes' = StableSort(planVolumes)
  /\ planClaims' = StableSort(planClaims)
  /\ planMounts' = StableSort(planMounts)
  /\ pc' = "done"
  /\ UNCHANGED <<input, i, claimed, diags>>

-----------------------------------------------------------------------------
ClaimStep ==
  \E c \in Range(input.claims) :
    RefuseClaim(c) \/ BindExplicit(c) \/ BindStatic(c) \/ Provision(c)

MountStep ==
  \E m \in Range(input.mounts) : SkipMount(m) \/ RefuseMount(m) \/ Mount(m)

Done == pc = "done" /\ UNCHANGED vars

Next ==
  Declare \/ ClaimStep \/ ClaimsDone \/ MountStep \/ Finish \/ Done

Spec == Init /\ [][Next]_vars
-----------------------------------------------------------------------------
(* Properties. *)

VolumeIds == {v.id : v \in Range(planVolumes)}

VolumePlan == [id : Identity, class : Identity, capacity : Quantity,
               modes : SUBSET Modes, dynamic : BOOLEAN]
ClaimPlan == [id : Identity, class : Identity, capacity : Quantity,
              modes : SUBSET Modes, volume : Identity]
MountPlan == [id : Identity, claim : Identity, volume : Identity]

Codes == {"DREF002", "DSTOR005", "DSTOR006", "DSTOR007", "DSTOR008", "DSTOR009",
          "DSTOR010", "DSTOR011", "DSTOR012", "DSTOR013", "DSTOR014"}

TypeOK ==
  /\ WellFormed(input)
  /\ pc \in {"declare", "claims", "mounts", "done"}
  /\ i \in Nat \ {0}
  /\ planVolumes \in Seq(VolumePlan)
  /\ claimed \subseteq VolumeIds
  /\ planClaims \in Seq(ClaimPlan)
  /\ planMounts \in Seq(MountPlan)
  /\ diags \subseteq [code : Codes, of : Identity]

\* "one volume cannot be bound to multiple claims"
\* (docs/specification/storage.md:36): two planned claims never have the same
\* volume, through the explicit, the static and the dynamic branch alike.
ExclusiveBinding ==
  \A j, k \in DOMAIN planClaims :
    planClaims[j].volume = planClaims[k].volume => j = k

\* The volume of a planned claim is in the plan, and whoever looks it up there
\* by identity finds one of the claim's class, with enough capacity as
\* capacityAtLeast sees it, and with every mode the claim asks for. Dynamic
\* volumes included, and after the final sorts too.
BoundFits ==
  \A b \in Range(planClaims) :
    /\ b.volume \in VolumeIds
    /\ \A v \in Range(planVolumes) : v.id = b.volume =>
         /\ v.class = b.class
         /\ capacityAtLeast(v.capacity, b.capacity)
         /\ modesInclude(v.modes, b.modes)

\* "sufficient capacity" (docs/specification/storage.md:35) in bytes, not in
\* the integers parseQuantity computes with: a claim whose own bytes the
\* integer type holds has a volume of at least as many, though the size of the
\* volume, or of any other claim, may have been clamped or have wrapped. Of a
\* claim beyond the type the code cannot say it: a claim of 8192Pi is less
\* than every volume (storage.go:270), as WrappedClaimFitsAny proves.
SufficientCapacity ==
  \A b \in Range(planClaims) : Bytes(b.capacity) < Half =>
    \A v \in Range(planVolumes) :
      v.id = b.volume => Bytes(v.capacity) >= Bytes(b.capacity)

\* A volume is marked claimed exactly when a planned claim has it: a claim
\* that is refused in one of the many early continues keeps no volume.
NoLeakedVolume == claimed = {b.volume : b \in Range(planClaims)}

\* After the loop each claim of the input is planned or has a diagnostic, and
\* not both: no claim is passed over in silence.
EveryClaimAnswered ==
  pc \in {"mounts", "done"} =>
    \A c \in Range(input.claims) :
      (ClaimPlans(c.id) # {}) # (\E d \in diags : d.of = c.id)

\* A claim that names a volume has that volume or none, and the volume is a
\* declared one: it is never given a dynamic volume, its own or another's.
ExplicitHonoured ==
  \A c \in Range(input.claims) : c.volumeRef # NoRef =>
    \A b \in ClaimPlans(c.id) :
      /\ b.volume = c.volumeRef
      /\ \A v \in Range(planVolumes) : v.id = b.volume => ~v.dynamic

\* DSTOR014 is reported to a claim only if another planned claim has the
\* volume it names.
TakenByAnother ==
  \A d \in diags : d.code = "DSTOR014" =>
    \A c \in Range(input.claims) : c.id = d.of =>
      \E b \in Range(planClaims) : b.id # c.id /\ b.volume = c.volumeRef

\* A dynamic volume is planned only for want of a declared one: every declared
\* volume that would do for its claim belongs to some planned claim.
NoNeedlessVolume ==
  \A b \in Range(planClaims) : \A v, w \in Range(planVolumes) :
    (/\ v.id = b.volume /\ v.dynamic
     /\ ~w.dynamic /\ w.class = b.class
     /\ capacityAtLeast(w.capacity, b.capacity)
     /\ modesInclude(w.modes, b.modes)) => w.id \in claimed

\* Each planned mount carries the volume that its claim has in the same plan.
MountsFollowClaims ==
  \A m \in Range(planMounts) :
    \E b \in Range(planClaims) : b.id = m.claim /\ b.volume = m.volume

\* The mount of a declared claim is planned, or a diagnostic names it or its
\* claim: a mount passed over for want of a claim plan (storage.go:157) has the
\* refusal of the claim to explain it. Of a workload that is not found nothing
\* is said (storage.go:161), and nothing is claimed here.
MountsAnswered ==
  pc = "done" =>
    \A m \in Range(input.mounts), c \in Range(input.claims) :
      c.id = m.claim /\ Resolves(m.workload) =>
        \/ \E p \in Range(planMounts) : p.id = m.id
        \/ \E d \in diags : d.of \in {m.id, c.id}

\* The six together: what the planner answers to each claim, and what the
\* mounts make of the answer.
ClaimsAnswered ==
  /\ EveryClaimAnswered /\ ExplicitHonoured /\ TakenByAnother /\ NoNeedlessVolume
  /\ MountsFollowClaims /\ MountsAnswered

-----------------------------------------------------------------------------
(* The abstract specification: claims are answered once each, and a volume   *)
(* goes to one claim for good.                                               *)

OpenClaims ==
  CASE pc = "declare" -> {input.claims[k].id : k \in DOMAIN input.claims}
    [] pc = "claims"  -> {input.claims[k].id : k \in i..Len(input.claims)}
    [] OTHER          -> {}

Binding == INSTANCE ClaimBinding
             WITH open  <- OpenClaims,
                  bound <- {<<b.id, b.volume>> : b \in Range(planClaims)}

ImplementsBinding == Binding!Spec
=============================================================================
