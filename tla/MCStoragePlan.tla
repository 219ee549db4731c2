--------------------------- MODULE MCStoragePlan ---------------------------
(* Instances of StoragePlan for TLC. *)
EXTENDS StoragePlan

MCMultiplier == [Ki |-> 1, Mi |-> 4, Gi |-> 16]
MCModes == {"RWO", "RWX"}
MCWords == {"pvc", "default", "a", "b", "c", "x", "y", "v1", "v2", "fast",
            "bulk", "m1", "m2"}
MCDefinedIn == [DatabaseInstance |-> "databases", Pipeline |-> "pipelines",
                CDCInstance |-> "cdc", AuditStore |-> "audit"]

Claim(ns, name) ==
  [kind |-> "PersistentVolumeClaim", namespace |-> ns, name |-> name]
Class(name) ==
  [kind |-> "StorageClass", namespace |-> Default, name |-> <<name>>]
MountId(name) ==
  [kind |-> "VolumeMountBinding", namespace |-> <<"a">>, name |-> <<name>>]

Fast == Class("fast")
Bulk == Class("bulk")
V1 == PersistentVolume(<<"v1">>)
V2 == PersistentVolume(<<"v2">>)
AX == Claim(<<"a">>, <<"x">>)
AY == Claim(<<"a">>, <<"y">>)
BX == Claim(<<"b">>, <<"x">>)

\* Claims whose dynamic volumes are both called pvc-a-b-c, and one whose
\* dynamic volume is called like a declared volume.
ABC == Claim(<<"a", "b">>, <<"c">>)
ABC2 == Claim(<<"a">>, <<"b", "c">>)
PvcAX == PersistentVolume(<<"pvc", "a", "x">>)

\* The identities in the order of their canonical strings.
MCOrder ==
  <<PersistentVolume(<<"pvc", "a", "b", "c">>), PvcAX,
    PersistentVolume(<<"pvc", "a", "y">>),
    PersistentVolume(<<"pvc", "b", "x">>), V1, V2,
    ABC, ABC2, AX, AY, BX, MountId("m1"), MountId("m2")>>
MCRank(id) == CHOOSE k \in DOMAIN MCOrder : MCOrder[k] = id

Small == [n |-> 6, unit |-> "Ki"]
Large == [n |-> 2, unit |-> "Mi"]

\* Quantities beyond the integer type, whose values are -32 .. 31: the least
\* value for 32 bytes, as 8192Pi is; 16 for 80; and -4 for 160, whose number
\* is clamped to 31 before the product wraps.
Wrapping == [n |-> 2, unit |-> "Gi"]
Huge == [n |-> 5, unit |-> "Gi"]
Clamped == [n |-> 40, unit |-> "Mi"]

ClassPlan(provisioner, default, compatible) ==
  [provisioner |-> provisioner, default |-> default, compatible |-> compatible]
Volume(id, class, capacity, modes, pathOk) ==
  [id |-> id, class |-> class, capacity |-> capacity, modes |-> modes,
   pathOk |-> pathOk]
MountOf(id, claim, kind, qualified, pathOk) ==
  [id |-> id, claim |-> claim, pathOk |-> pathOk,
   workload |-> [kind |-> kind, qualified |-> qualified]]

\* One default class, none, two of them (one of these incompatible with the
\* target).
ClassChoices ==
  {(Fast :> ClassPlan("compose.named", TRUE, TRUE)
      @@ Bulk :> ClassPlan("other", FALSE, TRUE)),
   (Fast :> ClassPlan("compose.named", FALSE, TRUE)
      @@ Bulk :> ClassPlan("other", FALSE, TRUE)),
   (Fast :> ClassPlan("compose.named", TRUE, TRUE)
      @@ Bulk :> ClassPlan("other", TRUE, FALSE))}

VolumeChoices ==
  {<<>>,
   <<Volume(V1, Fast, Small, {"RWO"}, TRUE),
     Volume(V2, Fast, Large, {"RWO", "RWX"}, TRUE)>>,
   <<Volume(V1, Fast, Large, {"RWO"}, FALSE),
     Volume(V2, Bulk, Small, {"RWO"}, TRUE)>>,
   <<Volume(V1, Fast, Clamped, {"RWO", "RWX"}, TRUE),
     Volume(V2, Fast, Huge, {"RWO"}, TRUE)>>}

ClaimChoices(id, classes, refs, capacities, modes) ==
  {[id |-> id, class |-> class, volumeRef |-> ref, capacity |-> capacity,
    modes |-> m] :
     class \in classes, ref \in refs, capacity \in capacities, m \in modes}

MountChoices ==
  {<<MountOf(MountId("m1"), BX, "DatabaseInstance", FALSE, TRUE),
     MountOf(MountId("m2"), AX, "CDCInstance", TRUE, TRUE)>>,
   <<MountOf(MountId("m1"), AX, "Pipeline", FALSE, FALSE),
     MountOf(MountId("m2"), AY, "AuditStore", FALSE, TRUE)>>}

\* Three claims: the first with the default class, the second with any class
\* and size, 2Gi included, the third asking for one mode or two. Each may name
\* a volume, the third also the dynamic volume of the first.
MCInputs ==
  {[classes |-> cl, volumes |-> vs, claims |-> <<c1, c2, c3>>, mounts |-> ms] :
     cl \in ClassChoices, vs \in VolumeChoices, ms \in MountChoices,
     c1 \in ClaimChoices(AX, {NoRef}, {NoRef, V2}, {Small}, {{"RWO"}}),
     c2 \in ClaimChoices(AY, {NoRef, Fast, Bulk}, {NoRef, V1},
                        {Small, Large, Wrapping}, {{"RWO"}, {"RWX"}}),
     c3 \in ClaimChoices(BX, {Fast, Bulk}, {NoRef, V1, PvcAX},
                        {Small}, {{"RWO"}, {"RWO", "RWX"}})}

\* A default class and the claims given; no declared volume but those given.
Plain(volumes, claims, mounts) ==
  [classes |-> Fast :> ClassPlan("compose.named", TRUE, TRUE),
   volumes |-> volumes, claims |-> claims, mounts |-> mounts]
PlainClaim(id, capacity) ==
  [id |-> id, class |-> NoRef, volumeRef |-> NoRef, capacity |-> capacity,
   modes |-> {"RWO"}]

\* Two claims whose dynamic volumes have one name.
MCCollisions == {Plain(<<>>, <<PlainClaim(ABC, Small),
                               PlainClaim(ABC2, Large)>>, <<>>)}
=============================================================================
