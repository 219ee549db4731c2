------------------------- MODULE StoragePlan_proofs -------------------------
(***************************************************************************)
(* Proofs about StoragePlan, for every set of well-formed inputs, every    *)
(* order of the identities and every integer width.  ExclusiveBinding and  *)
(* what follows from it need DistinctDynamicIds, which the run             *)
(* StorageCollision shows the code does not establish.                     *)
(***************************************************************************)
EXTENDS StoragePlan, SequenceLemmas, FiniteSetTheorems

-----------------------------------------------------------------------------
(* Quantities. *)

\* parseQuantity computes with integers; a quantity fits itself.
LEMMA QuantityInt ==
  ASSUME NEW q \in Quantity
  PROVE  parseQuantity(q) \in Int /\ capacityAtLeast(q, q)
<1>1. Modulus \in Nat \ {0} /\ Half \in Int
  BY QuantitiesAssumption DEF Half
<1>2. q.n \in Nat /\ q.unit \in Units
  BY DEF Quantity
<1>3. Multiplier[q.unit] \in Nat
  BY <1>2, QuantitiesAssumption
<1>4. ParseInt(q.n) \in Int
  BY <1>1, <1>2 DEF ParseInt
<1> DEFINE x == ParseInt(q.n) * Multiplier[q.unit]
<1>5. x \in Int
  BY <1>3, <1>4
<1>6. Wrap(x) \in Int
  <2> HIDE DEF x
  <2>1. (x + Half) \in Int
    BY <1>1, <1>5
  <2>2. (x + Half) % Modulus \in Int
    BY <1>1, <2>1
  <2>3. QED
    BY <1>1, <2>2 DEF Wrap
<1>7. QED
  BY <1>6 DEF parseQuantity, capacityAtLeast

\* Where the bytes of a quantity fit in the integer type, parseQuantity
\* computes them: neither the clamping nor the wrapping happens.
LEMMA QuantityExact ==
  ASSUME NEW q \in Quantity, Bytes(q) < Half
  PROVE  parseQuantity(q) = Bytes(q)
<1>1. Modulus \in Nat \ {0} /\ Half \in Nat /\ Modulus = 2 * Half
  BY QuantitiesAssumption DEF Half
<1>2. q.n \in Nat \ {0} /\ Multiplier[q.unit] \in Nat \ {0}
  BY QuantitiesAssumption DEF Quantity
<1>3. q.n <= Bytes(q) /\ Bytes(q) \in Nat
  <2>1. \A a, b \in Nat \ {0} : a <= a * b /\ a * b \in Nat
    OBVIOUS
  <2>2. QED
    BY <1>2, <2>1 DEF Bytes
<1>4. ParseInt(q.n) = q.n
  BY <1>1, <1>2, <1>3 DEF ParseInt
<1>5. (Bytes(q) + Half) % Modulus = Bytes(q) + Half
  <2>1. \A a, m \in Nat : a < m => a % m = a
    OBVIOUS
  <2>2. Bytes(q) + Half \in Nat /\ Bytes(q) + Half < Modulus
    BY <1>1, <1>3
  <2>3. QED
    BY <1>1, <2>1, <2>2
<1>6. Wrap(Bytes(q)) = Bytes(q)
  BY <1>1, <1>3, <1>5 DEF Wrap
<1>7. QED
  BY <1>4, <1>6 DEF parseQuantity, Bytes

\* The type is not empty, and clamping leaves a natural number.
LEMMA HalfPositive ==
  /\ Half \in Nat \ {0} /\ Modulus = 2 * Half
  /\ \A n \in Nat : ParseInt(n) \in Nat /\ ParseInt(n) <= n
<1>1. Half \in Nat \ {0} /\ Modulus = 2 * Half
  BY QuantitiesAssumption DEF Half
<1>2. QED
  BY <1>1 DEF ParseInt

\* Whatever is clamped or wraps, parseQuantity never finds more bytes than a
\* quantity has.
LEMMA QuantityAtMost ==
  ASSUME NEW q \in Quantity
  PROVE  parseQuantity(q) <= Bytes(q)
<1>1. q.n \in Nat /\ Multiplier[q.unit] \in Nat
  BY QuantitiesAssumption DEF Quantity
<1> DEFINE p == ParseInt(q.n)
           m == Multiplier[q.unit]
<1>2. p \in Nat /\ p <= q.n /\ m \in Nat
  BY <1>1, HalfPositive
<1>3. Bytes(q) = q.n * m /\ parseQuantity(q) = Wrap(p * m)
  BY DEF Bytes, parseQuantity
<1> HIDE DEF p, m
<1>4. p * m \in Nat /\ q.n * m \in Nat /\ p * m <= q.n * m
  <2>1. \A a, b, c \in Nat : a <= b => a * c \in Nat /\ b * c \in Nat /\ a * c <= b * c
    OBVIOUS
  <2>2. QED
    BY <1>1, <1>2, <2>1
<1>5. ASSUME NEW x \in Nat PROVE Wrap(x) \in Int /\ Wrap(x) <= x
  <2>1. \A a \in Nat, b \in Nat \ {0} : a % b \in Nat /\ a % b <= a
    OBVIOUS
  <2>2. x + Half \in Nat /\ Modulus \in Nat \ {0} /\ Half \in Nat
    BY HalfPositive
  <2>3. (x + Half) % Modulus \in Nat /\ (x + Half) % Modulus <= x + Half
    BY <2>1, <2>2
  <2>4. QED
    BY <2>2, <2>3 DEF Wrap
<1>6. QED
  BY <1>3, <1>4, <1>5

-----------------------------------------------------------------------------
(* sort.SliceStable. *)

\* Sorting permutes: the same elements, as often, in other places.
LEMMA StableSortPermutes ==
  ASSUME NEW S, NEW s \in Seq(S),
         \A k \in DOMAIN s : Rank(s[k].id) \in Nat
  PROVE  /\ StableSort(s) \in Seq(S)
         /\ Range(StableSort(s)) = Range(s)
         /\ \E p \in [DOMAIN StableSort(s) -> DOMAIN s] :
              /\ \A n \in DOMAIN StableSort(s) : StableSort(s)[n] = s[p[n]]
              /\ \A m, n \in DOMAIN StableSort(s) : p[m] = p[n] => m = n
<1> DEFINE rank == [k \in DOMAIN s |-> Rank(s[k].id)]
<1>1. \A k \in DOMAIN s : rank[k] \in Nat
  OBVIOUS
<1>2. StableSort(s) = InOrder(s, DOMAIN s, rank)
  BY DEF StableSort
<1>3. {s[k] : k \in DOMAIN s} = Range(s)
  BY DEF Range
<1> HIDE DEF rank
<1> DEFINE D == DOMAIN s
           t == InOrder(s, D, rank)
<1>4. D \in SUBSET DOMAIN s /\ \A k \in D : rank[k] \in Nat
  BY <1>1
<1> HIDE DEF D
<1>5. /\ t \in Seq(S)
      /\ DOMAIN t = 1..Cardinality(D)
      /\ Range(t) = {s[k] : k \in D}
      /\ Sorts(t, s, D, rank)
  BY <1>4, InOrderPermutes
<1> HIDE DEF t
<1>6. \E p \in [DOMAIN t -> D] :
        /\ \A n \in DOMAIN t : t[n] = s[p[n]]
        /\ \A m, n \in DOMAIN t : p[m] = p[n] => m = n
  BY <1>5 DEF Sorts
<1>7. QED
  BY <1>2, <1>3, <1>5, <1>6 DEF D, t

-----------------------------------------------------------------------------
(* The invariant. *)

\* The iterations of the claims loop that are over.
Handled(k) == pc = "claims" => k < i

\* Where the entries of the plan come from: a declared volume or the dynamic
\* volume of a claim already handled, a claim already handled, a mount.
VolumeFrom(v) ==
  \/ /\ ~v.dynamic
     /\ \E k \in DOMAIN input.volumes :
          /\ v.id = input.volumes[k].id
          /\ v.capacity = input.volumes[k].capacity
  \/ /\ v.dynamic
     /\ \E k \in DOMAIN input.claims :
          /\ Handled(k)
          /\ v.id = DynamicId(input.claims[k])
          /\ v.capacity = input.claims[k].capacity

ClaimFrom(b) ==
  \E k \in DOMAIN input.claims :
    /\ Handled(k)
    /\ b.id = input.claims[k].id
    /\ b.capacity = input.claims[k].capacity

MountFrom(m) == \E k \in DOMAIN input.mounts : m.id = input.mounts[k].id

Origin ==
  /\ \A v \in Range(planVolumes) : VolumeFrom(v)
  /\ \A b \in Range(planClaims) : ClaimFrom(b)
  /\ \A m \in Range(planMounts) : MountFrom(m)

\* The first loop runs once, on an empty plan.
Fresh ==
  pc = "declare" =>
    /\ i = 1
    /\ planVolumes = <<>> /\ claimed = {}
    /\ planClaims = <<>> /\ planMounts = <<>>

IInv == TypeOK /\ input \in Inputs /\ Origin /\ Fresh /\ NoLeakedVolume

\* What holds besides when dynamic volumes have identities of their own.
VolumesDistinct ==
  \A j, k \in DOMAIN planVolumes : planVolumes[j].id = planVolumes[k].id => j = k

XInv == VolumesDistinct /\ ExclusiveBinding /\ BoundFits

\* Every input keeps the dynamic volumes apart.
NoCollision == \A in \in Inputs : DistinctDynamicIds(in)

-----------------------------------------------------------------------------
(* Facts about the input and the operators of the loops. *)

LEMMA IdentityTypes ==
  /\ NoRef \in Identity
  /\ \A n \in Seq(Words) : PersistentVolume(n) \in Identity
<1>1. <<>> \in Seq(Words)
  OBVIOUS
<1>2. <<"default">> \in Seq(Words)
  BY WordsAssumption
<1>3. QED
  BY <1>1, <1>2 DEF Identity, Kinds, NoRef, PersistentVolume, Default

LEMMA DynamicIdType ==
  ASSUME NEW c \in ClaimBody
  PROVE  DynamicId(c) \in Identity
<1>1. c.id.namespace \in Seq(Words) /\ c.id.name \in Seq(Words)
  BY DEF ClaimBody, Identity
<1>2. <<"pvc">> \in Seq(Words)
  BY WordsAssumption
<1>3. <<"pvc">> \o c.id.namespace \o c.id.name \in Seq(Words)
  BY <1>1, <1>2, ConcatProperties
<1>4. QED
  BY <1>3, IdentityTypes DEF DynamicId

LEMMA InputTypes ==
  ASSUME WellFormed(input)
  PROVE  /\ \A k \in DOMAIN input.volumes :
              /\ input.volumes[k] \in VolumeBody
              /\ Rank(input.volumes[k].id) \in Nat
         /\ \A k \in DOMAIN input.claims :
              /\ input.claims[k] \in ClaimBody
              /\ Rank(input.claims[k].id) \in Nat
              /\ Rank(DynamicId(input.claims[k])) \in Nat
         /\ \A k \in DOMAIN input.mounts :
              /\ input.mounts[k] \in MountBody
              /\ Rank(input.mounts[k].id) \in Nat
         /\ input.volumes \in Seq(VolumeBody)
         /\ input.claims \in Seq(ClaimBody)
         /\ input.mounts \in Seq(MountBody)
         /\ DOMAIN input.classes \subseteq Identity
         /\ DistinctIds(input.volumes) /\ DistinctIds(input.claims)
<1>1. \A S : \A s \in Seq(S) : \A k \in DOMAIN s : s[k] \in S
  BY LenProperties
<1>2. QED
  BY <1>1 DEF WellFormed

\* A claim's class is an identity, NoRef included.
LEMMA ClassOfType ==
  ASSUME WellFormed(input), NEW c \in ClaimBody
  PROVE  ClassOf(c) \in Identity
<1>1. c.class \in Identity
  BY DEF ClaimBody
<1>2. Defaults \subseteq Identity
  BY InputTypes DEF Defaults
<1>3. Cardinality(Defaults) = 1 => Defaults # {}
  BY FS_EmptySet
<1>4. QED
  BY <1>1, <1>2, <1>3, IdentityTypes DEF ClassOf

\* A claim that is not refused and names a volume names one of the plan; if
\* identities are distinct there, it is free and suits the claim.
LEMMA ExplicitChecks ==
  ASSUME NEW c, Refusal(c) = "none", c.volumeRef # NoRef
  PROVE  /\ c.volumeRef \in VolumeIds
         /\ VolumesDistinct /\ TypeOK =>
              /\ c.volumeRef \notin claimed
              /\ \A v \in Range(planVolumes) : v.id = c.volumeRef => Suits(v, c)
<1>1. Named(c.volumeRef) # {}
  BY DEF Refusal
<1>2. c.volumeRef \in VolumeIds
  BY <1>1 DEF Named, VolumeIds, Range
<1>3. /\ VolumeOf(c.volumeRef).id \notin claimed
      /\ Suits(VolumeOf(c.volumeRef), c)
  BY <1>1 DEF Refusal, Suits
<1>4. ASSUME VolumesDistinct, TypeOK
      PROVE  \A v \in Range(planVolumes) :
               v.id = c.volumeRef => v = VolumeOf(c.volumeRef)
  <2>1. PICK k \in DOMAIN planVolumes : planVolumes[k].id = c.volumeRef
    BY <1>1 DEF Named
  <2>2. Named(c.volumeRef) = {k}
    BY <2>1, <1>4 DEF Named, VolumesDistinct
  <2>3. k \in Nat
    BY <1>4, LenProperties DEF TypeOK
  <2>4. VolumeOf(c.volumeRef) = planVolumes[k]
    BY <2>2, <2>3 DEF VolumeOf
  <2>5. QED
    BY <2>1, <2>4, <1>4 DEF Range, VolumesDistinct
<1>5. QED
  BY <1>2, <1>3, <1>4 DEF VolumeIds

-----------------------------------------------------------------------------
(* The invariant holds initially and is preserved. *)

LEMMA InitIInv == Init => IInv
<1> SUFFICES ASSUME Init PROVE IInv
  OBVIOUS
<1>1. WellFormed(input)
  BY InputsAssumption DEF Init
<1>2. Range(planVolumes) = {} /\ Range(planClaims) = {} /\ Range(planMounts) = {}
  BY RangeEmpty DEF Init
<1>3. TypeOK
  BY <1>1 DEF Init, TypeOK
<1>4. Origin /\ NoLeakedVolume
  BY <1>2 DEF Init, Origin, NoLeakedVolume
<1>5. QED
  BY <1>3, <1>4 DEF Init, IInv, Fresh

\* The claim at hand, as the invariants see it.
LEMMA AtClaimFacts ==
  ASSUME IInv, NEW c, AtClaim(c)
  PROVE  /\ c \in ClaimBody /\ ClassOf(c) \in Identity
         /\ i \in DOMAIN input.claims /\ c = input.claims[i]
         /\ pc = "claims"
<1>1. WellFormed(input) /\ i \in Nat \ {0}
  BY DEF IInv, TypeOK
<1>2. DOMAIN input.claims = 1..Len(input.claims) /\ Len(input.claims) \in Nat
  BY <1>1, InputTypes, LenProperties
<1>3. i \in DOMAIN input.claims /\ c = input.claims[i]
  BY <1>1, <1>2 DEF AtClaim
<1>4. QED
  BY <1>1, <1>3, InputTypes, ClassOfType DEF AtClaim

\* What happened before the next iteration has happened before the one after.
LEMMA OriginLater ==
  ASSUME IInv, pc = "claims", input' = input, pc' = pc, i' = i + 1
  PROVE  /\ \A v : VolumeFrom(v) => VolumeFrom(v)'
         /\ \A b : ClaimFrom(b) => ClaimFrom(b)'
         /\ \A m : MountFrom(m) => MountFrom(m)'
<1>1. i \in Nat
  BY DEF IInv, TypeOK
<1>2. \A k \in DOMAIN input.claims : k \in Nat
  BY InputTypes, LenProperties DEF IInv, TypeOK
<1>3. \A k \in DOMAIN input.claims : Handled(k) => Handled(k)'
  BY <1>1, <1>2 DEF Handled
<1>4. QED
  BY <1>3 DEF VolumeFrom, ClaimFrom, MountFrom

\* The part of the three binding branches that is common to them.
LEMMA BindIInv ==
  ASSUME IInv, NEW c, AtClaim(c), NEW id \in Identity, Bind(c, id),
         planVolumes' \in Seq(VolumePlan),
         id \in VolumeIds', VolumeIds \subseteq VolumeIds',
         \A v \in Range(planVolumes)' : VolumeFrom(v)'
  PROVE  /\ IInv'
         /\ \E b \in ClaimPlan :
              /\ b.volume = id /\ b.class = ClassOf(c)
              /\ b.capacity = c.capacity /\ b.modes = c.modes
              /\ planClaims' = Append(planClaims, b)
<1>1. /\ c \in ClaimBody /\ ClassOf(c) \in Identity
      /\ i \in DOMAIN input.claims /\ c = input.claims[i] /\ pc = "claims"
  BY AtClaimFacts
<1>2. [id |-> c.id, class |-> ClassOf(c), capacity |-> c.capacity,
       modes |-> c.modes, volume |-> id] \in ClaimPlan
  BY <1>1 DEF ClaimPlan, ClaimBody
<1>3. PICK b \in ClaimPlan :
        /\ b.id = c.id /\ b.class = ClassOf(c) /\ b.volume = id
        /\ b.capacity = c.capacity /\ b.modes = c.modes
        /\ planClaims' = Append(planClaims, b)
  BY <1>2 DEF Bind
<1>5. /\ claimed' = claimed \cup {id} /\ i' = i + 1
      /\ UNCHANGED <<input, pc, planMounts, diags>>
  BY DEF Bind
<1>6. planClaims \in Seq(ClaimPlan) /\ i \in Nat \ {0}
  BY DEF IInv, TypeOK
<1>7. /\ planClaims' \in Seq(ClaimPlan)
      /\ Range(planClaims)' = Range(planClaims) \cup {b}
  BY <1>3, <1>6, RangeAppend, AppendProperties
<1>8. TypeOK'
  BY <1>5, <1>6, <1>7 DEF IInv, TypeOK
<1>9. ClaimFrom(b)'
  BY <1>1, <1>3, <1>5, <1>6 DEF ClaimFrom, Handled
<1>10. Origin'
  BY <1>1, <1>5, <1>7, <1>9, OriginLater DEF IInv, Origin
<1>11. NoLeakedVolume'
  BY <1>3, <1>5, <1>7 DEF IInv, NoLeakedVolume
<1>12. input' \in Inputs /\ Fresh'
  BY <1>1, <1>5 DEF IInv, Fresh
<1>13. QED
  BY <1>3, <1>8, <1>10, <1>11, <1>12 DEF IInv

\* A claim that is refused or a mount that is passed over or refused changes
\* the diagnostics at most.
LEMMA RefusalCodes ==
  ASSUME NEW c, Refusal(c) # "none"
  PROVE  Refusal(c) \in Codes
BY DEF Refusal, Codes

LEMMA RefuseClaimIInv ==
  ASSUME IInv, NEW c, RefuseClaim(c)
  PROVE  IInv'
<1>1. AtClaim(c) /\ Refusal(c) \in Codes
  BY RefusalCodes DEF RefuseClaim
<1>2. c \in ClaimBody /\ pc = "claims"
  BY <1>1, AtClaimFacts
<1>3. Diag(Refusal(c), c.id) \in [code : Codes, of : Identity]
  BY <1>1, <1>2 DEF Diag, ClaimBody
<1>4. TypeOK'
  BY <1>3 DEF RefuseClaim, IInv, TypeOK, VolumeIds
<1>5. Origin'
  BY <1>2, OriginLater DEF RefuseClaim, IInv, Origin
<1>6. QED
  BY <1>2, <1>4, <1>5 DEF RefuseClaim, IInv, Fresh, NoLeakedVolume

LEMMA BindExplicitIInv ==
  ASSUME IInv, NEW c, BindExplicit(c)
  PROVE  IInv'
<1>1. /\ AtClaim(c) /\ Refusal(c) = "none" /\ c.volumeRef # NoRef
      /\ Bind(c, c.volumeRef) /\ planVolumes' = planVolumes
  BY DEF BindExplicit
<1>2. c \in ClaimBody /\ pc = "claims"
  BY <1>1, AtClaimFacts
<1>3. c.volumeRef \in Identity
  BY <1>2 DEF ClaimBody
<1>4. /\ planVolumes' \in Seq(VolumePlan)
      /\ c.volumeRef \in VolumeIds' /\ VolumeIds \subseteq VolumeIds'
  BY <1>1, ExplicitChecks DEF VolumeIds, IInv, TypeOK
<1>5. \A v \in Range(planVolumes)' : VolumeFrom(v)'
  BY <1>1, <1>2, OriginLater DEF IInv, Origin, Bind
<1>6. QED
  BY <1>1, <1>3, <1>4, <1>5, BindIInv

LEMMA BindStaticIInv ==
  ASSUME IInv, NEW c, BindStatic(c)
  PROVE  IInv'
<1>1. PICK k \in Candidates(c) : Bind(c, planVolumes[k].id)
  BY DEF BindStatic
<1>2. AtClaim(c) /\ planVolumes' = planVolumes /\ pc = "claims"
  BY DEF BindStatic, AtClaim
<1>3. k \in DOMAIN planVolumes /\ planVolumes \in Seq(VolumePlan)
  BY <1>1 DEF Candidates, IInv, TypeOK
<1>4. planVolumes[k] \in VolumePlan
  BY <1>3, LenProperties
<1>5. planVolumes[k].id \in Identity
  BY <1>4 DEF VolumePlan
<1>6. /\ planVolumes' \in Seq(VolumePlan)
      /\ planVolumes[k].id \in VolumeIds' /\ VolumeIds \subseteq VolumeIds'
  BY <1>2, <1>3 DEF VolumeIds, Range
<1>7. \A v \in Range(planVolumes)' : VolumeFrom(v)'
  BY <1>1, <1>2, OriginLater DEF IInv, Origin, Bind
<1>8. QED
  BY <1>1, <1>2, <1>5, <1>6, <1>7, BindIInv

\* The dynamic volume of a claim, as Provision adds it.
NewVolume(c) == [id |-> DynamicId(c), class |-> ClassOf(c),
                 capacity |-> c.capacity, modes |-> c.modes, dynamic |-> TRUE]

LEMMA ProvisionFacts ==
  ASSUME IInv, NEW c, Provision(c)
  PROVE  /\ AtClaim(c) /\ Bind(c, DynamicId(c)) /\ DynamicId(c) \in Identity
         /\ planVolumes' = Append(planVolumes, NewVolume(c))
         /\ planVolumes' \in Seq(VolumePlan)
         /\ Range(planVolumes') = Range(planVolumes) \cup {NewVolume(c)}
         /\ NewVolume(c).id = DynamicId(c)
<1>1. AtClaim(c) /\ Bind(c, DynamicId(c))
  BY DEF Provision
<1>2. planVolumes' = Append(planVolumes, NewVolume(c))
  BY DEF Provision, NewVolume
<1>3. c \in ClaimBody /\ ClassOf(c) \in Identity /\ DynamicId(c) \in Identity
  BY <1>1, AtClaimFacts, DynamicIdType
<1>4. NewVolume(c) \in VolumePlan
  BY <1>3 DEF NewVolume, VolumePlan, ClaimBody
<1>5. planVolumes \in Seq(VolumePlan)
  BY DEF IInv, TypeOK
<1>6. /\ Append(planVolumes, NewVolume(c)) \in Seq(VolumePlan)
      /\ Range(Append(planVolumes, NewVolume(c)))
           = Range(planVolumes) \cup {NewVolume(c)}
  BY <1>4, <1>5, RangeAppend, AppendProperties
<1>7. NewVolume(c).id = DynamicId(c)
  BY DEF NewVolume
<1>8. QED
  BY <1>1, <1>2, <1>3, <1>6, <1>7

LEMMA ProvisionIInv ==
  ASSUME IInv, NEW c, Provision(c)
  PROVE  IInv'
<1>1. /\ AtClaim(c) /\ Bind(c, DynamicId(c)) /\ DynamicId(c) \in Identity
      /\ planVolumes' \in Seq(VolumePlan)
      /\ Range(planVolumes') = Range(planVolumes) \cup {NewVolume(c)}
      /\ NewVolume(c).id = DynamicId(c)
  BY ProvisionFacts
<1>2. /\ i \in DOMAIN input.claims /\ c = input.claims[i] /\ pc = "claims"
      /\ i' = i + 1 /\ input' = input /\ pc' = pc /\ i \in Nat
  BY <1>1, AtClaimFacts DEF Bind, IInv, TypeOK
<1>3. DynamicId(c) \in VolumeIds' /\ VolumeIds \subseteq VolumeIds'
  BY <1>1 DEF VolumeIds
<1>4. ASSUME NEW v, v = NewVolume(c)
      PROVE  VolumeFrom(v)'
  <2>1. v.dynamic /\ v.id = DynamicId(c) /\ v.capacity = c.capacity
    BY <1>4 DEF NewVolume
  <2>2. QED
    BY <1>2, <2>1 DEF VolumeFrom, Handled
<1>5. \A v \in Range(planVolumes)' : VolumeFrom(v)'
  BY <1>1, <1>2, <1>4, OriginLater DEF IInv, Origin
<1>6. QED
  BY <1>1, <1>3, <1>5, BindIInv

LEMMA DeclareIInv ==
  ASSUME IInv, Declare
  PROVE  IInv' /\ (DistinctDynamicIds(input) => XInv')
<1>1. /\ WellFormed(input) /\ pc = "declare" /\ pc' = "claims" /\ i = 1
      /\ planClaims = <<>> /\ planMounts = <<>> /\ claimed = {}
      /\ UNCHANGED <<input, i, claimed, planClaims, planMounts>>
  BY DEF Declare, IInv, TypeOK, Fresh
<1> DEFINE Plan(v) == [id |-> v.id, class |-> v.class, capacity |-> v.capacity,
                       modes |-> v.modes, dynamic |-> FALSE]
<1>2. \A v \in VolumeBody : Plan(v) \in VolumePlan
  BY DEF VolumeBody, VolumePlan
<1>3. /\ input.volumes \in Seq(VolumeBody) /\ DistinctIds(input.volumes)
      /\ DOMAIN input.volumes = 1..Len(input.volumes)
      /\ Len(input.volumes) \in Nat
      /\ \A k \in DOMAIN input.volumes : input.volumes[k] \in VolumeBody
  BY <1>1, InputTypes, LenProperties
<1>4. planVolumes' = [k \in DOMAIN input.volumes |-> Plan(input.volumes[k])]
  BY DEF Declare
<1>5. planVolumes' \in [1..Len(input.volumes) -> VolumePlan]
  BY <1>2, <1>3, <1>4
<1>6. planVolumes' \in Seq(VolumePlan)
  BY <1>3, <1>5, SeqDef
<1>7. diags' \subseteq [code : Codes, of : Identity]
  <2>1. {Diag("DSTOR007", k) : k \in {k \in DOMAIN input.classes :
                                        ~input.classes[k].compatible}}
          \subseteq [code : Codes, of : Identity]
    BY <1>1, InputTypes DEF Diag, Codes
  <2>2. \A v \in Range(input.volumes) : v.id \in Identity
    BY <1>3 DEF Range, VolumeBody
  <2>3. {Diag("DSTOR009", v.id) : v \in {v \in Range(input.volumes) : ~v.pathOk}}
          \subseteq [code : Codes, of : Identity]
    BY <2>2 DEF Diag, Codes
  <2>4. Diag("DSTOR005", NoRef) \in [code : Codes, of : Identity]
    BY IdentityTypes DEF Diag, Codes
  <2>5. QED
    BY <2>1, <2>3, <2>4 DEF Declare
<1>8. TypeOK'
  BY <1>1, <1>6, <1>7 DEF IInv, TypeOK
<1>9. /\ Range(planClaims)' = {} /\ Range(planMounts)' = {}
      /\ planClaims' = <<>>
  BY <1>1, RangeEmpty
<1>10. \A v \in Range(planVolumes)' : VolumeFrom(v)'
  <2> SUFFICES ASSUME NEW v \in Range(planVolumes)' PROVE VolumeFrom(v)'
    OBVIOUS
  <2>1. PICK k \in DOMAIN input.volumes : v = Plan(input.volumes[k])
    BY <1>4 DEF Range
  <2>2. /\ ~v.dynamic /\ v.id = input.volumes[k].id
        /\ v.capacity = input.volumes[k].capacity
    BY <2>1
  <2>3. QED
    BY <1>1, <2>2 DEF VolumeFrom
<1>11. Origin' /\ NoLeakedVolume' /\ Fresh'
  BY <1>1, <1>9, <1>10 DEF Origin, NoLeakedVolume, Fresh
<1>12. VolumesDistinct'
  BY <1>3, <1>4 DEF VolumesDistinct, DistinctIds
<1>13. ExclusiveBinding' /\ BoundFits'
  BY <1>9 DEF ExclusiveBinding, BoundFits
<1>14. QED
  BY <1>1, <1>8, <1>11, <1>12, <1>13 DEF IInv, XInv

LEMMA MountTypes ==
  ASSUME IInv, NEW m, AtMount(m)
  PROVE  /\ m \in MountBody /\ pc = "mounts"
         /\ i \in DOMAIN input.mounts /\ m = input.mounts[i]
<1>1. /\ DOMAIN input.mounts = 1..Len(input.mounts) /\ Len(input.mounts) \in Nat
      /\ i \in Nat \ {0}
  BY InputTypes, LenProperties DEF IInv, TypeOK
<1>2. QED
  BY <1>1, InputTypes DEF AtMount, IInv, TypeOK

\* Nothing but the mounts and the diagnostics changes in the mounts loop.
LEMMA MountStepIInv ==
  ASSUME IInv, NEW m, SkipMount(m) \/ RefuseMount(m) \/ Mount(m)
  PROVE  /\ IInv'
         /\ UNCHANGED <<input, pc, planVolumes, claimed, planClaims>>
<1>1. AtMount(m) /\ UNCHANGED <<input, pc, planVolumes, claimed, planClaims>>
  BY DEF SkipMount, RefuseMount, Mount
<1>2. i' = i + 1
  BY DEF SkipMount, RefuseMount, Mount
<1>3. m \in MountBody /\ pc = "mounts" /\ i \in DOMAIN input.mounts
      /\ m = input.mounts[i]
  BY <1>1, MountTypes
<1>4. diags' \subseteq [code : Codes, of : Identity]
  <2>1. Diag("DSTOR010", m.id) \in [code : Codes, of : Identity]
    BY <1>3 DEF Diag, Codes, MountBody
  <2>2. QED
    BY <2>1 DEF SkipMount, RefuseMount, Mount, IInv, TypeOK
<1>5. /\ planMounts' \in Seq(MountPlan)
      /\ \A x \in Range(planMounts)' : MountFrom(x)
  <2>1. CASE planMounts' = planMounts
    BY <2>1 DEF IInv, TypeOK, Origin
  <2>2. CASE Mount(m)
    <3>1. PICK b \in ClaimPlans(m.claim) :
            planMounts' = Append(planMounts, [id |-> m.id, claim |-> m.claim,
                                              volume |-> b.volume])
      BY <2>2 DEF Mount
    <3>2. b \in ClaimPlan
      BY <3>1, LenProperties DEF ClaimPlans, IInv, TypeOK, Range
    <3>3. [id |-> m.id, claim |-> m.claim, volume |-> b.volume] \in MountPlan
      BY <1>3, <3>2 DEF MountPlan, MountBody, ClaimPlan
    <3>4. planMounts \in Seq(MountPlan)
      BY DEF IInv, TypeOK
    <3>5. PICK x \in MountPlan : /\ planMounts' = Append(planMounts, x)
                                 /\ x.id = m.id
      BY <3>1, <3>3
    <3>6. /\ planMounts' \in Seq(MountPlan)
          /\ Range(planMounts') = Range(planMounts) \cup {x}
      BY <3>4, <3>5, RangeAppend, AppendProperties
    <3>7. MountFrom(x)
      BY <1>3, <3>5 DEF MountFrom
    <3>8. QED
      BY <3>6, <3>7 DEF IInv, Origin
  <2>3. QED
    BY <2>1, <2>2 DEF SkipMount, RefuseMount
<1>6. TypeOK'
  BY <1>1, <1>2, <1>4, <1>5 DEF IInv, TypeOK, VolumeIds
<1>7. Origin'
  BY <1>1, <1>3, <1>5
  DEF IInv, Origin, VolumeFrom, ClaimFrom, MountFrom, Handled
<1>8. QED
  BY <1>1, <1>3, <1>6, <1>7 DEF IInv, Fresh, NoLeakedVolume

\* The final sorts permute the three slices.
LEMMA FinishFacts ==
  ASSUME IInv, Finish
  PROVE  /\ planVolumes' \in Seq(VolumePlan)
         /\ Range(planVolumes') = Range(planVolumes)
         /\ planClaims' \in Seq(ClaimPlan)
         /\ Range(planClaims') = Range(planClaims)
         /\ planMounts' \in Seq(MountPlan)
         /\ Range(planMounts') = Range(planMounts)
         /\ VolumesDistinct => VolumesDistinct'
         /\ ExclusiveBinding => ExclusiveBinding'
<1>1. WellFormed(input) /\ Origin
  BY DEF IInv, TypeOK
<1>2. /\ planVolumes \in Seq(VolumePlan) /\ planClaims \in Seq(ClaimPlan)
      /\ planMounts \in Seq(MountPlan)
  BY DEF IInv, TypeOK
<1>3. \A k \in DOMAIN planVolumes : Rank(planVolumes[k].id) \in Nat
  BY <1>1, InputTypes DEF Origin, VolumeFrom, Range
<1>4. \A k \in DOMAIN planClaims : Rank(planClaims[k].id) \in Nat
  BY <1>1, InputTypes DEF Origin, ClaimFrom, Range
<1>5. \A k \in DOMAIN planMounts : Rank(planMounts[k].id) \in Nat
  BY <1>1, InputTypes DEF Origin, MountFrom, Range
<1>6. /\ planVolumes' = StableSort(planVolumes)
      /\ planClaims' = StableSort(planClaims)
      /\ planMounts' = StableSort(planMounts)
  BY DEF Finish
<1>7. VolumesDistinct => VolumesDistinct'
  <2>1. PICK p \in [DOMAIN StableSort(planVolumes) -> DOMAIN planVolumes] :
          /\ \A n \in DOMAIN StableSort(planVolumes) :
               StableSort(planVolumes)[n] = planVolumes[p[n]]
          /\ \A m, n \in DOMAIN StableSort(planVolumes) : p[m] = p[n] => m = n
    BY <1>2, <1>3, StableSortPermutes
  <2>2. QED
    BY <1>6, <2>1 DEF VolumesDistinct
<1>8. ExclusiveBinding => ExclusiveBinding'
  <2>1. PICK p \in [DOMAIN StableSort(planClaims) -> DOMAIN planClaims] :
          /\ \A n \in DOMAIN StableSort(planClaims) :
               StableSort(planClaims)[n] = planClaims[p[n]]
          /\ \A m, n \in DOMAIN StableSort(planClaims) : p[m] = p[n] => m = n
    BY <1>2, <1>4, StableSortPermutes
  <2>2. QED
    BY <1>6, <2>1 DEF ExclusiveBinding
<1>9. /\ planVolumes' \in Seq(VolumePlan)
      /\ Range(planVolumes') = Range(planVolumes)
  BY <1>2, <1>3, <1>6, StableSortPermutes
<1>10. /\ planClaims' \in Seq(ClaimPlan)
       /\ Range(planClaims') = Range(planClaims)
  BY <1>2, <1>4, <1>6, StableSortPermutes
<1>11. /\ planMounts' \in Seq(MountPlan)
       /\ Range(planMounts') = Range(planMounts)
  BY <1>2, <1>5, <1>6, StableSortPermutes
<1>12. QED
  BY <1>7, <1>8, <1>9, <1>10, <1>11

LEMMA FinishIInv ==
  ASSUME IInv, Finish
  PROVE  IInv'
<1>1. /\ UNCHANGED <<input, i, claimed, diags>>
      /\ pc = "mounts" /\ pc' = "done"
  BY DEF Finish
<1>2. TypeOK'
  BY <1>1, FinishFacts DEF IInv, TypeOK, VolumeIds
<1>3. Origin'
  BY <1>1, FinishFacts
  DEF IInv, Origin, VolumeFrom, ClaimFrom, MountFrom, Handled
<1>4. NoLeakedVolume'
  BY <1>1, FinishFacts DEF IInv, NoLeakedVolume
<1>5. QED
  BY <1>1, <1>2, <1>3, <1>4 DEF IInv, Fresh

LEMMA ClaimsDoneIInv ==
  ASSUME IInv, ClaimsDone
  PROVE  IInv'
<1>1. /\ pc = "claims" /\ pc' = "mounts" /\ i' = 1
      /\ UNCHANGED <<input, planVolumes, claimed, planClaims, planMounts, diags>>
  BY DEF ClaimsDone
<1>2. TypeOK'
  BY <1>1 DEF IInv, TypeOK, VolumeIds
<1>3. Origin'
  BY <1>1 DEF IInv, Origin, VolumeFrom, ClaimFrom, MountFrom, Handled
<1>4. QED
  BY <1>1, <1>2, <1>3 DEF IInv, Fresh, NoLeakedVolume

LEMMA NextIInv == IInv /\ [Next]_vars => IInv'
<1> SUFFICES ASSUME IInv, [Next]_vars PROVE IInv'
  OBVIOUS
<1>1. CASE Declare
  BY <1>1, DeclareIInv
<1>2. ASSUME NEW c, RefuseClaim(c) \/ BindExplicit(c) \/ BindStatic(c)
                      \/ Provision(c)
      PROVE  IInv'
  BY <1>2, RefuseClaimIInv, BindExplicitIInv, BindStaticIInv, ProvisionIInv
<1>3. CASE ClaimsDone
  BY <1>3, ClaimsDoneIInv
<1>4. ASSUME NEW m, SkipMount(m) \/ RefuseMount(m) \/ Mount(m)
      PROVE  IInv'
  BY <1>4, MountStepIInv
<1>5. CASE Finish
  BY <1>5, FinishIInv
<1>6. CASE UNCHANGED vars
  <2>1. TypeOK'
    BY <1>6 DEF vars, IInv, TypeOK, VolumeIds
  <2>2. Origin'
    BY <1>6
    DEF vars, IInv, Origin, VolumeFrom, ClaimFrom, MountFrom, Handled
  <2>3. QED
    BY <1>6, <2>1, <2>2 DEF vars, IInv, Fresh, NoLeakedVolume
<1>7. QED
  BY <1>1, <1>2, <1>3, <1>4, <1>5, <1>6 DEF Next, ClaimStep, MountStep, Done

LEMMA Invariance == Spec => []IInv
<1>1. QED
  BY InitIInv, NextIInv, PTL DEF Spec

-----------------------------------------------------------------------------
(* What distinct dynamic volumes add. *)

\* A claim takes a volume that is free, is found in the plan and suits it.
LEMMA BindXInv ==
  ASSUME IInv, XInv, NEW c, AtClaim(c), NEW id \in Identity, Bind(c, id),
         planVolumes' \in Seq(VolumePlan),
         id \in VolumeIds', VolumeIds \subseteq VolumeIds',
         \A v \in Range(planVolumes)' : VolumeFrom(v)',
         id \notin claimed, VolumesDistinct',
         \A v \in Range(planVolumes)' :
           v \in Range(planVolumes) \/ v.id \notin VolumeIds,
         \A v \in Range(planVolumes)' : v.id = id =>
           /\ v.class = ClassOf(c)
           /\ capacityAtLeast(v.capacity, c.capacity)
           /\ modesInclude(v.modes, c.modes)
  PROVE  XInv'
<1>1. PICK b \in ClaimPlan :
        /\ b.volume = id /\ b.class = ClassOf(c)
        /\ b.capacity = c.capacity /\ b.modes = c.modes
        /\ planClaims' = Append(planClaims, b)
  BY BindIInv
<1>2. planClaims \in Seq(ClaimPlan)
  BY DEF IInv, TypeOK
<1>3. Range(planClaims)' = Range(planClaims) \cup {b}
  BY <1>1, <1>2, RangeAppend
<1>4. \A x \in Range(planClaims) : x.volume # id
  BY DEF IInv, NoLeakedVolume
<1>5. ExclusiveBinding'
  <2>1. /\ DOMAIN planClaims = 1..Len(planClaims) /\ Len(planClaims) \in Nat
        /\ DOMAIN planClaims' = 1..(Len(planClaims) + 1)
        /\ \A k \in 1..Len(planClaims) : planClaims'[k] = planClaims[k]
        /\ planClaims'[Len(planClaims) + 1] = b
    BY <1>1, <1>2, AppendProperties, LenProperties
  <2>2. \A k \in 1..Len(planClaims) : planClaims'[k].volume # id
    BY <1>4, <2>1 DEF Range
  <2>3. \A j, k \in 1..Len(planClaims) :
          planClaims'[j].volume = planClaims'[k].volume => j = k
    BY <2>1 DEF XInv, ExclusiveBinding
  <2>4. QED
    BY <1>1, <2>1, <2>2, <2>3 DEF ExclusiveBinding
<1>6. BoundFits'
  <2> SUFFICES ASSUME NEW x \in Range(planClaims)'
               PROVE  /\ x.volume \in VolumeIds'
                      /\ \A v \in Range(planVolumes)' : v.id = x.volume =>
                           /\ v.class = x.class
                           /\ capacityAtLeast(v.capacity, x.capacity)
                           /\ modesInclude(v.modes, x.modes)
    BY DEF BoundFits
  <2>1. CASE x = b
    BY <1>1, <2>1
  <2>2. CASE x \in Range(planClaims)
    <3>1. x.volume \in VolumeIds
      BY <2>2 DEF XInv, BoundFits
    <3>2. \A v \in Range(planVolumes)' :
            v.id = x.volume => v \in Range(planVolumes)
      BY <3>1
    <3>3. QED
      BY <2>2, <3>1, <3>2 DEF XInv, BoundFits
  <2>3. QED
    BY <1>3, <2>1, <2>2
<1>7. QED
  BY <1>5, <1>6 DEF XInv

LEMMA BindExplicitXInv ==
  ASSUME IInv, XInv, NEW c, BindExplicit(c)
  PROVE  XInv'
<1>1. /\ AtClaim(c) /\ Refusal(c) = "none" /\ c.volumeRef # NoRef
      /\ Bind(c, c.volumeRef) /\ planVolumes' = planVolumes
  BY DEF BindExplicit
<1>2. c \in ClaimBody /\ pc = "claims" /\ TypeOK /\ VolumesDistinct
  BY <1>1, AtClaimFacts DEF IInv, XInv
<1>3. c.volumeRef \in Identity
  BY <1>2 DEF ClaimBody
<1>4. /\ c.volumeRef \in VolumeIds /\ c.volumeRef \notin claimed
      /\ \A v \in Range(planVolumes) : v.id = c.volumeRef => Suits(v, c)
  BY <1>1, <1>2, ExplicitChecks
<1>5. VolumeIds' = VolumeIds /\ VolumesDistinct'
  BY <1>1, <1>2 DEF VolumeIds, VolumesDistinct
<1>6. \A v \in Range(planVolumes)' : VolumeFrom(v)'
  BY <1>1, <1>2, OriginLater DEF IInv, Origin, Bind
<1>7. planVolumes' \in Seq(VolumePlan)
  BY <1>1, <1>2 DEF TypeOK
<1>8. QED
  BY <1>1, <1>3, <1>4, <1>5, <1>6, <1>7, BindXInv DEF Suits

LEMMA BindStaticXInv ==
  ASSUME IInv, XInv, NEW c, BindStatic(c)
  PROVE  XInv'
<1>1. PICK k \in Candidates(c) : Bind(c, planVolumes[k].id)
  BY DEF BindStatic
<1>2. AtClaim(c) /\ planVolumes' = planVolumes /\ pc = "claims"
  BY DEF BindStatic, AtClaim
<1>3. /\ k \in DOMAIN planVolumes /\ planVolumes \in Seq(VolumePlan)
      /\ planVolumes[k].id \notin claimed /\ Suits(planVolumes[k], c)
  BY <1>1 DEF Candidates, IInv, TypeOK
<1>4. planVolumes[k] \in VolumePlan
  BY <1>3, LenProperties
<1>5. planVolumes[k].id \in Identity
  BY <1>4 DEF VolumePlan
<1>6. \A v \in Range(planVolumes) : v.id = planVolumes[k].id => Suits(v, c)
  BY <1>3 DEF Range, XInv, VolumesDistinct
<1>7. /\ VolumeIds' = VolumeIds /\ VolumesDistinct'
      /\ planVolumes[k].id \in VolumeIds
  BY <1>2, <1>3 DEF VolumeIds, VolumesDistinct, XInv, Range
<1>8. \A v \in Range(planVolumes)' : VolumeFrom(v)'
  BY <1>1, <1>2, OriginLater DEF IInv, Origin, Bind
<1>9. planVolumes' \in Seq(VolumePlan)
  BY <1>2, <1>3
<1>10. QED
  BY <1>1, <1>2, <1>3, <1>5, <1>6, <1>7, <1>8, <1>9, BindXInv DEF Suits

\* The identity of the dynamic volume of the claim at hand is not in the plan.
LEMMA DynamicIdFresh ==
  ASSUME IInv, DistinctDynamicIds(input), NEW c, AtClaim(c)
  PROVE  DynamicId(c) \notin VolumeIds
<1>1. /\ i \in DOMAIN input.claims /\ c = input.claims[i] /\ pc = "claims"
      /\ i \in Nat
  BY AtClaimFacts DEF IInv, TypeOK
<1>2. \A k \in DOMAIN input.claims : k \in Nat
  BY InputTypes, LenProperties DEF IInv, TypeOK
<1>3. ASSUME NEW v \in Range(planVolumes), v.id = DynamicId(c)
      PROVE  FALSE
  <2>1. VolumeFrom(v)
    BY DEF IInv, Origin
  <2>2. QED
    BY <1>1, <1>2, <1>3, <2>1 DEF VolumeFrom, Handled, DistinctDynamicIds
<1>4. QED
  BY <1>3 DEF VolumeIds

LEMMA ProvisionXInv ==
  ASSUME IInv, XInv, DistinctDynamicIds(input), NEW c, Provision(c)
  PROVE  XInv'
<1>1. /\ AtClaim(c) /\ Bind(c, DynamicId(c)) /\ DynamicId(c) \in Identity
      /\ planVolumes' = Append(planVolumes, NewVolume(c))
      /\ planVolumes' \in Seq(VolumePlan)
      /\ Range(planVolumes') = Range(planVolumes) \cup {NewVolume(c)}
      /\ NewVolume(c).id = DynamicId(c)
  BY ProvisionFacts
<1>2. DynamicId(c) \notin VolumeIds
  BY <1>1, DynamicIdFresh
<1>3. DynamicId(c) \notin claimed
  BY <1>2 DEF IInv, TypeOK
<1>4. IInv'
  BY ProvisionIInv
<1>5. \A v \in Range(planVolumes)' : VolumeFrom(v)'
  BY <1>4 DEF IInv, Origin
<1>6. DynamicId(c) \in VolumeIds' /\ VolumeIds \subseteq VolumeIds'
  BY <1>1 DEF VolumeIds
<1>7. c \in ClaimBody
  BY <1>1, AtClaimFacts
<1>8. c.capacity \in Quantity
  BY <1>7 DEF ClaimBody
<1>9. /\ NewVolume(c).class = ClassOf(c)
      /\ capacityAtLeast(NewVolume(c).capacity, c.capacity)
      /\ modesInclude(NewVolume(c).modes, c.modes)
  BY <1>8, QuantityInt DEF NewVolume, modesInclude
<1>10. \A v \in Range(planVolumes) : v.id # DynamicId(c)
  BY <1>2 DEF VolumeIds
<1>11. VolumesDistinct'
  <2>1. planVolumes \in Seq(VolumePlan)
    BY DEF IInv, TypeOK
  <2>2. PICK w : w = NewVolume(c) /\ w.id = DynamicId(c)
    BY <1>1
  <2>3. planVolumes' = Append(planVolumes, w) /\ w \in Range(planVolumes')
    BY <1>1, <2>2
  <2>4. w \in VolumePlan
    BY <1>1, <2>3, LenProperties DEF Range
  <2>5. /\ DOMAIN planVolumes = 1..Len(planVolumes) /\ Len(planVolumes) \in Nat
        /\ DOMAIN planVolumes' = 1..(Len(planVolumes) + 1)
        /\ \A k \in 1..Len(planVolumes) : planVolumes'[k] = planVolumes[k]
        /\ planVolumes'[Len(planVolumes) + 1] = w
    BY <2>1, <2>3, <2>4, AppendProperties, LenProperties
  <2>6. \A k \in 1..Len(planVolumes) : planVolumes'[k].id # w.id
    BY <1>10, <2>2, <2>5 DEF Range
  <2>7. \A j, k \in 1..Len(planVolumes) :
          planVolumes'[j].id = planVolumes'[k].id => j = k
    BY <2>5 DEF XInv, VolumesDistinct
  <2>8. QED
    BY <2>5, <2>6, <2>7 DEF VolumesDistinct
<1>12. \A v \in Range(planVolumes)' :
         v \in Range(planVolumes) \/ v.id \notin VolumeIds
  BY <1>1, <1>2
<1>13. \A v \in Range(planVolumes)' : v.id = DynamicId(c) =>
         /\ v.class = ClassOf(c)
         /\ capacityAtLeast(v.capacity, c.capacity)
         /\ modesInclude(v.modes, c.modes)
  BY <1>1, <1>9, <1>10
<1>14. QED
  BY <1>1, <1>3, <1>5, <1>6, <1>11, <1>12, <1>13, BindXInv

LEMMA NextXInv ==
  ASSUME IInv, XInv, DistinctDynamicIds(input), [Next]_vars
  PROVE  XInv'
<1>1. CASE Declare
  BY <1>1, DeclareIInv
<1>2. ASSUME NEW c, RefuseClaim(c)
      PROVE  XInv'
  BY <1>2 DEF RefuseClaim, XInv, VolumesDistinct, ExclusiveBinding, BoundFits,
              VolumeIds
<1>3. ASSUME NEW c, BindExplicit(c) \/ BindStatic(c) \/ Provision(c)
      PROVE  XInv'
  BY <1>3, BindExplicitXInv, BindStaticXInv, ProvisionXInv
<1>4. CASE ClaimsDone
  BY <1>4 DEF ClaimsDone, XInv, VolumesDistinct, ExclusiveBinding, BoundFits,
              VolumeIds
<1>5. ASSUME NEW m, SkipMount(m) \/ RefuseMount(m) \/ Mount(m)
      PROVE  XInv'
  BY <1>5, MountStepIInv DEF XInv, VolumesDistinct, ExclusiveBinding,
                             BoundFits, VolumeIds
<1>6. CASE Finish
  <2>1. VolumesDistinct' /\ ExclusiveBinding'
    BY <1>6, FinishFacts DEF XInv
  <2>2. BoundFits'
    BY <1>6, FinishFacts DEF XInv, BoundFits, VolumeIds
  <2>3. QED
    BY <2>1, <2>2 DEF XInv
<1>7. CASE UNCHANGED vars
  BY <1>7 DEF vars, XInv, VolumesDistinct, ExclusiveBinding, BoundFits,
              VolumeIds
<1>8. QED
  BY <1>1, <1>2, <1>3, <1>4, <1>5, <1>6, <1>7
  DEF Next, ClaimStep, MountStep, Done

LEMMA InitXInv == Init => XInv
<1>1. Init => planClaims = <<>> /\ planVolumes = <<>>
  BY DEF Init
<1>2. QED
  BY <1>1, RangeEmpty DEF XInv, VolumesDistinct, ExclusiveBinding, BoundFits

LEMMA XInvariance == ASSUME NoCollision PROVE Spec => []XInv
<1>1. IInv => DistinctDynamicIds(input)
  BY NoCollision DEF IInv, NoCollision
<1>2. IInv /\ XInv /\ [Next]_vars => XInv'
  BY <1>1, NextXInv
<1>3. QED
  BY <1>2, InitXInv, Invariance, PTL DEF Spec

-----------------------------------------------------------------------------
(* What the planner answers to the claims. *)

\* The claims the loop is over with, and the answers they may have.
Over(k) == pc # "declare" /\ Handled(k)
Planned(k) == ClaimPlans(input.claims[k].id) # {}
Refused(k) == \E d \in diags : d.of = input.claims[k].id

\* One answer to each claim that is over, none to the others.
OneAnswer ==
  \A k \in DOMAIN input.claims :
    /\ Over(k) => (Planned(k) <=> ~Refused(k))
    /\ ~Over(k) => ~Planned(k) /\ ~Refused(k)

\* A claim that names a volume is planned with no other.
RefKept ==
  \A c \in Range(input.claims) : c.volumeRef # NoRef =>
    \A b \in ClaimPlans(c.id) : b.volume = c.volumeRef

\* A dynamic volume is planned for a claim, so nobody finds it free.
DynamicClaimed == \A v \in Range(planVolumes) : v.dynamic => v.id \in claimed

AInv ==
  OneAnswer /\ TakenByAnother /\ RefKept /\ DynamicClaimed /\ MountsFollowClaims

\* What follows for every claim with distinct dynamic volumes only.
DeclaredKept ==
  \A c \in Range(input.claims) : c.volumeRef # NoRef =>
    \A b \in ClaimPlans(c.id), v \in Range(planVolumes) :
      v.id = b.volume => ~v.dynamic

YInv == DeclaredKept /\ NoNeedlessVolume

\* The volumes map has, for an identity of the plan, a volume of that identity.
LEMMA VolumeOfId ==
  ASSUME TypeOK, NEW id, Named(id) # {}
  PROVE  /\ VolumeOf(id).id = id
         /\ VolumeOf(id) \in Range(planVolumes)
<1> DEFINE N == Named(id)
           U == {n \in Nat : \A j \in N : j <= n}
<1>1. /\ DOMAIN planVolumes = 1..Len(planVolumes) /\ Len(planVolumes) \in Nat
      /\ N \subseteq DOMAIN planVolumes /\ N # {}
  BY LenProperties DEF TypeOK, Named
<1>2. Len(planVolumes) \in U
  BY <1>1
<1>3. PICK n \in U : \A m \in U : n <= m
  <2>1. U # {} /\ U \subseteq Nat
    BY <1>2
  <2> HIDE DEF U
  <2>2. QED
    BY <2>1, LeastNat
<1>4. n \in N
  <2> SUFFICES ASSUME n \notin N PROVE FALSE
    OBVIOUS
  <2>1. \A j \in N : j \in Nat \ {0} /\ j < n
    BY <1>1, <1>3
  <2>2. n - 1 \in Nat /\ \A j \in N : j <= n - 1
    BY <1>1, <1>3, <2>1
  <2>3. n - 1 \in U
    BY <2>2
  <2>4. n <= n - 1 /\ n \in Nat
    BY <1>3, <2>3
  <2>5. QED
    BY <2>4
<1>5. \E k \in N : \A j \in N : j <= k
  BY <1>3, <1>4
<1> DEFINE top == CHOOSE k \in N : \A j \in N : j <= k
<1>6. top \in N
  BY <1>5
<1>7. VolumeOf(id) = planVolumes[top]
  BY DEF VolumeOf
<1> HIDE DEF top
<1>8. QED
  BY <1>1, <1>6, <1>7 DEF Named, Range

\* An iteration of the claims loop is over with its claim and no other.
LEMMA OverStep ==
  ASSUME IInv, NEW c, AtClaim(c), input' = input, pc' = pc, i' = i + 1
  PROVE  \E n \in DOMAIN input.claims :
           /\ c = input.claims[n] /\ ~Over(n) /\ Over(n)'
           /\ \A k \in DOMAIN input.claims : k # n =>
                /\ input.claims[k].id # c.id
                /\ Over(k)' <=> Over(k)
<1>1. /\ i \in DOMAIN input.claims /\ c = input.claims[i] /\ pc = "claims"
      /\ i \in Nat
  BY AtClaimFacts DEF IInv, TypeOK
<1>2. /\ DistinctIds(input.claims)
      /\ \A k \in DOMAIN input.claims : k \in Nat
  BY InputTypes, LenProperties DEF IInv, TypeOK
<1>3. \A n \in DOMAIN input.claims : n = i => ~Over(n) /\ Over(n)'
  BY <1>1 DEF Over, Handled
<1>4. ASSUME NEW k \in DOMAIN input.claims, k # i
      PROVE  input.claims[k].id # c.id /\ (Over(k)' <=> Over(k))
  <2>1. input.claims[k].id # c.id
    BY <1>1, <1>2, <1>4 DEF DistinctIds
  <2>2. k < i + 1 <=> k < i
    BY <1>1, <1>2, <1>4
  <2>3. QED
    BY <1>1, <2>1, <2>2 DEF Over, Handled
<1>5. QED
  BY <1>1, <1>3, <1>4

\* The claims of the input have identities of their own.
LEMMA SameClaim ==
  ASSUME WellFormed(input),
         NEW c \in Range(input.claims), NEW d \in Range(input.claims),
         c.id = d.id
  PROVE  c = d
BY InputTypes DEF DistinctIds, Range

LEMMA RefuseClaimAInv ==
  ASSUME IInv, AInv, NEW c, RefuseClaim(c)
  PROVE  AInv'
<1>1. /\ AtClaim(c) /\ Refusal(c) # "none"
      /\ diags' = diags \cup {Diag(Refusal(c), c.id)} /\ i' = i + 1
      /\ UNCHANGED <<input, pc, planVolumes, claimed, planClaims, planMounts>>
  BY DEF RefuseClaim
<1>2. PICK n \in DOMAIN input.claims :
        /\ c = input.claims[n] /\ ~Over(n) /\ Over(n)'
        /\ \A k \in DOMAIN input.claims : k # n =>
             input.claims[k].id # c.id /\ (Over(k)' <=> Over(k))
  BY <1>1, OverStep
<1>3. PICK d : d.of = c.id /\ d.code = Refusal(c) /\ diags' = diags \cup {d}
  BY <1>1 DEF Diag
<1>4. \A k \in DOMAIN input.claims : Planned(k)' <=> Planned(k)
  BY <1>1 DEF Planned, ClaimPlans
<1>5. OneAnswer'
  <2>1. Refused(n)' /\ ~Planned(n)
    BY <1>1, <1>2, <1>3 DEF Refused, AInv, OneAnswer
  <2>2. \A k \in DOMAIN input.claims : k # n => (Refused(k)' <=> Refused(k))
    BY <1>1, <1>2, <1>3 DEF Refused
  <2>3. QED
    BY <1>1, <1>2, <1>4, <2>1, <2>2 DEF AInv, OneAnswer
<1>6. TakenByAnother'
  <2> SUFFICES ASSUME Refusal(c) = "DSTOR014"
               PROVE  \A x \in Range(input.claims) : x.id = c.id =>
                        \E b \in Range(planClaims) :
                          b.id # x.id /\ b.volume = x.volumeRef
    BY <1>1, <1>3 DEF AInv, TakenByAnother
  <2>1. WellFormed(input) /\ c \in Range(input.claims)
    BY <1>2 DEF IInv, TypeOK, Range
  <2>2. Named(c.volumeRef) # {} /\ VolumeOf(c.volumeRef).id \in claimed
    BY DEF Refusal
  <2>3. c.volumeRef \in claimed
    BY <2>2, VolumeOfId DEF IInv
  <2>4. PICK b \in Range(planClaims) : b.volume = c.volumeRef
    BY <2>3 DEF IInv, NoLeakedVolume
  <2>5. b.id # c.id
    BY <1>2, <2>4 DEF AInv, OneAnswer, Planned, ClaimPlans
  <2>6. QED
    BY <2>1, <2>4, <2>5, SameClaim
<1>7. RefKept' /\ DynamicClaimed' /\ MountsFollowClaims'
  BY <1>1 DEF AInv, RefKept, DynamicClaimed, MountsFollowClaims, ClaimPlans
<1>8. QED
  BY <1>5, <1>6, <1>7 DEF AInv

\* A claim is bound: to the volume it names, if it names one, and a dynamic
\* volume that is new in the plan is the one it gets.
LEMMA BindAInv ==
  ASSUME IInv, AInv, NEW c, AtClaim(c), NEW id, Bind(c, id), IInv',
         c.volumeRef # NoRef => id = c.volumeRef,
         \A v \in Range(planVolumes)' : v \in Range(planVolumes) \/ v.id = id
  PROVE  /\ AInv'
         /\ \E b : /\ b.id = c.id /\ b.volume = id /\ b.class = ClassOf(c)
                   /\ b.capacity = c.capacity /\ b.modes = c.modes
                   /\ Range(planClaims)' = Range(planClaims) \cup {b}
         /\ claimed' = claimed \cup {id} /\ input' = input
<1>1. /\ claimed' = claimed \cup {id} /\ i' = i + 1
      /\ UNCHANGED <<input, pc, planMounts, diags>>
  BY DEF Bind
<1>2. PICK b : /\ b.id = c.id /\ b.volume = id /\ b.class = ClassOf(c)
               /\ b.capacity = c.capacity /\ b.modes = c.modes
               /\ planClaims' = Append(planClaims, b)
  BY DEF Bind
<1>3. Range(planClaims)' = Range(planClaims) \cup {b}
  <2>1. /\ planClaims \in Seq(ClaimPlan) /\ planClaims' \in Seq(ClaimPlan)
        /\ Len(planClaims) \in Nat
    BY LenProperties DEF IInv, TypeOK
  <2>2. /\ Len(Append(planClaims, b)) = Len(planClaims) + 1
        /\ Append(planClaims, b)[Len(planClaims) + 1] = b
    BY <2>1
  <2>3. b \in ClaimPlan
    BY <1>2, <2>1, <2>2, LenProperties
  <2>4. QED
    BY <1>2, <2>1, <2>3, RangeAppend
<1>4. PICK n \in DOMAIN input.claims :
        /\ c = input.claims[n] /\ ~Over(n) /\ Over(n)'
        /\ \A k \in DOMAIN input.claims : k # n =>
             input.claims[k].id # c.id /\ (Over(k)' <=> Over(k))
  BY <1>1, OverStep
<1>5. OneAnswer'
  <2>1. Planned(n)' /\ ~Refused(n)
    BY <1>1, <1>2, <1>3, <1>4 DEF Planned, ClaimPlans, AInv, OneAnswer
  <2>2. \A k \in DOMAIN input.claims : Refused(k)' <=> Refused(k)
    BY <1>1 DEF Refused
  <2>3. \A k \in DOMAIN input.claims : k # n => (Planned(k)' <=> Planned(k))
    BY <1>1, <1>2, <1>3, <1>4 DEF Planned, ClaimPlans
  <2>4. QED
    BY <1>1, <1>4, <2>1, <2>2, <2>3 DEF AInv, OneAnswer
<1>6. TakenByAnother'
  BY <1>1, <1>3 DEF AInv, TakenByAnother
<1>7. RefKept'
  <2> SUFFICES ASSUME NEW x \in Range(input.claims), x.volumeRef # NoRef,
                      NEW y \in Range(planClaims)', y.id = x.id
               PROVE  y.volume = x.volumeRef
    BY <1>1 DEF RefKept, ClaimPlans
  <2>1. CASE y \in Range(planClaims)
    BY <2>1 DEF AInv, RefKept, ClaimPlans
  <2>2. CASE y = b
    <3>1. x = c
      BY <1>2, <1>4, <2>2, SameClaim DEF IInv, TypeOK, Range
    <3>2. QED
      BY <1>2, <2>2, <3>1
  <2>3. QED
    BY <1>3, <2>1, <2>2
<1>8. DynamicClaimed' /\ MountsFollowClaims'
  BY <1>1, <1>3 DEF AInv, DynamicClaimed, MountsFollowClaims
<1>9. QED
  BY <1>1, <1>2, <1>3, <1>5, <1>6, <1>7, <1>8 DEF AInv

LEMMA BindExplicitAInv ==
  ASSUME IInv, AInv, NEW c, BindExplicit(c)
  PROVE  AInv' /\ (XInv /\ YInv => YInv')
<1>1. /\ AtClaim(c) /\ Refusal(c) = "none" /\ c.volumeRef # NoRef
      /\ Bind(c, c.volumeRef) /\ planVolumes' = planVolumes /\ IInv'
  BY BindExplicitIInv DEF BindExplicit
<1>2. AInv'
  BY <1>1, BindAInv
<1>3. PICK b : /\ b.id = c.id /\ b.volume = c.volumeRef
               /\ Range(planClaims)' = Range(planClaims) \cup {b}
  BY <1>1, BindAInv
<1>4. claimed' = claimed \cup {c.volumeRef} /\ input' = input
  BY <1>1, BindAInv
<1>5. ASSUME XInv, YInv PROVE YInv'
  <2>1. c.volumeRef \notin claimed
    BY <1>1, <1>5, ExplicitChecks DEF IInv, XInv
  <2>2. \A v \in Range(planVolumes) : v.id = c.volumeRef => ~v.dynamic
    BY <2>1 DEF AInv, DynamicClaimed
  <2>3. DeclaredKept'
    BY <1>1, <1>3, <1>4, <1>5, <2>2 DEF YInv, DeclaredKept, ClaimPlans
  <2>4. NoNeedlessVolume'
    BY <1>1, <1>3, <1>4, <1>5, <2>2 DEF YInv, NoNeedlessVolume
  <2>5. QED
    BY <2>3, <2>4 DEF YInv
<1>6. QED
  BY <1>2, <1>5

LEMMA BindStaticAInv ==
  ASSUME IInv, AInv, NEW c, BindStatic(c)
  PROVE  AInv' /\ (XInv /\ YInv => YInv')
<1>1. PICK k \in Candidates(c) : Bind(c, planVolumes[k].id)
  BY DEF BindStatic
<1>2. /\ AtClaim(c) /\ c.volumeRef = NoRef /\ planVolumes' = planVolumes
      /\ IInv'
  BY BindStaticIInv DEF BindStatic
<1> DEFINE id == planVolumes[k].id
<1>3. id \notin claimed
  BY DEF Candidates
<1> HIDE DEF id
<1>4. Bind(c, id)
  BY <1>1 DEF id
<1>5. AInv'
  BY <1>2, <1>4, BindAInv
<1>6. PICK b : /\ b.id = c.id /\ b.volume = id
               /\ Range(planClaims)' = Range(planClaims) \cup {b}
  BY <1>2, <1>4, BindAInv
<1>7. claimed' = claimed \cup {id} /\ input' = input
  BY <1>2, <1>4, BindAInv
<1>8. ASSUME XInv, YInv PROVE YInv'
  <2>1. \A v \in Range(planVolumes) : v.id = id => ~v.dynamic
    BY <1>3 DEF AInv, DynamicClaimed
  <2>2. DeclaredKept'
    BY <1>2, <1>6, <1>7, <1>8, <2>1 DEF YInv, DeclaredKept, ClaimPlans
  <2>3. NoNeedlessVolume'
    BY <1>2, <1>6, <1>7, <1>8, <2>1 DEF YInv, NoNeedlessVolume
  <2>4. QED
    BY <2>2, <2>3 DEF YInv
<1>9. QED
  BY <1>5, <1>8

LEMMA ProvisionAInv ==
  ASSUME IInv, AInv, NEW c, Provision(c)
  PROVE  AInv' /\ (XInv /\ YInv /\ DistinctDynamicIds(input) => YInv')
<1>1. PICK w : w = NewVolume(c)
  OBVIOUS
<1>2. /\ AtClaim(c) /\ Bind(c, DynamicId(c)) /\ IInv'
      /\ Range(planVolumes)' = Range(planVolumes) \cup {w}
      /\ w.id = DynamicId(c)
  BY <1>1, ProvisionFacts, ProvisionIInv
<1>3. c.volumeRef = NoRef /\ Candidates(c) = {} /\ w.dynamic
  BY <1>1 DEF Provision, NewVolume
<1>4. AInv'
  BY <1>2, <1>3, BindAInv
<1>5. PICK b : /\ b.id = c.id /\ b.volume = DynamicId(c) /\ b.class = ClassOf(c)
               /\ b.capacity = c.capacity /\ b.modes = c.modes
               /\ Range(planClaims)' = Range(planClaims) \cup {b}
  BY <1>2, <1>3, BindAInv
<1>6. claimed' = claimed \cup {DynamicId(c)} /\ input' = input
  BY <1>2, <1>3, BindAInv
<1>7. ASSUME XInv, YInv, DistinctDynamicIds(input) PROVE YInv'
  <2>1. DynamicId(c) \notin VolumeIds
    BY <1>2, <1>7, DynamicIdFresh
  <2>2. \A x \in Range(planClaims) : x.volume # w.id
    BY <1>2, <1>7, <2>1 DEF XInv, BoundFits
  <2>3. \A x \in Range(input.claims) : x.volumeRef # NoRef => x.id # c.id
    <3>1. c \in Range(input.claims) /\ WellFormed(input)
      BY <1>2, AtClaimFacts DEF IInv, TypeOK, Range
    <3>2. QED
      BY <1>3, <3>1, SameClaim
  <2>4. DeclaredKept'
    BY <1>2, <1>5, <1>6, <1>7, <2>2, <2>3 DEF YInv, DeclaredKept, ClaimPlans
  <2>5. \A v \in Range(planVolumes) : Suits(v, c) => v.id \in claimed
    BY <1>3 DEF Candidates, Range
  <2>6. NoNeedlessVolume'
    <3> SUFFICES ASSUME NEW x \in Range(planClaims)',
                        NEW u \in Range(planVolumes)',
                        NEW v \in Range(planVolumes)',
                        u.id = x.volume, u.dynamic, ~v.dynamic,
                        v.class = x.class,
                        capacityAtLeast(v.capacity, x.capacity),
                        modesInclude(v.modes, x.modes)
                 PROVE  v.id \in claimed'
      BY DEF NoNeedlessVolume
    <3>1. v \in Range(planVolumes)
      BY <1>2, <1>3
    <3>2. CASE x = b
      BY <1>5, <1>6, <2>5, <3>1, <3>2 DEF Suits
    <3>3. CASE x \in Range(planClaims)
      BY <1>2, <1>6, <1>7, <2>2, <3>1, <3>3 DEF YInv, NoNeedlessVolume
    <3>4. QED
      BY <1>5, <3>2, <3>3
  <2>7. QED
    BY <2>4, <2>6 DEF YInv
<1>8. QED
  BY <1>4, <1>7

\* The first loop gives no answer to a claim.
LEMMA DeclareAInv ==
  ASSUME IInv, Declare
  PROVE  AInv' /\ YInv'
<1>1. /\ WellFormed(input) /\ pc' = "claims" /\ i' = 1 /\ input' = input
      /\ Range(planClaims)' = {} /\ Range(planMounts)' = {}
  BY RangeEmpty DEF Declare, IInv, TypeOK, Fresh
<1>2. \A v \in Range(planVolumes)' : ~v.dynamic
  BY DEF Declare, Range
<1>3. \A d \in diags' : /\ d.of.kind # "PersistentVolumeClaim"
                        /\ d.code # "DSTOR014"
  <2>1. \A v \in Range(input.volumes) : v.id.kind = "PersistentVolume"
    BY <1>1 DEF WellFormed, Range
  <2>2. \A k \in DOMAIN input.classes : k.kind = "StorageClass"
    BY <1>1 DEF WellFormed
  <2>3. NoRef.kind = ""
    BY DEF NoRef
  <2>4. \A d \in diags' :
          \/ \E k \in DOMAIN input.classes : d = Diag("DSTOR007", k)
          \/ \E v \in Range(input.volumes) : d = Diag("DSTOR009", v.id)
          \/ d = Diag("DSTOR005", NoRef)
    BY DEF Declare
  <2>5. QED
    <3>1. \A id : \A code \in {"DSTOR005", "DSTOR007", "DSTOR009"} :
            Diag(code, id).of = id /\ Diag(code, id).code # "DSTOR014"
      BY DEF Diag
    <3>2. \A id : id.kind # "PersistentVolumeClaim" =>
            \A code \in {"DSTOR005", "DSTOR007", "DSTOR009"} :
              /\ Diag(code, id).of.kind # "PersistentVolumeClaim"
              /\ Diag(code, id).code # "DSTOR014"
      BY <3>1
    <3>3. QED
      BY <2>1, <2>2, <2>3, <2>4, <3>2
<1>4. OneAnswer'
  <2> SUFFICES ASSUME NEW k \in DOMAIN input.claims
               PROVE  ~Over(k)' /\ ~Planned(k)' /\ ~Refused(k)'
    BY <1>1 DEF OneAnswer
  <2>1. k \in Nat \ {0} /\ input.claims[k].id.kind = "PersistentVolumeClaim"
    BY <1>1, InputTypes, LenProperties DEF WellFormed
  <2>2. QED
    BY <1>1, <1>3, <2>1 DEF Over, Handled, Planned, Refused, ClaimPlans
<1>5. TakenByAnother'
  BY <1>3 DEF TakenByAnother
<1>6. QED
  BY <1>1, <1>2, <1>4, <1>5
  DEF AInv, YInv, RefKept, DynamicClaimed, MountsFollowClaims, ClaimPlans,
      DeclaredKept, NoNeedlessVolume

\* The mounts loop gives no answer to a claim.
LEMMA MountAInv ==
  ASSUME IInv, AInv, NEW m, SkipMount(m) \/ RefuseMount(m) \/ Mount(m)
  PROVE  AInv' /\ (YInv => YInv')
<1>1. /\ UNCHANGED <<input, pc, planVolumes, claimed, planClaims>>
      /\ pc = "mounts" /\ AtMount(m)
  BY MountStepIInv DEF SkipMount, RefuseMount, Mount, AtMount
<1>2. \A k \in DOMAIN input.claims :
        /\ Over(k) /\ Over(k)'
        /\ Planned(k)' <=> Planned(k)
  BY <1>1 DEF Over, Handled, Planned, ClaimPlans
<1>3. \A d \in diags' : \/ d \in diags
                        \/ /\ d.of.kind = "VolumeMountBinding"
                           /\ d.code = "DSTOR010"
  <2>1. m.id.kind = "VolumeMountBinding"
    BY <1>1, MountTypes DEF IInv, TypeOK, WellFormed
  <2>2. QED
    BY <2>1 DEF SkipMount, RefuseMount, Mount, Diag
<1>4. diags \subseteq diags'
  BY DEF SkipMount, RefuseMount, Mount
<1>5. OneAnswer'
  <2> SUFFICES ASSUME NEW k \in DOMAIN input.claims
               PROVE  Refused(k)' <=> Refused(k)
    BY <1>1, <1>2 DEF AInv, OneAnswer
  <2>1. input.claims[k].id.kind = "PersistentVolumeClaim"
    BY DEF IInv, TypeOK, WellFormed
  <2>2. QED
    BY <1>1, <1>3, <1>4, <2>1 DEF Refused
<1>6. TakenByAnother'
  BY <1>1, <1>3 DEF AInv, TakenByAnother
<1>7. MountsFollowClaims'
  <2>1. CASE planMounts' = planMounts
    BY <1>1, <2>1 DEF AInv, MountsFollowClaims
  <2>2. CASE Mount(m)
    <3>1. PICK b \in ClaimPlans(m.claim) :
            planMounts' = Append(planMounts, [id |-> m.id, claim |-> m.claim,
                                              volume |-> b.volume])
      BY <2>2 DEF Mount
    <3>2. PICK x : /\ planMounts' = Append(planMounts, x)
                   /\ x.claim = m.claim /\ x.volume = b.volume
      BY <3>1
    <3>3. /\ planMounts \in Seq(MountPlan) /\ planMounts' \in Seq(MountPlan)
          /\ Len(planMounts) \in Nat
      BY MountStepIInv, LenProperties DEF IInv, TypeOK
    <3>4. /\ Len(Append(planMounts, x)) = Len(planMounts) + 1
          /\ Append(planMounts, x)[Len(planMounts) + 1] = x
      BY <3>3
    <3>5. x \in MountPlan
      BY <3>2, <3>3, <3>4, LenProperties
    <3>6. Range(planMounts)' = Range(planMounts) \cup {x}
      BY <3>2, <3>3, <3>5, RangeAppend
    <3>7. b \in Range(planClaims) /\ b.id = m.claim
      BY DEF ClaimPlans
    <3>8. QED
      BY <1>1, <3>2, <3>6, <3>7 DEF AInv, MountsFollowClaims
  <2>3. QED
    BY <2>1, <2>2 DEF SkipMount, RefuseMount
<1>8. RefKept' /\ DynamicClaimed'
  BY <1>1 DEF AInv, RefKept, DynamicClaimed, ClaimPlans
<1>9. YInv => YInv'
  BY <1>1 DEF YInv, DeclaredKept, NoNeedlessVolume, ClaimPlans
<1>10. QED
  BY <1>5, <1>6, <1>7, <1>8, <1>9 DEF AInv

\* What is said of the plan is said of its elements, in any order.
LEMMA SameAnswers ==
  ASSUME AInv, UNCHANGED <<input, claimed, diags>>,
         Range(planVolumes)' = Range(planVolumes),
         Range(planClaims)' = Range(planClaims),
         Range(planMounts)' = Range(planMounts),
         \A k \in DOMAIN input.claims : Over(k)' <=> Over(k)
  PROVE  AInv' /\ (YInv => YInv')
<1>1. \A k \in DOMAIN input.claims : /\ Planned(k)' <=> Planned(k)
                                     /\ Refused(k)' <=> Refused(k)
  BY DEF Planned, Refused, ClaimPlans
<1>2. OneAnswer'
  BY <1>1 DEF AInv, OneAnswer
<1>3. TakenByAnother' /\ RefKept' /\ DynamicClaimed' /\ MountsFollowClaims'
  BY DEF AInv, TakenByAnother, RefKept, DynamicClaimed, MountsFollowClaims,
         ClaimPlans
<1>4. YInv => YInv'
  BY DEF YInv, DeclaredKept, NoNeedlessVolume, ClaimPlans
<1>5. QED
  BY <1>2, <1>3, <1>4 DEF AInv

LEMMA NextAInv ==
  ASSUME IInv, AInv, [Next]_vars
  PROVE  AInv' /\ (XInv /\ YInv /\ DistinctDynamicIds(input) => YInv')
<1>1. CASE Declare
  BY <1>1, DeclareAInv
<1>2. ASSUME NEW c, RefuseClaim(c)
      PROVE  AInv' /\ (YInv => YInv')
  <2>1. AInv'
    BY <1>2, RefuseClaimAInv
  <2>2. YInv => YInv'
    BY <1>2 DEF RefuseClaim, YInv, DeclaredKept, NoNeedlessVolume, ClaimPlans
  <2>3. QED
    BY <2>1, <2>2
<1>3. ASSUME NEW c, BindExplicit(c) \/ BindStatic(c) \/ Provision(c)
      PROVE  AInv' /\ (XInv /\ YInv /\ DistinctDynamicIds(input) => YInv')
  BY <1>3, BindExplicitAInv, BindStaticAInv, ProvisionAInv
<1>4. CASE ClaimsDone
  <2>1. /\ UNCHANGED <<input, claimed, diags, planVolumes, planClaims,
                       planMounts>>
        /\ pc = "claims" /\ pc' = "mounts" /\ i > Len(input.claims)
    BY <1>4 DEF ClaimsDone
  <2>2. \A k \in DOMAIN input.claims : k < i
    BY <2>1, InputTypes, LenProperties DEF IInv, TypeOK
  <2>3. \A k \in DOMAIN input.claims : Over(k)' <=> Over(k)
    BY <2>1, <2>2 DEF Over, Handled
  <2>4. QED
    BY <2>1, <2>3, SameAnswers
<1>5. ASSUME NEW m, SkipMount(m) \/ RefuseMount(m) \/ Mount(m)
      PROVE  AInv' /\ (YInv => YInv')
  BY <1>5, MountAInv
<1>6. CASE Finish
  <2>1. /\ UNCHANGED <<input, claimed, diags>> /\ pc = "mounts" /\ pc' = "done"
        /\ Range(planVolumes)' = Range(planVolumes)
        /\ Range(planClaims)' = Range(planClaims)
        /\ Range(planMounts)' = Range(planMounts)
    BY <1>6, FinishFacts DEF Finish
  <2>2. \A k \in DOMAIN input.claims : Over(k)' <=> Over(k)
    BY <2>1 DEF Over, Handled
  <2>3. QED
    BY <2>1, <2>2, SameAnswers
<1>7. CASE UNCHANGED vars
  BY <1>7, SameAnswers DEF vars, Over, Handled
<1>8. QED
  BY <1>1, <1>2, <1>3, <1>4, <1>5, <1>6, <1>7
  DEF Next, ClaimStep, MountStep, Done

LEMMA InitAInv == Init => AInv /\ YInv
<1> SUFFICES ASSUME Init PROVE AInv /\ YInv
  OBVIOUS
<1>1. /\ Range(planClaims) = {} /\ Range(planVolumes) = {}
      /\ Range(planMounts) = {} /\ diags = {} /\ pc = "declare"
  BY RangeEmpty DEF Init
<1>2. OneAnswer
  BY <1>1 DEF OneAnswer, Over, Planned, Refused, ClaimPlans
<1>3. QED
  BY <1>1, <1>2
  DEF AInv, YInv, TakenByAnother, RefKept, DynamicClaimed, MountsFollowClaims,
      ClaimPlans, DeclaredKept, NoNeedlessVolume

LEMMA AInvariance == Spec => []AInv
<1>1. IInv /\ AInv /\ [Next]_vars => AInv'
  BY NextAInv
<1>2. QED
  BY <1>1, InitAInv, Invariance, PTL DEF Spec

LEMMA YInvariance == ASSUME NoCollision PROVE Spec => []YInv
<1>1. IInv => DistinctDynamicIds(input)
  BY NoCollision DEF IInv, NoCollision
<1>2. IInv /\ AInv /\ XInv /\ YInv /\ [Next]_vars => YInv'
  BY <1>1, NextAInv
<1>3. QED
  BY <1>2, InitAInv, Invariance, AInvariance, XInvariance, PTL DEF Spec

\* One answer to each claim, when the claims loop is over.
LEMMA AnsweredAll == IInv /\ AInv => EveryClaimAnswered
<1> SUFFICES ASSUME IInv, AInv, pc \in {"mounts", "done"},
                    NEW c \in Range(input.claims)
             PROVE  (ClaimPlans(c.id) # {}) # (\E d \in diags : d.of = c.id)
  BY DEF EveryClaimAnswered
<1>1. PICK k \in DOMAIN input.claims : c = input.claims[k]
  BY DEF Range
<1>2. Over(k)
  BY DEF Over, Handled
<1>3. Planned(k) <=> ~Refused(k)
  BY <1>2 DEF AInv, OneAnswer
<1>4. (ClaimPlans(c.id) # {}) <=> ~(\E d \in diags : d.of = c.id)
  BY <1>1, <1>3 DEF Planned, Refused
<1>5. QED
  BY <1>4

-----------------------------------------------------------------------------
(* The mounts. *)

\* The iterations of the mounts loop that are over.
MountOver(k) == pc = "done" \/ (pc = "mounts" /\ k < i)

\* What the loop has made of a mount whose claim has a plan and whose workload
\* is found.
MountAnswered(m) ==
  ClaimPlans(m.claim) # {} /\ Resolves(m.workload) =>
    \/ \E p \in Range(planMounts) : p.id = m.id
    \/ \E d \in diags : d.of = m.id

MInv == \A k \in DOMAIN input.mounts : MountOver(k) => MountAnswered(input.mounts[k])

\* Another iteration of the mounts loop.
LEMMA MountMInv ==
  ASSUME IInv, MInv, NEW m, SkipMount(m) \/ RefuseMount(m) \/ Mount(m)
  PROVE  MInv'
<1>1. /\ UNCHANGED <<input, pc, planClaims>> /\ IInv'
      /\ AtMount(m) /\ i' = i + 1
  BY MountStepIInv DEF SkipMount, RefuseMount, Mount
<1>2. /\ pc = "mounts" /\ i \in Nat /\ m = input.mounts[i]
      /\ \A k \in DOMAIN input.mounts : k \in Nat
  BY <1>1, MountTypes, InputTypes, LenProperties DEF IInv, TypeOK
<1>3. diags \subseteq diags' /\ Range(planMounts) \subseteq Range(planMounts)'
  <2>1. CASE planMounts' = planMounts
    BY <2>1 DEF SkipMount, RefuseMount, Mount
  <2>2. CASE Mount(m)
    <3>1. PICK x : planMounts' = Append(planMounts, x)
      BY <2>2 DEF Mount
    <3>2. diags' = diags
      BY <2>2 DEF Mount
    <3>3. planMounts \in Seq(MountPlan)
      BY DEF IInv, TypeOK
    <3>4. \A k \in DOMAIN planMounts : /\ k \in DOMAIN planMounts'
                                      /\ planMounts'[k] = planMounts[k]
      BY <3>1, <3>3, LenProperties
    <3>5. QED
      BY <3>2, <3>4 DEF Range
  <2>3. QED
    BY <2>1, <2>2 DEF SkipMount, RefuseMount
<1>4. MountAnswered(m)'
  <2>1. CASE SkipMount(m)
    BY <1>1, <2>1 DEF SkipMount, MountAnswered, ClaimPlans
  <2>2. CASE RefuseMount(m)
    <3>1. Diag("DSTOR010", m.id).of = m.id
      BY DEF Diag
    <3>2. \E d \in diags' : d.of = m.id
      BY <2>2, <3>1 DEF RefuseMount
    <3>3. QED
      BY <3>2 DEF MountAnswered
  <2>3. CASE Mount(m)
    <3>1. PICK x : planMounts' = Append(planMounts, x) /\ x.id = m.id
      BY <2>3 DEF Mount
    <3>2. planMounts \in Seq(MountPlan) /\ Len(planMounts) \in Nat
      BY LenProperties DEF IInv, TypeOK
    <3>3. /\ Len(planMounts) + 1 \in DOMAIN planMounts'
          /\ planMounts'[Len(planMounts) + 1] = x
      BY <3>1, <3>2
    <3>4. QED
      BY <3>1, <3>3 DEF MountAnswered, Range
  <2>4. QED
    BY <2>1, <2>2, <2>3
<1>5. ASSUME NEW k \in DOMAIN input.mounts, k < i
      PROVE  MountAnswered(input.mounts[k])'
  <2>1. MountAnswered(input.mounts[k])
    BY <1>2, <1>5 DEF MInv, MountOver
  <2>2. QED
    BY <1>1, <1>3, <2>1 DEF MountAnswered, ClaimPlans
<1>6. QED
  <2> SUFFICES ASSUME NEW k \in DOMAIN input.mounts, MountOver(k)'
               PROVE  MountAnswered(input.mounts[k])'
    BY <1>1 DEF MInv
  <2>1. k < i + 1
    BY <1>1, <1>2 DEF MountOver
  <2>2. k < i \/ k = i
    BY <1>2, <2>1
  <2>3. CASE k = i
    BY <1>1, <1>2, <1>4, <2>3 DEF MountAnswered
  <2>4. QED
    BY <1>5, <2>2, <2>3

LEMMA NextMInv ==
  ASSUME IInv, MInv, [Next]_vars
  PROVE  MInv'
<1>1. CASE pc' \in {"declare", "claims"}
  BY <1>1 DEF MInv, MountOver
<1>2. CASE ClaimsDone
  <2>1. pc' = "mounts" /\ i' = 1 /\ input' = input
    BY <1>2 DEF ClaimsDone
  <2>2. \A k \in DOMAIN input.mounts : k \in Nat \ {0}
    BY InputTypes, LenProperties DEF IInv, TypeOK
  <2>3. QED
    BY <2>1, <2>2 DEF MInv, MountOver
<1>3. ASSUME NEW m, SkipMount(m) \/ RefuseMount(m) \/ Mount(m)
      PROVE  MInv'
  BY <1>3, MountMInv
<1>4. CASE Finish
  <2>1. /\ UNCHANGED <<input, diags>> /\ pc = "mounts" /\ i > Len(input.mounts)
        /\ Range(planClaims)' = Range(planClaims)
        /\ Range(planMounts)' = Range(planMounts)
    BY <1>4, FinishFacts DEF Finish
  <2>2. \A k \in DOMAIN input.mounts : k < i
    BY <2>1, InputTypes, LenProperties DEF IInv, TypeOK
  <2>3. \A k \in DOMAIN input.mounts : MountAnswered(input.mounts[k])
    BY <2>1, <2>2 DEF MInv, MountOver
  <2>4. QED
    BY <2>1, <2>3 DEF MInv, MountAnswered, ClaimPlans
<1>5. CASE UNCHANGED vars
  BY <1>5 DEF vars, MInv, MountOver, MountAnswered, ClaimPlans
<1>6. Declare \/ ClaimStep => pc' \in {"declare", "claims"}
  BY DEF Declare, ClaimStep, RefuseClaim, BindExplicit, BindStatic, Provision,
         Bind, AtClaim
<1>7. QED
  BY <1>1, <1>2, <1>3, <1>4, <1>5, <1>6 DEF Next, MountStep, Done

LEMMA MInvariance == Spec => []MInv
<1>1. Init => MInv
  BY DEF Init, MInv, MountOver
<1>2. IInv /\ MInv /\ [Next]_vars => MInv'
  BY NextMInv
<1>3. QED
  BY <1>1, <1>2, Invariance, PTL DEF Spec

\* A mount without a claim plan has the refusal of its claim to explain it.
LEMMA MountsAnsweredAll == IInv /\ AInv /\ MInv => MountsAnswered
<1> SUFFICES ASSUME IInv, AInv, MInv, pc = "done",
                    NEW m \in Range(input.mounts), NEW c \in Range(input.claims),
                    c.id = m.claim, Resolves(m.workload)
             PROVE  \/ \E p \in Range(planMounts) : p.id = m.id
                    \/ \E d \in diags : d.of \in {m.id, c.id}
  BY DEF MountsAnswered
<1>1. MountAnswered(m)
  BY DEF MInv, MountOver, Range
<1>2. CASE ClaimPlans(c.id) = {}
  <2>1. \E d \in diags : d.of = c.id
    BY <1>2, AnsweredAll DEF EveryClaimAnswered
  <2>2. QED
    BY <2>1
<1>3. CASE ClaimPlans(c.id) # {}
  BY <1>1, <1>3 DEF MountAnswered
<1>4. QED
  BY <1>2, <1>3

-----------------------------------------------------------------------------
(* The theorems. *)

\* buildStoragePlan keeps its slices and maps well formed, and the claimed map
\* within the volumes of the plan, whatever it is given.
THEOREM TypeCorrect == Spec => []TypeOK
<1>1. IInv => TypeOK
  BY DEF IInv
<1>2. QED
  BY <1>1, Invariance, PTL

\* No refused claim keeps a volume and no planned claim goes without one,
\* whatever the input, name collisions included.
THEOREM NothingLeaks == Spec => []NoLeakedVolume
<1>1. IInv => NoLeakedVolume
  BY DEF IInv
<1>2. QED
  BY <1>1, Invariance, PTL

\* One volume is never bound to two claims, when dynamic volumes have
\* identities of their own.
THEOREM Exclusive == ASSUME NoCollision PROVE Spec => []ExclusiveBinding
<1>1. XInv => ExclusiveBinding
  BY DEF XInv
<1>2. QED
  BY <1>1, XInvariance, PTL

\* The volume a claim is bound to suits it, under the same assumption.
THEOREM Fits == ASSUME NoCollision PROVE Spec => []BoundFits
<1>1. XInv => BoundFits
  BY DEF XInv
<1>2. QED
  BY <1>1, XInvariance, PTL

\* A claim whose bytes the integer type holds has a volume of at least as many,
\* whatever the sizes of the volumes and of the other claims: where they are
\* clamped or wrap, they come out smaller than they are.
THEOREM Sufficient == ASSUME NoCollision PROVE Spec => []SufficientCapacity
<1>1. ASSUME IInv, XInv PROVE SufficientCapacity
  <2> SUFFICES ASSUME NEW b \in Range(planClaims), Bytes(b.capacity) < Half,
                      NEW v \in Range(planVolumes), v.id = b.volume
               PROVE  Bytes(v.capacity) >= Bytes(b.capacity)
    BY DEF SufficientCapacity
  <2>1. v.capacity \in Quantity /\ b.capacity \in Quantity
    <3>1. planVolumes \in Seq(VolumePlan) /\ planClaims \in Seq(ClaimPlan)
      BY <1>1 DEF IInv, TypeOK
    <3>2. v \in VolumePlan /\ b \in ClaimPlan
      BY <3>1, LenProperties DEF Range
    <3>3. QED
      BY <3>2 DEF VolumePlan, ClaimPlan
  <2>2. capacityAtLeast(v.capacity, b.capacity)
    BY <1>1 DEF XInv, BoundFits
  <2>3. parseQuantity(b.capacity) = Bytes(b.capacity)
    BY <2>1, QuantityExact
  <2>4. /\ parseQuantity(v.capacity) <= Bytes(v.capacity)
        /\ parseQuantity(v.capacity) \in Int /\ parseQuantity(b.capacity) \in Int
    BY <2>1, QuantityAtMost, QuantityInt
  <2>5. Bytes(v.capacity) \in Int
    BY <2>1, QuantitiesAssumption DEF Bytes, Quantity
  <2>6. QED
    BY <2>2, <2>3, <2>4, <2>5 DEF capacityAtLeast
<1>2. QED
  BY <1>1, Invariance, XInvariance, PTL

\* "Static bindings require the same class, sufficient capacity"
\* (docs/specification/storage.md:35), but not beyond the integer type: a claim
\* of exactly Half bytes, which is 8192Pi with the int64 of the code, comes out
\* as the least value there is, and every volume is large enough for it.
THEOREM WrappedClaimFitsAny ==
  ASSUME NEW claim \in Quantity, claim.n < Half, Bytes(claim) = Half,
         NEW volume \in Quantity
  PROVE  capacityAtLeast(volume, claim)
<1>1. Half \in Nat \ {0} /\ Modulus = 2 * Half
  BY HalfPositive
<1>2. ParseInt(claim.n) = claim.n
  BY <1>1 DEF ParseInt, Quantity
<1>3. parseQuantity(claim) = 0 - Half
  <2>1. parseQuantity(claim) = Wrap(Half)
    BY <1>2 DEF parseQuantity, Bytes
  <2>2. \A m \in Nat \ {0} : m % m = 0
    OBVIOUS
  <2>3. (Half + Half) % Modulus = 0
    BY <1>1, <2>2
  <2>4. QED
    BY <1>1, <2>1, <2>3 DEF Wrap
<1>4. parseQuantity(volume) \in Int /\ parseQuantity(volume) >= 0 - Half
  <2> DEFINE x == ParseInt(volume.n) * Multiplier[volume.unit]
  <2>1. x \in Nat
    <3>1. volume.n \in Nat /\ Multiplier[volume.unit] \in Nat
      BY QuantitiesAssumption DEF Quantity
    <3>2. \A a, b \in Nat : a * b \in Nat
      OBVIOUS
    <3>3. QED
      BY <3>1, <3>2, HalfPositive
  <2>2. parseQuantity(volume) = Wrap(x)
    BY DEF parseQuantity
  <2> HIDE DEF x
  <2>3. (x + Half) % Modulus \in Nat
    BY <1>1, <2>1
  <2>4. QED
    BY <1>1, <2>2, <2>3 DEF Wrap
<1>5. QED
  BY <1>1, <1>3, <1>4 DEF capacityAtLeast

\* Whatever the input, name collisions included: no claim is passed over in
\* silence or answered twice, DSTOR014 is never reported of a volume that no
\* other claim has, a mount carries the volume of its claim, and a mount is
\* left out only if its workload is not found or a diagnostic tells why.
THEOREM Answered ==
  Spec => [](/\ EveryClaimAnswered /\ TakenByAnother
             /\ MountsFollowClaims /\ MountsAnswered)
<1>1. IInv /\ AInv /\ MInv => /\ EveryClaimAnswered /\ TakenByAnother
                             /\ MountsFollowClaims /\ MountsAnswered
  BY AnsweredAll, MountsAnsweredAll DEF AInv
<1>2. QED
  BY <1>1, Invariance, AInvariance, MInvariance, PTL

\* When dynamic volumes have identities of their own, besides: a claim has the
\* declared volume it names or none, and no dynamic volume is planned while a
\* declared one would do.
THEOREM AnsweredWell == ASSUME NoCollision PROVE Spec => []ClaimsAnswered
<1>1. ASSUME IInv, AInv, YInv, MInv PROVE ClaimsAnswered
  <2>1. ExplicitHonoured
    BY <1>1 DEF AInv, YInv, RefKept, DeclaredKept, ExplicitHonoured
  <2>2. EveryClaimAnswered /\ MountsAnswered
    BY <1>1, AnsweredAll, MountsAnsweredAll
  <2>3. QED
    BY <1>1, <2>1, <2>2 DEF AInv, YInv, ClaimsAnswered
<1>2. QED
  BY <1>1, Invariance, AInvariance, YInvariance, MInvariance, PTL

-----------------------------------------------------------------------------
(* The refinement. *)

Bound == {<<b.id, b.volume>> : b \in Range(planClaims)}

\* The claim at hand is open, and the next iteration has closed it alone.
LEMMA OpenStep ==
  ASSUME IInv, NEW c, AtClaim(c), input' = input, pc' = pc, i' = i + 1
  PROVE  c.id \in OpenClaims /\ OpenClaims' = OpenClaims \ {c.id}
<1>1. /\ i \in DOMAIN input.claims /\ c = input.claims[i] /\ pc = "claims"
      /\ i \in Nat \ {0}
  BY AtClaimFacts DEF IInv, TypeOK
<1>2. /\ DOMAIN input.claims = 1..Len(input.claims)
      /\ Len(input.claims) \in Nat /\ DistinctIds(input.claims)
  BY InputTypes, LenProperties DEF IInv, TypeOK
<1>3. /\ OpenClaims = {input.claims[k].id : k \in i..Len(input.claims)}
      /\ OpenClaims' = {input.claims[k].id : k \in (i + 1)..Len(input.claims)}
  BY <1>1 DEF OpenClaims
<1>4. i..Len(input.claims) = {i} \cup ((i + 1)..Len(input.claims))
  BY <1>1, <1>2
<1>5. \A k \in (i + 1)..Len(input.claims) : input.claims[k].id # c.id
  BY <1>1, <1>2 DEF DistinctIds
<1>6. QED
  BY <1>1, <1>3, <1>4, <1>5

\* A binding branch is the abstract binding of the claim.
LEMMA BindStep ==
  ASSUME IInv, NEW c, AtClaim(c), NEW id, id \notin claimed, Bind(c, id),
         IInv'
  PROVE  Binding!Bind(c.id)
<1>1. input' = input /\ pc' = pc /\ i' = i + 1
  BY DEF Bind
<1>2. /\ planClaims \in Seq(ClaimPlan) /\ planClaims' \in Seq(ClaimPlan)
      /\ Len(planClaims) \in Nat
  BY LenProperties DEF IInv, TypeOK
<1>3. PICK b : /\ planClaims' = Append(planClaims, b)
               /\ b.id = c.id /\ b.volume = id
  BY DEF Bind
<1>4. b \in ClaimPlan
  <2>1. /\ Len(Append(planClaims, b)) = Len(planClaims) + 1
        /\ Append(planClaims, b)[Len(planClaims) + 1] = b
    BY <1>2
  <2>2. QED
    BY <1>2, <1>3, <2>1, LenProperties
<1>5. Range(planClaims') = Range(planClaims) \cup {b}
  BY <1>2, <1>3, <1>4, RangeAppend
<1>6. Bound' = Bound \cup {<<c.id, id>>}
  BY <1>3, <1>5 DEF Bound
<1>7. \A q \in Bound : q[2] # id
  BY DEF IInv, NoLeakedVolume, Bound
<1>8. c.id \in OpenClaims /\ OpenClaims' = OpenClaims \ {c.id}
  BY <1>1, OpenStep
<1>9. \E p \in Bound' : /\ Bound' = Bound \cup {p} /\ p[1] = c.id
                        /\ \A q \in Bound : q[2] # p[2]
  <2>1. <<c.id, id>>[1] = c.id /\ <<c.id, id>>[2] = id
    OBVIOUS
  <2>2. PICK p : p = <<c.id, id>> /\ p[1] = c.id /\ p[2] = id
    BY <2>1
  <2>3. p \in Bound' /\ Bound' = Bound \cup {p}
    BY <1>6, <2>2
  <2>4. \A q \in Bound : q[2] # p[2]
    BY <1>7, <2>2
  <2>5. QED
    BY <2>2, <2>3, <2>4
<1>10. QED
  BY <1>8, <1>9 DEF Binding!Bind, Bound

\* buildStoragePlan implements the abstract binding of claims to volumes,
\* when dynamic volumes have identities of their own.
THEOREM PlanImplementsBinding == ASSUME NoCollision PROVE Spec => Binding!Spec
<1>1. Init => Binding!Init
  BY RangeEmpty DEF Init, Binding!Init
<1>2. ASSUME IInv, IInv', XInv, [Next]_vars
      PROVE  [Binding!Next]_(Binding!bvars)
  <2>1. ASSUME NEW c, RefuseClaim(c)
        PROVE  Binding!Next
    <3>1. AtClaim(c) /\ UNCHANGED <<input, pc, planClaims>> /\ i' = i + 1
      BY <2>1 DEF RefuseClaim
    <3>2. c.id \in OpenClaims /\ OpenClaims' = OpenClaims \ {c.id}
      BY <1>2, <3>1, OpenStep
    <3>3. Binding!Refuse(c.id)
      BY <3>1, <3>2 DEF Binding!Refuse
    <3>4. QED
      BY <3>2, <3>3 DEF Binding!Next
  <2>2. ASSUME NEW c, NEW id, AtClaim(c), Bind(c, id), id \notin claimed
        PROVE  Binding!Next
    <3>1. Binding!Bind(c.id)
      BY <1>2, <2>2, BindStep
    <3>2. c.id \in OpenClaims
      BY <1>2, <2>2, OpenStep DEF Bind
    <3>3. QED
      BY <3>1, <3>2 DEF Binding!Next
  <2>3. ASSUME NEW c, BindExplicit(c)
        PROVE  Binding!Next
    <3>1. c.volumeRef \notin claimed
      BY <1>2, <2>3, ExplicitChecks DEF BindExplicit, IInv, XInv
    <3>2. QED
      BY <2>2, <2>3, <3>1 DEF BindExplicit
  <2>4. ASSUME NEW c, BindStatic(c)
        PROVE  Binding!Next
    <3>1. PICK k \in Candidates(c) : Bind(c, planVolumes[k].id)
      BY <2>4 DEF BindStatic
    <3>2. planVolumes[k].id \notin claimed /\ AtClaim(c)
      BY <2>4, <3>1 DEF Candidates, BindStatic
    <3>3. QED
      BY <2>2, <3>1, <3>2
  <2>5. ASSUME NEW c, Provision(c)
        PROVE  Binding!Next
    <3>1. AtClaim(c) /\ Bind(c, DynamicId(c))
      BY <2>5 DEF Provision
    <3>2. DistinctDynamicIds(input)
      BY <1>2, NoCollision DEF IInv, NoCollision
    <3>3. DynamicId(c) \notin claimed
      BY <1>2, <3>1, <3>2, DynamicIdFresh DEF IInv, TypeOK
    <3>4. QED
      BY <2>2, <3>1, <3>3
  <2>6. ASSUME UNCHANGED <<OpenClaims, Bound>>
        PROVE  UNCHANGED Binding!bvars
    BY <2>6 DEF Binding!bvars, Bound
  <2>7. CASE Declare
    <3>1. i = 1 /\ pc = "declare" /\ pc' = "claims"
          /\ UNCHANGED <<input, i, planClaims>>
      BY <1>2, <2>7 DEF Declare, IInv, Fresh
    <3>2. DOMAIN input.claims = 1..Len(input.claims)
      BY <1>2, InputTypes, LenProperties DEF IInv, TypeOK
    <3>3. OpenClaims' = OpenClaims
      BY <3>1, <3>2 DEF OpenClaims
    <3>4. QED
      BY <2>6, <3>1, <3>3 DEF Bound
  <2>8. CASE ClaimsDone
    <3>1. /\ pc = "claims" /\ pc' = "mounts" /\ i > Len(input.claims)
          /\ UNCHANGED <<input, planClaims>>
      BY <2>8 DEF ClaimsDone
    <3>2. i \in Nat /\ Len(input.claims) \in Nat
      BY <1>2, InputTypes, LenProperties DEF IInv, TypeOK
    <3>3. OpenClaims = {} /\ OpenClaims' = {}
      BY <3>1, <3>2 DEF OpenClaims
    <3>4. QED
      BY <2>6, <3>1, <3>3 DEF Bound
  <2>9. ASSUME NEW m, SkipMount(m) \/ RefuseMount(m) \/ Mount(m)
        PROVE  UNCHANGED Binding!bvars
    <3>1. pc = "mounts" /\ UNCHANGED <<input, pc, planClaims>>
      BY <2>9 DEF SkipMount, RefuseMount, Mount, AtMount
    <3>2. QED
      BY <2>6, <3>1 DEF OpenClaims, Bound
  <2>10. CASE Finish
    <3>1. /\ pc = "mounts" /\ pc' = "done" /\ input' = input
          /\ Range(planClaims') = Range(planClaims)
      BY <1>2, <2>10, FinishFacts DEF Finish
    <3>2. QED
      BY <2>6, <3>1 DEF OpenClaims, Bound
  <2>11. CASE UNCHANGED vars
    BY <2>6, <2>11 DEF vars, OpenClaims, Bound
  <2>12. QED
    BY <1>2, <2>1, <2>3, <2>4, <2>5, <2>7, <2>8, <2>9, <2>10, <2>11
    DEF Next, ClaimStep, MountStep, Done
<1>3. QED
  BY <1>1, <1>2, Invariance, XInvariance, PTL DEF Spec, Binding!Spec
=============================================================================
