--------------------------- MODULE SequenceLemmas ---------------------------
(***************************************************************************)
(* What appending to a slice or a channel, receiving from one, and sorting *)
(* one does to the set of its elements.  The proofs about the components   *)
(* cite these.                                                             *)
(***************************************************************************)
EXTENDS StableSorting, SequencesExt, SequenceTheorems, FiniteSetTheorems, TLAPS

\* Appending to a channel or a slice adds the element and nothing else.
LEMMA RangeAppend ==
  ASSUME NEW S, NEW s \in Seq(S), NEW e \in S
  PROVE  Range(Append(s, e)) = Range(s) \cup {e}
<1>1. /\ Append(s, e) \in Seq(S)
      /\ Len(Append(s, e)) = Len(s) + 1
      /\ Append(s, e)[Len(s) + 1] = e
      /\ \A i \in 1..Len(s) : Append(s, e)[i] = s[i]
  OBVIOUS
<1>2. DOMAIN Append(s, e) = 1..(Len(s) + 1) /\ DOMAIN s = 1..Len(s)
  BY <1>1, LenProperties
<1>3. Len(s) \in Nat
  BY LenProperties
<1>4. ASSUME NEW x \in Range(Append(s, e))
      PROVE  x \in Range(s) \cup {e}
  <2>1. PICK i \in 1..(Len(s) + 1) : x = Append(s, e)[i]
    BY <1>2 DEF Range
  <2>2. CASE i = Len(s) + 1
    BY <2>1, <2>2, <1>1
  <2>3. CASE i \in 1..Len(s)
    BY <2>1, <2>3, <1>1, <1>2 DEF Range
  <2>4. QED
    BY <2>1, <2>2, <2>3, <1>3
<1>5. ASSUME NEW x \in Range(s) \cup {e}
      PROVE  x \in Range(Append(s, e))
  <2>1. CASE x = e
    BY <2>1, <1>1, <1>2, <1>3 DEF Range
  <2>2. CASE x \in Range(s)
    <3>1. PICK i \in 1..Len(s) : x = s[i]
      BY <2>2, <1>2 DEF Range
    <3>2. x = Append(s, e)[i] /\ i \in 1..(Len(s) + 1)
      BY <3>1, <1>1, <1>3
    <3>3. QED
      BY <3>2, <1>2 DEF Range
  <2>3. QED
    BY <2>1, <2>2
<1>6. QED
  BY <1>4, <1>5

\* Receiving from a channel takes its first element and leaves the others.
LEMMA RangeHeadTail ==
  ASSUME NEW S, NEW s \in Seq(S), s # <<>>
  PROVE  Range(s) = {Head(s)} \cup Range(Tail(s))
<1>1. /\ Tail(s) \in Seq(S)
      /\ Len(s) \in Nat \ {0}
      /\ Len(Tail(s)) = Len(s) - 1
      /\ Head(s) = s[1]
      /\ \A i \in 1..(Len(s) - 1) : Tail(s)[i] = s[i + 1]
  BY HeadTailProperties, EmptySeq
<1>2. DOMAIN s = 1..Len(s) /\ DOMAIN Tail(s) = 1..(Len(s) - 1)
  BY <1>1, LenProperties
<1>3. ASSUME NEW x \in Range(s)
      PROVE  x \in {Head(s)} \cup Range(Tail(s))
  <2>1. PICK i \in 1..Len(s) : x = s[i]
    BY <1>2 DEF Range
  <2>2. CASE i = 1
    BY <2>1, <2>2, <1>1
  <2>3. CASE i # 1
    <3>1. i - 1 \in 1..(Len(s) - 1) /\ (i - 1) + 1 = i
      BY <2>3, <1>1
    <3>2. x = Tail(s)[i - 1]
      BY <3>1, <2>1, <1>1
    <3>3. QED
      BY <3>1, <3>2, <1>2 DEF Range
  <2>4. QED
    BY <2>2, <2>3
<1>4. ASSUME NEW x \in {Head(s)} \cup Range(Tail(s))
      PROVE  x \in Range(s)
  <2>1. CASE x = Head(s)
    BY <2>1, <1>1, <1>2 DEF Range
  <2>2. CASE x \in Range(Tail(s))
    <3>1. PICK i \in 1..(Len(s) - 1) : x = Tail(s)[i]
      BY <2>2, <1>2 DEF Range
    <3>2. x = s[i + 1] /\ i + 1 \in 1..Len(s)
      BY <3>1, <1>1
    <3>3. QED
      BY <3>2, <1>2 DEF Range
  <2>3. QED
    BY <2>1, <2>2
<1>5. QED
  BY <1>3, <1>4

LEMMA RangeEmpty == Range(<<>>) = {}
BY DEF Range

\* Popping a stack takes its last element and leaves the others in place.
LEMMA FrontLast ==
  ASSUME NEW S, NEW s \in Seq(S), s # <<>>
  PROVE  /\ Len(s) \in Nat \ {0}
         /\ Front(s) \in Seq(S)
         /\ Len(Front(s)) = Len(s) - 1
         /\ \A i \in 1..(Len(s) - 1) : Front(s)[i] = s[i]
         /\ Last(s) = s[Len(s)]
         /\ Last(s) \in S
<1>1. Len(s) \in Nat \ {0}
  BY EmptySeq, LenProperties
<1>2. Front(s) = SubSeq(s, 1, Len(s) - 1)
  BY DEF Front
<1>3. /\ SubSeq(s, 1, Len(s) - 1) \in Seq(S)
      /\ Len(SubSeq(s, 1, Len(s) - 1)) = Len(s) - 1
      /\ \A i \in 1..(Len(s) - 1) : SubSeq(s, 1, Len(s) - 1)[i] = s[i]
  <2>1. \A i \in 1..(Len(s) - 1) : s[i] \in S
    BY <1>1, LenProperties
  <2>2. /\ SubSeq(s, 1, Len(s) - 1) \in Seq(S)
        /\ Len(SubSeq(s, 1, Len(s) - 1))
             = IF 1 <= Len(s) - 1 THEN (Len(s) - 1) - 1 + 1 ELSE 0
        /\ \A i \in 1..((Len(s) - 1) - 1 + 1) :
             SubSeq(s, 1, Len(s) - 1)[i] = s[1 + i - 1]
    BY <1>1, <2>1, SubSeqProperties
  <2>3. \A i \in 1..(Len(s) - 1) : 1 + i - 1 = i
    OBVIOUS
  <2>4. (Len(s) - 1) - 1 + 1 = Len(s) - 1
    BY <1>1
  <2>5. QED
    BY <1>1, <2>2, <2>3, <2>4
<1>4. Last(s) = s[Len(s)] /\ s[Len(s)] \in S
  BY <1>1 DEF Last
<1>5. QED
  BY <1>1, <1>2, <1>3, <1>4

-----------------------------------------------------------------------------
(* sort.SliceStable. *)

\* The entries sorted before entry k, itself included.
UpTo(kept, rank, k) ==
  {j \in kept : rank[j] < rank[k] \/ (rank[j] = rank[k] /\ j <= k)}

\* No two entries go to one place, every place is filled, and an entry of
\* lower rank goes to an earlier one.
LEMMA PlaceIsBijection ==
  ASSUME NEW kept \in SUBSET Nat, IsFiniteSet(kept), NEW rank,
         \A k \in kept : rank[k] \in Nat
  PROVE  /\ Cardinality(kept) \in Nat
         /\ \A k \in kept : Place(kept, rank, k) \in 1..Cardinality(kept)
         /\ \A j, k \in kept : Place(kept, rank, j) = Place(kept, rank, k) => j = k
         /\ \A n \in 1..Cardinality(kept) : \E k \in kept : Place(kept, rank, k) = n
         /\ \A j, k \in kept :
              rank[j] < rank[k] => Place(kept, rank, j) < Place(kept, rank, k)
<1> DEFINE P(k) == Place(kept, rank, k)
           B(k) == UpTo(kept, rank, k)
           N == Cardinality(kept)
<1>1. N \in Nat
  BY FS_CardinalityType
<1>2. \A k \in kept : B(k) \in SUBSET kept /\ k \in B(k)
  BY DEF UpTo
<1>3. \A k \in kept : IsFiniteSet(B(k)) /\ P(k) = Cardinality(B(k))
  BY <1>2, FS_Subset DEF UpTo, Place
<1>4. \A k \in kept : P(k) \in 1..N
  <2> SUFFICES ASSUME NEW k \in kept PROVE P(k) \in 1..N
    OBVIOUS
  <2> HIDE DEF B, P, N
  <2>1. Cardinality(B(k)) <= N
    BY <1>2, FS_Subset DEF N
  <2>2. Cardinality(B(k)) \in Nat /\ Cardinality(B(k)) # 0
    BY <1>2, <1>3, FS_CardinalityType, FS_EmptySet
  <2>3. QED
    BY <2>1, <2>2, <1>1, <1>3
<1>5. ASSUME NEW j \in kept, NEW k \in kept, j \in B(k), j # k
      PROVE  P(j) < P(k)
  <2>1. B(j) \subseteq B(k) /\ k \notin B(j)
    <3>1. \A h \in kept : h \in Nat /\ rank[h] \in Nat
      OBVIOUS
    <3>2. rank[j] < rank[k] \/ (rank[j] = rank[k] /\ j < k)
      BY <1>5, <3>1 DEF UpTo
    <3>3. k \notin B(j)
      BY <3>1, <3>2 DEF UpTo
    <3>4. ASSUME NEW h \in B(j) PROVE h \in B(k)
      BY <3>1, <3>2 DEF UpTo
    <3>5. QED
      BY <3>3, <3>4
  <2> HIDE DEF B, P, N
  <2>2. /\ Cardinality(B(j)) <= Cardinality(B(k))
        /\ Cardinality(B(j)) # Cardinality(B(k))
    BY <2>1, <1>2, <1>3, FS_Subset
  <2>3. Cardinality(B(j)) \in Nat /\ Cardinality(B(k)) \in Nat
    BY <1>3, FS_CardinalityType
  <2>4. QED
    BY <2>2, <2>3, <1>3
<1>6. \A j, k \in kept : P(j) = P(k) => j = k
  <2> SUFFICES ASSUME NEW j \in kept, NEW k \in kept, j # k PROVE P(j) # P(k)
    OBVIOUS
  <2>1. j \in B(k) \/ k \in B(j)
    BY DEF UpTo
  <2> HIDE DEF B, P, N
  <2>2. P(j) \in Nat /\ P(k) \in Nat
    BY <1>1, <1>4
  <2>3. QED
    BY <2>1, <2>2, <1>5
<1>7. \A n \in 1..N : \E k \in kept : P(k) = n
  <2> DEFINE f == [k \in kept |-> P(k)]
  <2>1. f \in [kept -> 1..N]
    BY <1>4
  <2>2. \A j, k \in kept : f[j] = f[k] => j = k
    BY <1>6
  <2>3. IsFiniteSet(1..N) /\ Cardinality(1..N) = N
    BY <1>1, FS_Interval
  <2>4. f \in Surjection(kept, 1..N)
    <3> HIDE DEF f, P
    <3>1. f \in Injection(kept, 1..N)
      BY <2>1, <2>2 DEF Injection, IsInjective
    <3>2. QED
      BY <3>1, <2>3, FS_Injection
  <2>5. \A n \in 1..N : \E k \in kept : f[k] = n
    <3> HIDE DEF f, P
    <3>1. QED
      BY <2>4 DEF Surjection
  <2>6. QED
    BY <2>5
<1>8. \A j, k \in kept : rank[j] < rank[k] => P(j) < P(k)
  <2> SUFFICES ASSUME NEW j \in kept, NEW k \in kept, rank[j] < rank[k]
               PROVE  P(j) < P(k)
    OBVIOUS
  <2>1. j \in B(k) /\ j # k
    BY DEF UpTo
  <2>2. QED
    BY <2>1, <1>5
<1>9. QED
  BY <1>1, <1>4, <1>6, <1>7, <1>8

\* t has the entries of s that are kept, each once, in the order of their ranks.
Sorts(t, s, kept, rank) ==
  \E p \in [1..Cardinality(kept) -> kept] :
    /\ \A n \in 1..Cardinality(kept) : t[n] = s[p[n]]
    /\ \A m, n \in 1..Cardinality(kept) : p[m] = p[n] => m = n
    /\ \A m, n \in 1..Cardinality(kept) : m <= n => rank[p[m]] <= rank[p[n]]

\* InOrder sorts.
LEMMA InOrderPermutes ==
  ASSUME NEW S, NEW s \in Seq(S), NEW kept \in SUBSET DOMAIN s, NEW rank,
         \A k \in kept : rank[k] \in Nat
  PROVE  /\ InOrder(s, kept, rank) \in Seq(S)
         /\ DOMAIN InOrder(s, kept, rank) = 1..Cardinality(kept)
         /\ Cardinality(kept) \in Nat
         /\ Range(InOrder(s, kept, rank)) = {s[k] : k \in kept}
         /\ Sorts(InOrder(s, kept, rank), s, kept, rank)
<1> DEFINE N == Cardinality(kept)
           P(k) == Place(kept, rank, k)
           At(n) == CHOOSE k \in kept : P(k) = n
           p == [n \in 1..N |-> At(n)]
           t == [n \in 1..N |-> s[At(n)]]
<1>1. DOMAIN s = 1..Len(s) /\ Len(s) \in Nat /\ s \in [1..Len(s) -> S]
  BY LenProperties
<1>2. kept \in SUBSET Nat /\ IsFiniteSet(kept)
  <2>1. IsFiniteSet(1..Len(s))
    BY <1>1, FS_Interval
  <2>2. kept \in SUBSET (1..Len(s))
    BY <1>1
  <2>3. QED
    BY <2>1, <2>2, FS_Subset
<1>3. /\ N \in Nat
      /\ \A k \in kept : P(k) \in 1..N
      /\ \A j, k \in kept : P(j) = P(k) => j = k
      /\ \A n \in 1..N : \E k \in kept : P(k) = n
      /\ \A j, k \in kept : rank[j] < rank[k] => P(j) < P(k)
  BY <1>2, PlaceIsBijection
<1>4. InOrder(s, kept, rank) = t
  BY DEF InOrder
<1> HIDE DEF N, P
<1>5. \A n \in 1..N : At(n) \in kept /\ P(At(n)) = n
  BY <1>3
<1>6. p \in [1..N -> kept]
  BY <1>5
<1>7. \A m, n \in 1..N : p[m] = p[n] => m = n
  BY <1>5
<1>8. \A m, n \in 1..N : m <= n => rank[p[m]] <= rank[p[n]]
  <2> SUFFICES ASSUME NEW m \in 1..N, NEW n \in 1..N, m <= n,
                      ~(rank[p[m]] <= rank[p[n]])
               PROVE  FALSE
    OBVIOUS
  <2>1. /\ p[m] \in kept /\ P(p[m]) = m
        /\ p[n] \in kept /\ P(p[n]) = n
    BY <1>5
  <2> HIDE DEF p
  <2>2. rank[p[m]] \in Nat /\ rank[p[n]] \in Nat
    BY <2>1
  <2>3. rank[p[n]] < rank[p[m]]
    BY <2>2
  <2>4. P(p[n]) < P(p[m])
    BY <2>1, <2>3, <1>3
  <2>5. QED
    BY <2>1, <2>4, <1>3
<1>9. t \in Seq(S)
  BY <1>1, <1>3, <1>5, SeqDef
<1>10. Range(t) \subseteq {s[k] : k \in kept}
  BY <1>5 DEF Range
<1>11. ASSUME NEW k \in kept PROVE s[k] \in Range(t)
  <2>1. P(k) \in 1..N
    BY <1>3
  <2>2. At(P(k)) = k
    BY <2>1, <1>3, <1>5
  <2>3. t[P(k)] = s[k]
    BY <2>1, <2>2
  <2>4. QED
    BY <2>1, <2>3 DEF Range
<1>12. DOMAIN t = 1..N /\ \A n \in 1..N : t[n] = s[p[n]]
  OBVIOUS
<1>13. Range(t) = {s[k] : k \in kept}
  BY <1>10, <1>11
<1> HIDE DEF p, t
<1>14. Sorts(t, s, kept, rank)
  BY <1>6, <1>7, <1>8, <1>12 DEF Sorts, N
<1>15. QED
  BY <1>3, <1>4, <1>9, <1>12, <1>13, <1>14 DEF N

\* The least element of a set of natural numbers.
LEMMA LeastNat ==
  ASSUME NEW T \in SUBSET Nat, T # {}
  PROVE  \E m \in T : \A k \in T : m <= k
<1> DEFINE R == OpToRel(<, Nat)
<1>1. IsWellFoundedOn(R, Nat)
  BY NatLessThanWellFounded
<1>2. \A j, k \in Nat : <<j, k>> \in R <=> j < k
  BY DEF OpToRel
<1> HIDE DEF R
<1>3. PICK m \in T : \A k \in T : <<k, m>> \notin R
  BY <1>1, WFMin
<1>4. \A k \in T : ~(k < m)
  BY <1>2, <1>3
<1>5. \A a, b \in Nat : ~(b < a) => a <= b
  OBVIOUS
<1>6. QED
  BY <1>4, <1>5

\* What is sorted by distinct keys is determined by its elements.
LEMMA SortedUnique ==
  ASSUME NEW S, NEW key \in [S -> Nat], NEW t \in Seq(S), NEW u \in Seq(S),
         Range(t) = Range(u),
         \A m, n \in DOMAIN t : m < n => key[t[m]] < key[t[n]],
         \A m, n \in DOMAIN u : m < n => key[u[m]] < key[u[n]]
  PROVE  t = u
<1>1. /\ DOMAIN t = 1..Len(t) /\ Len(t) \in Nat
      /\ DOMAIN u = 1..Len(u) /\ Len(u) \in Nat
  BY LenProperties
<1>2. /\ \A n \in DOMAIN t : t[n] \in S /\ key[t[n]] \in Nat
      /\ \A n \in DOMAIN u : u[n] \in S /\ key[u[n]] \in Nat
  BY LenProperties
<1> DEFINE Differ == {n \in Nat : /\ n \in 1..Len(t) /\ n \in 1..Len(u)
                                  /\ t[n] # u[n]}
<1>3. Differ = {}
  <2> SUFFICES ASSUME Differ # {} PROVE FALSE
    OBVIOUS
  <2>1. PICK n \in Differ : \A m \in Differ : n <= m
    <3>1. Differ \in SUBSET Nat
      OBVIOUS
    <3> HIDE DEF Differ
    <3>2. QED
      BY <3>1, LeastNat
  <2>2. n \in 1..Len(t) /\ n \in 1..Len(u) /\ t[n] # u[n]
    BY <2>1
  <2>3. \A m \in 1..(n - 1) : t[m] = u[m]
    BY <1>1, <2>1, <2>2
  <2>4. PICK m \in DOMAIN u : u[m] = t[n]
    BY <1>1, <2>2 DEF Range
  <2>5. PICK k \in DOMAIN t : t[k] = u[n]
    BY <1>1, <2>2 DEF Range
  <2> HIDE DEF Differ
  <2>6. m > n
    <3>1. CASE m < n
      <4>1. m \in 1..(n - 1) /\ m \in DOMAIN t
        BY <1>1, <2>2, <2>4, <3>1
      <4>2. t[m] = t[n]
        BY <4>1, <2>3, <2>4
      <4>3. key[t[m]] < key[t[n]]
        BY <4>1, <3>1, <1>1, <2>2
      <4>4. QED
        BY <4>1, <4>2, <4>3, <1>2
    <3>2. m # n
      BY <2>2, <2>4
    <3>3. QED
      BY <1>1, <2>2, <2>4, <3>1, <3>2
  <2>7. k > n
    <3>1. CASE k < n
      <4>1. k \in 1..(n - 1) /\ k \in DOMAIN u
        BY <1>1, <2>2, <2>5, <3>1
      <4>2. u[k] = u[n]
        BY <4>1, <2>3, <2>5
      <4>3. key[u[k]] < key[u[n]]
        BY <4>1, <3>1, <1>1, <2>2
      <4>4. QED
        BY <4>1, <4>2, <4>3, <1>2
    <3>2. k # n
      BY <2>2, <2>5
    <3>3. QED
      BY <1>1, <2>2, <2>5, <3>1, <3>2
  <2>8. key[u[n]] < key[t[n]] /\ key[t[n]] < key[u[n]]
    BY <1>1, <2>2, <2>4, <2>5, <2>6, <2>7
  <2>9. QED
    BY <2>8, <1>1, <1>2, <2>2
<1>4. \A n \in Nat : (n \in 1..Len(t) /\ n \in 1..Len(u)) => t[n] = u[n]
  BY <1>3
<1> HIDE DEF Differ
<1>5. ~(Len(t) < Len(u))
  <2> SUFFICES ASSUME Len(t) < Len(u) PROVE FALSE
    OBVIOUS
  <2>1. Len(t) + 1 \in DOMAIN u
    BY <1>1
  <2>2. PICK k \in DOMAIN t : t[k] = u[Len(t) + 1]
    BY <2>1 DEF Range
  <2>3. k \in DOMAIN u /\ k < Len(t) + 1 /\ u[k] = t[k]
    BY <1>1, <1>4, <2>2
  <2>4. key[u[k]] < key[u[Len(t) + 1]]
    BY <2>1, <2>3
  <2>5. QED
    BY <2>1, <2>2, <2>3, <2>4, <1>2
<1>6. ~(Len(u) < Len(t))
  <2> SUFFICES ASSUME Len(u) < Len(t) PROVE FALSE
    OBVIOUS
  <2>1. Len(u) + 1 \in DOMAIN t
    BY <1>1
  <2>2. PICK k \in DOMAIN u : u[k] = t[Len(u) + 1]
    BY <2>1 DEF Range
  <2>3. k \in DOMAIN t /\ k < Len(u) + 1 /\ u[k] = t[k]
    BY <1>1, <1>4, <2>2
  <2>4. key[t[k]] < key[t[Len(u) + 1]]
    BY <2>1, <2>3
  <2>5. QED
    BY <2>1, <2>2, <2>3, <2>4, <1>2
<1>7. Len(t) = Len(u)
  <2>1. \A a, b \in Nat : ~(a < b) /\ ~(b < a) => a = b
    OBVIOUS
  <2>2. QED
    BY <2>1, <1>1, <1>5, <1>6
<1>8. \A n \in 1..Len(t) : t[n] = u[n]
  BY <1>1, <1>4, <1>7
<1>9. QED
  BY <1>7, <1>8, SeqEqual

\* A selection has the selected entries, none of them twice.
LEMMA SelectedFacts ==
  ASSUME NEW S, NEW s \in Seq(S), NEW places \in SUBSET DOMAIN s
  PROVE  /\ Selected(s, places) \in Seq(S)
         /\ Range(Selected(s, places)) = {s[k] : k \in places}
         /\ IsInjective(s) => IsInjective(Selected(s, places))
<1> DEFINE rank == [k \in places |-> 0]
           t == Selected(s, places)
<1>1. \A k \in places : rank[k] \in Nat
  OBVIOUS
<1>2. t = InOrder(s, places, rank)
  BY DEF Selected
<1> HIDE DEF rank, t
<1>3. /\ t \in Seq(S) /\ DOMAIN t = 1..Cardinality(places)
      /\ Range(t) = {s[k] : k \in places} /\ Sorts(t, s, places, rank)
  BY <1>1, <1>2, InOrderPermutes
<1>4. PICK p \in [DOMAIN t -> places] :
        /\ \A n \in DOMAIN t : t[n] = s[p[n]]
        /\ \A m, n \in DOMAIN t : p[m] = p[n] => m = n
  BY <1>3 DEF Sorts
<1>5. IsInjective(s) => IsInjective(t)
  BY <1>4 DEF IsInjective
<1>6. QED
  BY <1>3, <1>5 DEF t

\* What a loop over a slice without repetitions has still to look at.
LEMMA InjectiveTail ==
  ASSUME NEW S, NEW s \in Seq(S), s # <<>>, IsInjective(s)
  PROVE  /\ Tail(s) \in Seq(S) /\ IsInjective(Tail(s))
         /\ Head(s) \in Range(s)
         /\ Range(Tail(s)) = Range(s) \ {Head(s)}
<1>1. /\ Tail(s) \in Seq(S)
      /\ Len(s) \in Nat \ {0}
      /\ Len(Tail(s)) = Len(s) - 1
      /\ Head(s) = s[1]
      /\ \A k \in 1..(Len(s) - 1) : Tail(s)[k] = s[k + 1]
  BY HeadTailProperties, EmptySeq
<1>2. DOMAIN s = 1..Len(s) /\ DOMAIN Tail(s) = 1..(Len(s) - 1)
  BY <1>1, LenProperties
<1>3. \A j, k \in 1..Len(s) : s[j] = s[k] => j = k
  BY <1>2 DEF IsInjective
<1>4. IsInjective(Tail(s))
  <2> SUFFICES ASSUME NEW j \in 1..(Len(s) - 1), NEW k \in 1..(Len(s) - 1),
                      Tail(s)[j] = Tail(s)[k]
               PROVE  j = k
    BY <1>2 DEF IsInjective
  <2>1. j + 1 \in 1..Len(s) /\ k + 1 \in 1..Len(s)
    BY <1>1
  <2>2. s[j + 1] = s[k + 1]
    BY <1>1
  <2>3. j + 1 = k + 1
    BY <1>3, <2>1, <2>2
  <2>4. QED
    BY <2>3
<1>5. Head(s) \notin Range(Tail(s))
  <2> SUFFICES ASSUME NEW k \in 1..(Len(s) - 1), s[1] = Tail(s)[k]
               PROVE  FALSE
    BY <1>1, <1>2 DEF Range
  <2>1. k + 1 \in 1..Len(s) /\ 1 \in 1..Len(s) /\ s[1] = s[k + 1]
    BY <1>1
  <2>2. k + 1 = 1
    BY <1>3, <2>1
  <2>3. QED
    BY <2>2
<1>6. QED
  BY <1>1, <1>4, <1>5, RangeHeadTail

\* What is made of each element of a finite set is finite.
LEMMA FiniteImage ==
  ASSUME NEW S, IsFiniteSet(S), NEW f
  PROVE  IsFiniteSet({f[x] : x \in S})
<1> DEFINE T == {f[x] : x \in S}
           g == [x \in S |-> f[x]]
<1>1. g \in [S -> T] /\ \A t \in T : \E x \in S : g[x] = t
  OBVIOUS
<1> HIDE DEF g, T
<1>2. g \in Surjection(S, T)
  BY <1>1 DEF Surjection
<1>3. QED
  BY <1>2, FS_Surjection DEF T

\* A slice is one of its own elements.
LEMMA OwnSequence ==
  ASSUME NEW S, NEW s \in Seq(S)
  PROVE  s \in Seq(Range(s))
<1>1. Len(s) \in Nat /\ s \in [1..Len(s) -> S]
  BY LenProperties
<1>2. \A k \in 1..Len(s) : s[k] \in Range(s)
  BY <1>1 DEF Range
<1>3. s \in [1..Len(s) -> Range(s)]
  BY <1>1, <1>2
<1>4. QED
  BY <1>1, <1>3

\* A slice has finitely many elements.
LEMMA FiniteRange ==
  ASSUME NEW S, NEW s \in Seq(S)
  PROVE  IsFiniteSet(Range(s))
<1>1. DOMAIN s = 1..Len(s) /\ Len(s) \in Nat
  BY LenProperties
<1>2. Range(s) = {s[k] : k \in 1..Len(s)}
  BY <1>1 DEF Range
<1>3. IsFiniteSet(1..Len(s))
  BY <1>1, FS_Interval
<1>4. QED
  BY <1>2, <1>3, FiniteImage

\* A loop over the elements of a finite set looks at each of them.
LEMMA SetToSeqFacts ==
  ASSUME NEW S, IsFiniteSet(S)
  PROVE  /\ SetToSeq(S) \in Seq(S)
         /\ Range(SetToSeq(S)) = S
<1> DEFINE n == Cardinality(S)
           f == SetToSeq(S)
<1>1. n \in Nat /\ ExistsBijection(1..n, S)
  BY FS_CardinalityType
<1>2. \E g \in [1..n -> S] : IsInjective(g)
  BY <1>1 DEF ExistsBijection, Bijection, Injection, IsInjective
<1>3. f \in [1..n -> S] /\ IsInjective(f)
  BY <1>2 DEF SetToSeq
<1>4. f \in Injection(1..n, S)
  BY <1>3 DEF Injection, IsInjective
<1> HIDE DEF f
<1>5. Cardinality(1..n) = n
  BY <1>1, FS_Interval
<1>6. f \in Surjection(1..n, S)
  BY <1>4, <1>5, FS_Injection
<1>7. Range(f) = S
  BY <1>3, <1>6 DEF Surjection, Range
<1>8. f \in Seq(S)
  BY <1>1, <1>3
<1>9. QED
  BY <1>7, <1>8 DEF f
=============================================================================
