------------------------- MODULE BundleWrite_proofs -------------------------
(***************************************************************************)
(* Proofs about BundleFiles and BundleWrite, for every set of payloads,    *)
(* every order of the paths and however many runs.  SuccessComplete and    *)
(* ChecksumsHold need payloads without a path twice, which the run         *)
(* BundleCollision shows the code does not establish.                      *)
(***************************************************************************)
EXTENDS BundleWrite, SequenceLemmas

-----------------------------------------------------------------------------
(* The files of a bundle. *)

DistinctPaths(files) ==
  \A j, k \in DOMAIN files : files[j].path = files[k].path => j = k

\* A file of another path keeps the paths distinct.
LEMMA AppendDistinct ==
  ASSUME NEW S, NEW s \in Seq(S), NEW f \in S, DistinctPaths(s),
         \A g \in Range(s) : g.path # f.path
  PROVE  DistinctPaths(Append(s, f))
<1> DEFINE t == Append(s, f)
           N == Len(s)
<1>1. /\ N \in Nat /\ DOMAIN s = 1..N /\ DOMAIN t = 1..(N + 1)
      /\ t[N + 1] = f /\ \A k \in 1..N : t[k] = s[k]
  BY LenProperties, AppendProperties
<1>2. \A k \in 1..N : s[k].path # f.path
  BY <1>1 DEF Range
<1> HIDE DEF t, N
<1>3. SUFFICES ASSUME NEW j \in 1..(N + 1), NEW k \in 1..(N + 1), t[j].path = t[k].path
               PROVE  j = k
  BY <1>1 DEF DistinctPaths, t
<1>4. \A h \in 1..(N + 1) : h \in 1..N \/ h = N + 1
  BY <1>1
<1>5. CASE j \in 1..N /\ k \in 1..N
  BY <1>1, <1>3, <1>5 DEF DistinctPaths
<1>6. CASE j = N + 1 \/ k = N + 1
  BY <1>1, <1>2, <1>3, <1>4, <1>6
<1>7. QED
  BY <1>4, <1>5, <1>6

\* A listing has the files that are kept, each once, and sorted by path.
LEMMA ListingFacts ==
  ASSUME NEW S, NEW files \in Seq(S), PathsOf(files) \subseteq Paths,
         NEW kept \in SUBSET DOMAIN files
  PROVE  /\ Listing(files, kept) \in Seq(S)
         /\ Range(Listing(files, kept)) = {files[k] : k \in kept}
         /\ DistinctPaths(files) => DistinctPaths(Listing(files, kept))
         /\ \A m, k \in DOMAIN Listing(files, kept) : m <= k =>
              PathRank[Listing(files, kept)[m].path]
                <= PathRank[Listing(files, kept)[k].path]
<1> DEFINE rank == [k \in DOMAIN files |-> PathRank[files[k].path]]
           N == Cardinality(kept)
           t == Listing(files, kept)
<1>1. \A k \in kept : files[k].path \in Paths /\ rank[k] = PathRank[files[k].path]
  BY DEF PathsOf
<1>2. \A k \in kept : rank[k] \in Nat
  BY <1>1, PathsAssumption
<1>3. t = InOrder(files, kept, rank)
  BY DEF Listing
<1> HIDE DEF rank, t, N
<1>4. /\ t \in Seq(S) /\ DOMAIN t = 1..N /\ Range(t) = {files[k] : k \in kept}
      /\ Sorts(t, files, kept, rank)
  BY <1>2, <1>3, InOrderPermutes DEF N
<1>5. PICK p \in [1..N -> kept] :
        /\ \A k \in 1..N : t[k] = files[p[k]]
        /\ \A m, k \in 1..N : p[m] = p[k] => m = k
        /\ \A m, k \in 1..N : m <= k => rank[p[m]] <= rank[p[k]]
  BY <1>4 DEF Sorts, N
<1>6. \A k \in 1..N : p[k] \in kept /\ p[k] \in DOMAIN files
  BY <1>5
<1>7. DistinctPaths(files) => DistinctPaths(t)
  BY <1>4, <1>5, <1>6 DEF DistinctPaths
<1>8. \A m, k \in DOMAIN t : m <= k => PathRank[t[m].path] <= PathRank[t[k].path]
  BY <1>1, <1>4, <1>5, <1>6
<1>9. QED
  BY <1>4, <1>7, <1>8 DEF t

\* The steps of renderArtifacts.
Provenance(p) ==
  File("provenance.json",
       [text |-> "provenance", digest |-> BundleDigest(p), lines |-> <<>>])
Proven(p) == Append(p, Provenance(p))
Manifest(p) ==
  File("bundle.manifest.json", BuildManifest(Proven(p), BundleDigest(p)))
Listed(p) == Append(Proven(p), Manifest(p))
Sums(p) == File("checksums.txt", Checksums(Listed(p)))

\* The files before the last sort.
All(p) == Append(Listed(p), Sums(p))

\* A list of files at paths a bundle may have.
Files(s) == s \in Seq(Range(s)) /\ PathsOf(s) \subseteq Paths

LEMMA StepFacts ==
  ASSUME NEW p \in Payloads
  PROVE  /\ Files(p) /\ Files(Proven(p)) /\ Files(Listed(p)) /\ Files(All(p))
         /\ Range(Proven(p)) = Range(p) \cup {Provenance(p)}
         /\ Range(Listed(p)) = Range(p) \cup {Provenance(p), Manifest(p)}
         /\ Range(All(p)) = Range(p) \cup {Provenance(p), Manifest(p), Sums(p)}
         /\ \A f \in Range(Listed(p)) : f.path # "checksums.txt"
         /\ DistinctPaths(p) => /\ DistinctPaths(Proven(p))
                                /\ DistinctPaths(Listed(p))
                                /\ DistinctPaths(All(p))
<1> DEFINE S == Range(p) \cup {Provenance(p), Manifest(p), Sums(p)}
           q == Proven(p)
           l == Listed(p)
           a == All(p)
<1>1. p \in Seq(Range(p)) /\ PathsOf(p) \subseteq Paths \ (SelfReferential \cup {".env"})
  BY BundlesAssumption
<1>2. p \in Seq(S)
  <2>1. \A T, U : T \subseteq U => Seq(T) \subseteq Seq(U)
    OBVIOUS
  <2>2. QED
    BY <1>1, <2>1
<1>3. Provenance(p) \in S /\ Manifest(p) \in S /\ Sums(p) \in S
  OBVIOUS
<1>4. /\ Provenance(p).path = "provenance.json"
      /\ Manifest(p).path = "bundle.manifest.json"
      /\ Sums(p).path = "checksums.txt"
  BY DEF Provenance, Manifest, Sums, File
<1>5. /\ q = Append(p, Provenance(p)) /\ l = Append(q, Manifest(p))
      /\ a = Append(l, Sums(p))
  BY DEF Proven, Listed, All
<1> HIDE DEF S, q, l, a
<1>6. \A s \in Seq(S), f \in S :
        Append(s, f) \in Seq(S) /\ Range(Append(s, f)) = Range(s) \cup {f}
  BY RangeAppend
<1>7. q \in Seq(S) /\ Range(q) = Range(p) \cup {Provenance(p)}
  BY <1>2, <1>3, <1>5, <1>6
<1>8. l \in Seq(S) /\ Range(l) = Range(q) \cup {Manifest(p)}
  BY <1>3, <1>5, <1>6, <1>7
<1>9. a \in Seq(S) /\ Range(a) = Range(l) \cup {Sums(p)}
  BY <1>3, <1>5, <1>6, <1>8
<1>10. \A s \in Seq(S) : Files(s)
  <2> SUFFICES ASSUME NEW s \in Seq(S) PROVE Files(s)
    OBVIOUS
  <2>1. \A f \in S : f.path \in Paths
    BY <1>1, <1>4, PathsAssumption DEF S, PathsOf, Range, SelfReferential
  <2>2. /\ DOMAIN s = 1..Len(s) /\ Len(s) \in Nat /\ s \in [1..Len(s) -> S]
        /\ \A k \in DOMAIN s : s[k] \in S
    BY LenProperties
  <2>3. \A k \in 1..Len(s) : s[k] \in Range(s)
    BY <2>2 DEF Range
  <2>4. s \in Seq(Range(s))
    BY <2>2, <2>3, SeqDef
  <2>5. QED
    BY <2>1, <2>2, <2>4 DEF PathsOf, Files
<1>11. \A f \in Range(l) : f.path # "checksums.txt"
  BY <1>1, <1>4, <1>7, <1>8 DEF PathsOf, Range, SelfReferential
<1>12. ASSUME DistinctPaths(p)
       PROVE  DistinctPaths(q) /\ DistinctPaths(l) /\ DistinctPaths(a)
  <2>1. \A f \in Range(p) : f.path \notin SelfReferential
    BY <1>1 DEF PathsOf, Range
  <2>2. DistinctPaths(q)
    <3>1. \A f \in Range(p) : f.path # Provenance(p).path
      BY <2>1, <1>4 DEF SelfReferential
    <3>2. QED
      BY <3>1, <1>2, <1>3, <1>5, <1>12, AppendDistinct
  <2>3. DistinctPaths(l)
    <3>1. \A f \in Range(q) : f.path # Manifest(p).path
      BY <2>1, <1>4, <1>7 DEF SelfReferential
    <3>2. QED
      BY <3>1, <2>2, <1>3, <1>5, <1>7, AppendDistinct
  <2>4. DistinctPaths(a)
    <3>1. \A f \in Range(l) : f.path # Sums(p).path
      BY <1>4, <1>11
    <3>2. QED
      BY <3>1, <2>3, <1>3, <1>5, <1>8, AppendDistinct
  <2>5. QED
    BY <2>2, <2>3, <2>4
<1>13. QED
  BY <1>2, <1>7, <1>8, <1>9, <1>10, <1>11, <1>12 DEF q, l, a

\* What is in the bundle of a payload, and what its checksums.txt says of it.
LEMMA RenderFacts ==
  ASSUME NEW p \in Payloads
  PROVE  /\ renderArtifacts(p) \in Seq(Range(renderArtifacts(p)))
         /\ Range(renderArtifacts(p))
              = Range(p) \cup {Provenance(p), Manifest(p), Sums(p)}
         /\ Range(Sums(p).content.lines) = Range(p) \cup {Provenance(p), Manifest(p)}
         /\ DistinctPaths(p) => DistinctPaths(renderArtifacts(p))
<1> DEFINE l == Listed(p)
           a == All(p)
<1>1. /\ l \in Seq(Range(l)) /\ PathsOf(l) \subseteq Paths
      /\ a \in Seq(Range(a)) /\ PathsOf(a) \subseteq Paths
      /\ Range(l) = Range(p) \cup {Provenance(p), Manifest(p)}
      /\ Range(a) = Range(p) \cup {Provenance(p), Manifest(p), Sums(p)}
      /\ \A f \in Range(l) : f.path # "checksums.txt"
      /\ DistinctPaths(p) => DistinctPaths(a)
  BY StepFacts DEF Files
<1>2. renderArtifacts(p) = Normalize(a)
  BY DEF renderArtifacts, Provenance, Proven, Manifest, Listed, Sums, All
<1>3. Sums(p).content.lines = Digests(l)
  BY DEF Sums, File, Checksums
<1> HIDE DEF l, a
<1>4. /\ Normalize(a) \in Seq(Range(a)) /\ Range(Normalize(a)) = Range(a)
      /\ DistinctPaths(a) => DistinctPaths(Normalize(a))
  <2> DEFINE D == DOMAIN a
  <2>1. {a[k] : k \in D} = Range(a) /\ D \in SUBSET DOMAIN a
    BY DEF Range
  <2> HIDE DEF D
  <2>2. /\ Listing(a, D) \in Seq(Range(a)) /\ Range(Listing(a, D)) = Range(a)
        /\ DistinctPaths(a) => DistinctPaths(Listing(a, D))
    BY <2>1, <1>1, ListingFacts
  <2>3. QED
    BY <2>2 DEF Normalize, D
<1>5. Range(Digests(l)) = Range(l)
  <2> DEFINE kept == {k \in DOMAIN l : l[k].path # "checksums.txt"}
  <2>1. Range(Digests(l)) = {l[k] : k \in kept}
    BY <1>1, ListingFacts DEF Digests
  <2>2. kept = DOMAIN l
    BY <1>1 DEF Range
  <2>3. Range(l) = {l[k] : k \in DOMAIN l}
    BY DEF Range
  <2>4. QED
    BY <2>1, <2>2, <2>3
<1>6. QED
  BY <1>1, <1>2, <1>3, <1>4, <1>5

\* A listing of files of distinct paths is strictly sorted.
LEMMA ListingStrict ==
  ASSUME NEW S, NEW files \in Seq(S), PathsOf(files) \subseteq Paths,
         NEW kept \in SUBSET DOMAIN files, DistinctPaths(files)
  PROVE  \A m, k \in DOMAIN Listing(files, kept) : m < k =>
           /\ Listing(files, kept)[m].path \in Paths
           /\ Listing(files, kept)[k].path \in Paths
           /\ PathRank[Listing(files, kept)[m].path]
                < PathRank[Listing(files, kept)[k].path]
<1> DEFINE t == Listing(files, kept)
<1>1. /\ t \in Seq(S) /\ Range(t) = {files[k] : k \in kept} /\ DistinctPaths(t)
      /\ \A m, k \in DOMAIN t : m <= k => PathRank[t[m].path] <= PathRank[t[k].path]
  BY ListingFacts
<1> HIDE DEF t
<1>2. \A m \in DOMAIN t : m \in Nat /\ t[m].path \in Paths
  <2>1. \A m \in DOMAIN t : m \in Nat
    BY <1>1, LenProperties
  <2>2. \A k \in kept : files[k].path \in Paths
    BY DEF PathsOf
  <2>3. \A m \in DOMAIN t : \E k \in kept : t[m] = files[k]
    BY <1>1 DEF Range
  <2>4. QED
    BY <2>1, <2>2, <2>3
<1>3. ASSUME NEW m \in DOMAIN t, NEW k \in DOMAIN t, m < k
      PROVE  PathRank[t[m].path] < PathRank[t[k].path]
  <2>1. PathRank[t[m].path] <= PathRank[t[k].path]
    BY <1>1, <1>2, <1>3
  <2>2. t[m].path # t[k].path
    BY <1>1, <1>2, <1>3 DEF DistinctPaths
  <2>3. /\ PathRank[t[m].path] # PathRank[t[k].path]
        /\ PathRank[t[m].path] \in Nat /\ PathRank[t[k].path] \in Nat
    BY <1>2, <2>2, PathsAssumption
  <2>4. QED
    BY <2>1, <2>3
<1>4. QED
  BY <1>2, <1>3 DEF t

\* It depends on the files that are listed and not on the order they came in.
LEMMA ListingDetermined ==
  ASSUME NEW f, NEW g, Files(f), Files(g), Range(f) = Range(g),
         DistinctPaths(f), DistinctPaths(g),
         NEW K \in SUBSET DOMAIN f, NEW L \in SUBSET DOMAIN g,
         {f[k] : k \in K} = {g[k] : k \in L}
  PROVE  Listing(f, K) = Listing(g, L)
<1> DEFINE S == Range(f)
           key == [x \in S |-> IF x.path \in Paths THEN PathRank[x.path] ELSE 0]
           t == Listing(f, K)
           u == Listing(g, L)
<1>1. key \in [S -> Nat]
  BY PathsAssumption
<1>2. /\ t \in Seq(S) /\ u \in Seq(S) /\ Range(t) = Range(u)
      /\ \A m, k \in DOMAIN t : m < k =>
           /\ t[m].path \in Paths /\ t[k].path \in Paths
           /\ PathRank[t[m].path] < PathRank[t[k].path]
      /\ \A m, k \in DOMAIN u : m < k =>
           /\ u[m].path \in Paths /\ u[k].path \in Paths
           /\ PathRank[u[m].path] < PathRank[u[k].path]
  <2>1. /\ f \in Seq(S) /\ PathsOf(f) \subseteq Paths
        /\ g \in Seq(S) /\ PathsOf(g) \subseteq Paths
    BY DEF Files
  <2> HIDE DEF S
  <2>2. t \in Seq(S) /\ Range(t) = {f[k] : k \in K}
    BY <2>1, ListingFacts
  <2>3. u \in Seq(S) /\ Range(u) = {g[k] : k \in L}
    BY <2>1, ListingFacts
  <2>4. QED
    BY <2>1, <2>2, <2>3, ListingStrict
<1> HIDE DEF t, u, S
<1>3. /\ \A m \in DOMAIN t : t[m] \in S
      /\ \A m \in DOMAIN u : u[m] \in S
  BY <1>2, LenProperties
<1>4. /\ \A m, k \in DOMAIN t : m < k => key[t[m]] < key[t[k]]
      /\ \A m, k \in DOMAIN u : m < k => key[u[m]] < key[u[k]]
  BY <1>2, <1>3
<1> HIDE DEF key
<1>5. QED
  BY <1>1, <1>2, <1>4, SortedUnique DEF t, u

\* What is computed from a list of files is computed from their set.
LEMMA SameFiles ==
  ASSUME NEW f, NEW g, Files(f), Files(g), Range(f) = Range(g),
         DistinctPaths(f), DistinctPaths(g)
  PROVE  /\ Normalize(f) = Normalize(g)
         /\ BundleDigest(f) = BundleDigest(g)
         /\ Digests(f) = Digests(g)
<1>1. \A x : (\E k \in DOMAIN f : x = f[k]) <=> (\E k \in DOMAIN g : x = g[k])
  BY DEF Range
<1>2. Normalize(f) = Normalize(g)
  <2> DEFINE K == DOMAIN f
             L == DOMAIN g
  <2>1. {f[k] : k \in K} = {g[k] : k \in L}
    BY <1>1
  <2>2. K \in SUBSET DOMAIN f /\ L \in SUBSET DOMAIN g
    OBVIOUS
  <2> HIDE DEF K, L
  <2>3. Listing(f, K) = Listing(g, L)
    BY <2>1, <2>2, ListingDetermined
  <2>4. QED
    BY <2>3 DEF Normalize, K, L
<1>3. BundleDigest(f) = BundleDigest(g)
  <2> DEFINE K == {k \in DOMAIN f : f[k].path \notin SelfReferential}
             L == {k \in DOMAIN g : g[k].path \notin SelfReferential}
  <2>1. {f[k] : k \in K} = {g[k] : k \in L}
    BY <1>1
  <2>2. K \in SUBSET DOMAIN f /\ L \in SUBSET DOMAIN g
    OBVIOUS
  <2> HIDE DEF K, L
  <2>3. Listing(f, K) = Listing(g, L)
    BY <2>1, <2>2, ListingDetermined
  <2>4. QED
    BY <2>3 DEF BundleDigest, K, L
<1>4. Digests(f) = Digests(g)
  <2> DEFINE K == {k \in DOMAIN f : f[k].path # "checksums.txt"}
             L == {k \in DOMAIN g : g[k].path # "checksums.txt"}
  <2>1. {f[k] : k \in K} = {g[k] : k \in L}
    BY <1>1
  <2>2. K \in SUBSET DOMAIN f /\ L \in SUBSET DOMAIN g
    OBVIOUS
  <2> HIDE DEF K, L
  <2>3. Listing(f, K) = Listing(g, L)
    BY <2>1, <2>2, ListingDetermined
  <2>4. QED
    BY <2>3 DEF Digests, K, L
<1>5. QED
  BY <1>2, <1>3, <1>4

\* "Artifacts exclude ... unordered map iteration" (docs/adrs/ADR-0006-
\* deterministic-compilation.md:9), for the tail of the rendering: the order
\* in which the renderer lists the files of a payload is not in the bundle, nor
\* in its digests, its manifest and its checksums.
THEOREM BundleOfASet ==
  ASSUME NEW p \in Payloads, NEW q \in Payloads,
         DistinctPaths(p), DistinctPaths(q), Range(p) = Range(q)
  PROVE  renderArtifacts(p) = renderArtifacts(q)
<1>1. Provenance(p) = Provenance(q)
  <2>1. BundleDigest(p) = BundleDigest(q)
    BY SameFiles, StepFacts
  <2>2. QED
    BY <2>1 DEF Provenance
<1>2. Manifest(p) = Manifest(q)
  <2>1. Range(Proven(p)) = Range(Proven(q))
    BY <1>1, StepFacts
  <2>2. Digests(Proven(p)) = Digests(Proven(q))
    BY <2>1, SameFiles, StepFacts
  <2>3. BundleDigest(p) = BundleDigest(q)
    BY SameFiles, StepFacts
  <2>4. QED
    BY <2>2, <2>3 DEF Manifest, BuildManifest
<1>3. Sums(p) = Sums(q)
  <2>1. Range(Listed(p)) = Range(Listed(q))
    BY <1>1, <1>2, StepFacts
  <2>2. Digests(Listed(p)) = Digests(Listed(q))
    BY <2>1, SameFiles, StepFacts
  <2>3. QED
    BY <2>2 DEF Sums, Checksums
<1>4. Normalize(All(p)) = Normalize(All(q))
  <2>1. Range(All(p)) = Range(All(q))
    BY <1>1, <1>2, <1>3, StepFacts
  <2>2. QED
    BY <2>1, SameFiles, StepFacts
<1>5. \A x \in Payloads : renderArtifacts(x) = Normalize(All(x))
  BY DEF renderArtifacts, Provenance, Proven, Manifest, Listed, Sums, All
<1>6. QED
  BY <1>4, <1>5

-----------------------------------------------------------------------------
(* The invariant. *)

\* WriteFiles has been given the bundle of some payload, or nothing yet.
Rendered ==
  IF result = "none" THEN pc = "idle" /\ bundle = <<>>
                     ELSE \E p \in Payloads : bundle = renderArtifacts(p)

\* The loop is at a file, or past the last one; its result is that of a run
\* that is over.
LoopSound ==
  /\ pc # "idle" => result = "running"
  /\ pc = "fill" => n <= Len(bundle)

\* A checksums.txt that is whole is that of a payload.
SumsFrom ==
  dir["checksums.txt"] \in {Absent, Torn} \cup {Sums(p).content : p \in Payloads}

\* secrets init goes on only if it may.
MayWrite == secretsPc # "idle" => (saw = Absent \/ force)

IInv == TypeOK /\ Rendered /\ LoopSound /\ SumsFrom /\ MayWrite

\* What holds besides when no payload has a path twice: the files the loop has
\* passed are whole.
Written ==
  pc # "idle" => \A k \in 1..(n - 1) : dir[bundle[k].path] = bundle[k].content

WInv == Written /\ SuccessComplete

NoPathTwice == \A p \in Payloads : DistinctPaths(p)

-----------------------------------------------------------------------------
(* The invariant is inductive. *)

\* The paths and texts of a rendered bundle.
LEMMA RenderPaths ==
  ASSUME NEW p \in Payloads
  PROVE  /\ \A f \in Range(renderArtifacts(p)) :
              /\ f.path \in Paths /\ f.path # ".env"
              /\ f.content.text \in BundleTexts
              /\ f.path = "checksums.txt" => f = Sums(p)
         /\ Sums(p) \in Range(renderArtifacts(p)) /\ Sums(p).path = "checksums.txt"
<1>1. \A f \in Range(p) :
        f.path \in Paths /\ f.path # ".env" /\ f.path \notin SelfReferential
  BY BundlesAssumption DEF PathsOf, Range
<1>2. \A f \in Range(p) : f.content.text \in BundleTexts
  BY DEF BundleTexts
<1>3. \A f \in {Provenance(p), Manifest(p), Sums(p)} :
        /\ f.path \in SelfReferential
        /\ f.content.text \in BundleTexts
  BY DEF Provenance, Manifest, Sums, File, BuildManifest, Checksums,
         SelfReferential, BundleTexts
<1>4. /\ Provenance(p).path = "provenance.json"
      /\ Manifest(p).path = "bundle.manifest.json"
      /\ Sums(p).path = "checksums.txt"
  BY DEF Provenance, Manifest, Sums, File
<1>5. SelfReferential \subseteq Paths /\ ".env" \notin SelfReferential
  BY PathsAssumption DEF SelfReferential
<1>6. "checksums.txt" \in SelfReferential
  BY DEF SelfReferential
<1>7. Range(renderArtifacts(p)) = Range(p) \cup {Provenance(p), Manifest(p), Sums(p)}
  BY RenderFacts
<1>8. QED
  BY <1>1, <1>2, <1>3, <1>4, <1>5, <1>6, <1>7

\* The bundle at hand.
LEMMA BundleFacts ==
  ASSUME IInv
  PROVE  /\ DOMAIN bundle = 1..Len(bundle) /\ Len(bundle) \in Nat
         /\ \A k \in 1..Len(bundle) :
              /\ bundle[k].path \in Paths /\ bundle[k].path # ".env"
              /\ bundle[k].content.text \in BundleTexts
              /\ bundle[k].path = "checksums.txt" =>
                   \E p \in Payloads : bundle[k].content = Sums(p).content
<1>1. bundle \in Seq(Range(bundle))
  <2>1. CASE result = "none"
    BY <2>1 DEF IInv, Rendered
  <2>2. CASE result # "none"
    BY <2>2, RenderFacts DEF IInv, Rendered
  <2>3. QED
    BY <2>1, <2>2
<1>2. DOMAIN bundle = 1..Len(bundle) /\ Len(bundle) \in Nat
  BY <1>1, LenProperties
<1>3. ASSUME NEW f \in Range(bundle)
      PROVE  /\ f.path \in Paths /\ f.path # ".env"
             /\ f.content.text \in BundleTexts
             /\ f.path = "checksums.txt" =>
                  \E p \in Payloads : f.content = Sums(p).content
  <2>1. CASE result = "none"
    BY <2>1, RangeEmpty DEF IInv, Rendered
  <2>2. CASE result # "none"
    <3>1. PICK p \in Payloads : bundle = renderArtifacts(p)
      BY <2>2 DEF IInv, Rendered
    <3>2. QED
      BY <3>1, RenderPaths
  <2>3. QED
    BY <2>1, <2>2
<1>4. \A k \in 1..Len(bundle) : bundle[k] \in Range(bundle)
  BY <1>2 DEF Range
<1>5. QED
  BY <1>2, <1>3, <1>4

LEMMA InitIInv == Init => IInv /\ WInv
<1> SUFFICES ASSUME Init PROVE IInv /\ WInv
  OBVIOUS
<1>1. Range(bundle) = {} /\ Len(bundle) = 0
  BY RangeEmpty DEF Init
<1>2. /\ Absent.text = "absent" /\ Own.text = "own"
  BY DEF Absent, Own, Text
<1>3. \A p \in Paths : dir[p] = Absent \/ (p = ".env" /\ dir[p] = Own)
  BY DEF Init
<1>4. DOMAIN dir = Paths /\ ".env" \in Paths /\ "checksums.txt" \in Paths
  BY BundlesAssumption, PathsAssumption DEF Init, SelfReferential
<1>5. TypeOK
  <2>1. \A p \in Paths \ {".env"} : dir[p].text = "absent"
    BY <1>2, <1>3
  <2>2. dir[".env"].text \in EnvTexts /\ saw.text \in EnvTexts
    BY <1>2, <1>3, <1>4 DEF EnvTexts, Init
  <2>3. runs \in 0..Runs /\ inits \in 0..Inits /\ n \in 1..(Len(bundle) + 1)
    BY <1>1, BundlesAssumption DEF Init
  <2>4. QED
    BY <1>1, <1>2, <1>4, <2>1, <2>2, <2>3 DEF TypeOK, Init
<1>6. Rendered /\ LoopSound /\ MayWrite
  BY DEF Init, Rendered, LoopSound, MayWrite
<1>7. SumsFrom
  BY <1>3, <1>4 DEF SumsFrom
<1>8. WInv
  BY DEF Init, WInv, Written, SuccessComplete
<1>9. QED
  BY <1>5, <1>6, <1>7, <1>8 DEF IInv

\* A write of one of the bundle's files, whole or torn.
LEMMA FileWritten ==
  ASSUME IInv, NEW k \in 1..Len(bundle), NEW c \in {Torn, bundle[k].content},
         dir' = [dir EXCEPT ![bundle[k].path] = c]
  PROVE  /\ DOMAIN dir' = Paths
         /\ \A q \in Paths \ {".env"} :
              dir'[q].text \in BundleTexts \cup {"absent", "torn"}
         /\ dir'[".env"] = dir[".env"]
         /\ SumsFrom'
<1>1. /\ bundle[k].path \in Paths /\ bundle[k].path # ".env"
      /\ bundle[k].content.text \in BundleTexts
      /\ bundle[k].path = "checksums.txt" =>
           \E p \in Payloads : bundle[k].content = Sums(p).content
  BY BundleFacts
<1>2. DOMAIN dir = Paths /\ ".env" \in Paths /\ "checksums.txt" \in Paths
  BY BundlesAssumption, PathsAssumption DEF IInv, TypeOK, SelfReferential
<1>3. /\ DOMAIN dir' = Paths
      /\ dir'[bundle[k].path] = c
      /\ \A q \in Paths : q # bundle[k].path => dir'[q] = dir[q]
  BY <1>1, <1>2
<1>4. c.text \in BundleTexts \cup {"torn"}
  BY <1>1 DEF Torn, Text
<1>5. \A q \in Paths \ {".env"} : dir'[q].text \in BundleTexts \cup {"absent", "torn"}
  BY <1>3, <1>4 DEF IInv, TypeOK
<1>6. SumsFrom'
  <2>1. CASE bundle[k].path = "checksums.txt"
    BY <1>1, <1>3, <2>1 DEF SumsFrom
  <2>2. CASE bundle[k].path # "checksums.txt"
    BY <1>2, <1>3, <2>2 DEF IInv, SumsFrom
  <2>3. QED
    BY <2>1, <2>2
<1>7. QED
  BY <1>1, <1>2, <1>3, <1>5, <1>6

\* A write or removal of .env.
LEMMA EnvWritten ==
  ASSUME IInv, NEW c, c.text \in EnvTexts, dir' = [dir EXCEPT ![".env"] = c]
  PROVE  /\ DOMAIN dir' = Paths
         /\ \A q \in Paths \ {".env"} : dir'[q] = dir[q]
         /\ dir'[".env"].text \in EnvTexts
         /\ SumsFrom'
<1>1. DOMAIN dir = Paths /\ ".env" \in Paths /\ "checksums.txt" \in Paths
  BY BundlesAssumption, PathsAssumption DEF IInv, TypeOK, SelfReferential
<1>2. /\ DOMAIN dir' = Paths /\ dir'[".env"] = c
      /\ \A q \in Paths \ {".env"} : dir'[q] = dir[q]
  BY <1>1
<1>3. QED
  BY <1>1, <1>2 DEF IInv, SumsFrom

\* Each step of generate keeps the invariant.
LEMMA GenerateIInv ==
  ASSUME IInv, Generate
  PROVE  IInv'
<1> USE DEF IInv
<1>1. /\ UNCHANGED <<secretsPc, saw, force, example, secretsResult, inits>>
  BY DEF Generate, secretsVars
<1>2. MayWrite'
  BY <1>1 DEF MayWrite
<1>3. DOMAIN bundle = 1..Len(bundle) /\ Len(bundle) \in Nat
  BY BundleFacts
<1>4. ASSUME NEW p \in Payloads, Start(p) PROVE IInv'
  <2>1. /\ bundle' = renderArtifacts(p) /\ pc' = "next" /\ n' = 1
        /\ ctxDone' = FALSE /\ result' = "running" /\ runs' = runs + 1
        /\ dir' = dir /\ runs < Runs
    BY <1>4 DEF Start
  <2>2. Len(bundle') \in Nat
    BY <2>1, RenderFacts, LenProperties
  <2>3. \A f \in Range(bundle') : f.path \in Paths /\ f.content.text \in BundleTexts
    BY <2>1, RenderPaths
  <2>4. runs' \in 0..Runs
    BY <2>1, BundlesAssumption DEF TypeOK
  <2>5. TypeOK'
    <3>1. n' \in 1..(Len(bundle') + 1)
      BY <2>1, <2>2
    <3> HIDE <1>4
    <3>2. QED
      BY <3>1, <2>1, <2>3, <2>4, <1>1 DEF TypeOK
  <2>6. Rendered' /\ LoopSound' /\ SumsFrom'
    BY <2>1 DEF Rendered, LoopSound, SumsFrom
  <2>7. QED
    BY <2>5, <2>6, <1>2
<1>5. ASSUME pc # "idle", UNCHANGED dir, NEW outcome \in {"ok", "failed", "killed"},
             Finish(outcome)
      PROVE  IInv'
  <2>1. TypeOK'
    BY <1>1, <1>5 DEF Finish, TypeOK
  <2>2. Rendered' /\ LoopSound' /\ SumsFrom'
    BY <1>5 DEF Finish, Rendered, LoopSound, SumsFrom
  <2>3. QED
    BY <2>1, <2>2, <1>2
<1>6. CASE StopCancelled \/ Succeed \/ WriteError \/ Crash
  BY <1>5, <1>6 DEF StopCancelled, Succeed, WriteError, Crash
<1>7. CASE Open
  <2>1. /\ n \in 1..Len(bundle) /\ dir' = [dir EXCEPT ![bundle[n].path] = Torn]
        /\ pc' = "fill" /\ pc = "next"
        /\ UNCHANGED <<bundle, n, ctxDone, result, runs>>
    BY <1>3, <1>7 DEF Open, TypeOK
  <2>2. /\ DOMAIN dir' = Paths /\ dir'[".env"] = dir[".env"] /\ SumsFrom'
        /\ \A q \in Paths \ {".env"} :
             dir'[q].text \in BundleTexts \cup {"absent", "torn"}
    BY <2>1, FileWritten
  <2>3. TypeOK'
    BY <1>1, <2>1, <2>2 DEF TypeOK
  <2>4. Rendered' /\ LoopSound'
    BY <2>1, <1>3 DEF Rendered, LoopSound
  <2>5. QED
    BY <2>2, <2>3, <2>4, <1>2
<1>8. CASE Fill
  <2>1. /\ n \in 1..Len(bundle)
        /\ dir' = [dir EXCEPT ![bundle[n].path] = bundle[n].content]
        /\ pc' = "next" /\ pc = "fill" /\ n' = n + 1
        /\ UNCHANGED <<bundle, ctxDone, result, runs>>
    BY <1>3, <1>8 DEF Fill, TypeOK, LoopSound
  <2>2. /\ DOMAIN dir' = Paths /\ dir'[".env"] = dir[".env"] /\ SumsFrom'
        /\ \A q \in Paths \ {".env"} :
             dir'[q].text \in BundleTexts \cup {"absent", "torn"}
    BY <2>1, FileWritten
  <2>3. n' \in 1..(Len(bundle) + 1)
    BY <2>1, <1>3
  <2>4. TypeOK'
    BY <1>1, <2>1, <2>2, <2>3 DEF TypeOK
  <2>5. Rendered' /\ LoopSound'
    BY <2>1 DEF Rendered, LoopSound
  <2>6. QED
    BY <2>2, <2>4, <2>5, <1>2
<1>9. CASE Cancel
  <2>1. TypeOK'
    BY <1>1, <1>9 DEF Cancel, TypeOK
  <2>2. Rendered' /\ LoopSound' /\ SumsFrom'
    BY <1>9 DEF Cancel, Rendered, LoopSound, SumsFrom
  <2>3. QED
    BY <2>1, <2>2, <1>2
<1>10. QED
  BY <1>4, <1>6, <1>7, <1>8, <1>9 DEF Generate, WriteFiles

\* Each step of secrets init keeps the invariant.
LEMMA SecretsIInv ==
  ASSUME IInv, cmdSecrets
  PROVE  IInv'
<1> USE DEF IInv
<1>1. UNCHANGED <<pc, bundle, n, ctxDone, result, runs>>
  BY DEF cmdSecrets, generateVars
<1>2. Rendered' /\ LoopSound'
  BY <1>1 DEF Rendered, LoopSound
<1>3. {".env", ".env.example"} \subseteq Paths
  BY BundlesAssumption
<1>4. ASSUME NEW replace \in BOOLEAN, LookAtEnv(replace) PROVE IInv'
  <2>1. inits' \in 0..Inits
    BY <1>4, BundlesAssumption DEF LookAtEnv, TypeOK
  <2>2. TypeOK'
    BY <1>1, <1>4, <2>1 DEF LookAtEnv, TypeOK
  <2>3. SumsFrom' /\ MayWrite'
    BY <1>4 DEF LookAtEnv, SumsFrom, MayWrite
  <2>4. QED
    BY <1>2, <2>2, <2>3
<1>5. ASSUME secretsPc # "idle", UNCHANGED dir, NEW outcome \in {"ok", "failed"},
             EndSecrets(outcome)
      PROVE  IInv'
  <2>1. TypeOK'
    BY <1>1, <1>5 DEF EndSecrets, TypeOK
  <2>2. SumsFrom' /\ MayWrite'
    BY <1>5 DEF EndSecrets, SumsFrom, MayWrite
  <2>3. QED
    BY <1>2, <2>1, <2>2
<1>6. CASE ReadExample
  <2>1. CASE dir[".env.example"] = Absent
    BY <1>5, <1>6, <2>1 DEF ReadExample
  <2>2. CASE dir[".env.example"] # Absent
    <3>1. dir[".env.example"].text \in BundleTexts \cup {"absent", "torn"}
      BY <1>3 DEF TypeOK
    <3>2. TypeOK'
      BY <1>1, <1>6, <2>2, <3>1 DEF ReadExample, TypeOK
    <3>3. SumsFrom' /\ MayWrite'
      BY <1>6, <2>2 DEF ReadExample, SumsFrom, MayWrite
    <3>4. QED
      BY <1>2, <3>2, <3>3
  <2>3. QED
    BY <2>1, <2>2
<1>7. ASSUME NEW c, c.text \in EnvTexts, dir' = [dir EXCEPT ![".env"] = c],
             secretsPc \in {"write", "fill"}, secretsPc' \in {"fill", "chmod"},
             UNCHANGED <<saw, force, example, secretsResult, inits>>
      PROVE  IInv'
  <2>1. /\ DOMAIN dir' = Paths /\ dir'[".env"].text \in EnvTexts /\ SumsFrom'
        /\ \A q \in Paths \ {".env"} : dir'[q] = dir[q]
    BY <1>7, EnvWritten
  <2>2. TypeOK'
    BY <1>1, <1>7, <2>1 DEF TypeOK
  <2>3. MayWrite'
    BY <1>7 DEF MayWrite
  <2>4. QED
    BY <1>2, <2>1, <2>2, <2>3
<1>8. Torn.text \in EnvTexts /\ Secrets(example).text \in EnvTexts
  BY DEF Torn, Text, Secrets, EnvTexts
<1>9. CASE OpenEnv
  BY <1>7, <1>8, <1>9 DEF OpenEnv
<1>10. CASE FillEnv
  BY <1>7, <1>8, <1>10 DEF FillEnv
<1>11. CASE ChangeMode \/ StopSecrets
  BY <1>5, <1>11 DEF ChangeMode, StopSecrets
<1>12. QED
  BY <1>4, <1>6, <1>9, <1>10, <1>11 DEF cmdSecrets

LEMMA OwnerIInv ==
  ASSUME IInv, OwnerEdits
  PROVE  IInv'
<1> USE DEF IInv
<1>1. /\ UNCHANGED <<pc, bundle, n, ctxDone, result, runs>>
      /\ UNCHANGED <<secretsPc, saw, force, example, secretsResult, inits>>
  BY DEF OwnerEdits, generateVars, secretsVars
<1>2. PICK c \in {Own, Absent} : dir' = [dir EXCEPT ![".env"] = c]
  BY DEF OwnerEdits
<1>3. c.text \in EnvTexts
  BY DEF Own, Absent, Text, EnvTexts
<1>4. /\ DOMAIN dir' = Paths /\ dir'[".env"].text \in EnvTexts /\ SumsFrom'
      /\ \A q \in Paths \ {".env"} : dir'[q] = dir[q]
  BY <1>2, <1>3, EnvWritten
<1>5. TypeOK'
  BY <1>1, <1>4 DEF TypeOK
<1>6. Rendered' /\ LoopSound' /\ MayWrite'
  BY <1>1 DEF Rendered, LoopSound, MayWrite
<1>7. QED
  BY <1>4, <1>5, <1>6

LEMMA StepIInv == IInv /\ [Next]_vars => IInv'
<1> SUFFICES ASSUME IInv, [Next]_vars PROVE IInv'
  OBVIOUS
<1>1. CASE Next
  BY <1>1, GenerateIInv, SecretsIInv, OwnerIInv DEF Next
<1>2. CASE UNCHANGED vars
  <2>1. /\ UNCHANGED <<dir, pc, bundle, n, ctxDone, result, runs>>
        /\ UNCHANGED <<secretsPc, saw, force, example, secretsResult, inits>>
    BY <1>2 DEF vars, generateVars, secretsVars
  <2>2. TypeOK'
    BY <2>1 DEF IInv, TypeOK
  <2>3. Rendered' /\ LoopSound' /\ SumsFrom' /\ MayWrite'
    BY <2>1 DEF IInv, Rendered, LoopSound, SumsFrom, MayWrite
  <2>4. QED
    BY <2>2, <2>3 DEF IInv
<1>3. QED
  BY <1>1, <1>2

LEMMA SpecIInv == Spec => []IInv
<1>1. QED
  BY InitIInv, StepIInv, PTL DEF Spec

-----------------------------------------------------------------------------
(* What follows for every set of payloads. *)

\* Every variable keeps its type, and no file of the directory has a text that
\* no payload, no tail of renderArtifacts and no secrets init has written.
THEOREM TypeCorrect == Spec => []TypeOK
<1>1. IInv => TypeOK
  BY DEF IInv
<1>2. QED
  BY <1>1, SpecIInv, PTL

\* However the runs of generate and of secrets init were cut short: if there is
\* a whole checksums.txt and all its lines are true, the bundle of some payload
\* is on disk whole.
THEOREM DamageDetected == Spec => []ChecksumsDetect
<1>1. IInv => ChecksumsDetect
  <2> SUFFICES ASSUME IInv, dir["checksums.txt"] \notin {Absent, Torn},
                      \A k \in DOMAIN dir["checksums.txt"].lines :
                        dir[dir["checksums.txt"].lines[k].path]
                          = dir["checksums.txt"].lines[k].content
               PROVE  \E p \in Payloads : \A f \in Range(renderArtifacts(p)) :
                        dir[f.path] = f.content
    BY DEF ChecksumsDetect
  <2>1. PICK p \in Payloads : dir["checksums.txt"] = Sums(p).content
    BY DEF IInv, SumsFrom
  <2>2. \A f \in Range(Sums(p).content.lines) : dir[f.path] = f.content
    BY <2>1 DEF Range
  <2>3. dir[Sums(p).path] = Sums(p).content
    BY <2>1, RenderPaths
  <2>4. \A f \in Range(renderArtifacts(p)) : dir[f.path] = f.content
    BY <2>2, <2>3, RenderFacts
  <2>5. QED
    BY <2>4
<1>2. QED
  BY <1>1, SpecIInv, PTL

\* No command takes a file that is not its own: generate only writes files of
\* its bundle, secrets init only .env, and that only if it was not there or with
\* --force.
THEOREM OthersLeftAlone == Spec => OthersKept
<1> DEFINE Kept ==
      /\ \A p \in Paths \ {".env"} : p \notin PathsOf(bundle') => dir'[p] = dir[p]
      /\ secretsPc = "idle" => dir'[".env"] \in {dir[".env"], Own, Absent}
      /\ dir'[".env"] \notin {dir[".env"], Own, Absent} =>
           /\ saw = Absent \/ force
           /\ dir'[".env"] \in {Torn, Secrets(example)}
<1>1. IInv /\ [Next]_vars => [Kept]_vars
  <2> SUFFICES ASSUME IInv, Next PROVE Kept
    OBVIOUS
  <2>1. DOMAIN dir = Paths /\ ".env" \in Paths
    BY BundlesAssumption DEF IInv, TypeOK
  <2>2. CASE dir' = dir
    BY <2>2
  <2>3. ASSUME NEW k \in 1..Len(bundle), NEW c,
               dir' = [dir EXCEPT ![bundle[k].path] = c], bundle' = bundle
        PROVE  Kept
    <3>1. /\ bundle[k].path \in Paths /\ bundle[k].path # ".env"
          /\ k \in DOMAIN bundle
      BY BundleFacts
    <3>2. bundle[k].path \in PathsOf(bundle')
      BY <3>1, <2>3 DEF PathsOf
    <3>3. dir'[".env"] = dir[".env"]
      BY <2>1, <2>3, <3>1
    <3>4. \A p \in Paths : p # bundle[k].path => dir'[p] = dir[p]
      BY <2>1, <2>3
    <3>5. QED
      BY <3>2, <3>3, <3>4
  <2>4. CASE Open \/ Fill
    <3>1. n \in 1..Len(bundle)
      BY <2>4, BundleFacts DEF Open, Fill, IInv, TypeOK, LoopSound
    <3>2. QED
      BY <2>3, <2>4, <3>1 DEF Open, Fill
  <2>5. ASSUME NEW c \in {Torn, Secrets(example)}, dir' = [dir EXCEPT ![".env"] = c],
               secretsPc # "idle"
        PROVE  Kept
    <3>1. dir'[".env"] = c /\ \A p \in Paths \ {".env"} : dir'[p] = dir[p]
      BY <2>1, <2>5
    <3>2. saw = Absent \/ force
      BY <2>5 DEF IInv, MayWrite
    <3>3. QED
      BY <2>5, <3>1, <3>2
  <2>6. CASE OpenEnv \/ FillEnv
    BY <2>5, <2>6 DEF OpenEnv, FillEnv
  <2>7. CASE OwnerEdits
    <3>1. PICK c \in {Own, Absent} : dir' = [dir EXCEPT ![".env"] = c]
      BY <2>7 DEF OwnerEdits
    <3>2. dir'[".env"] = c /\ \A p \in Paths \ {".env"} : dir'[p] = dir[p]
      BY <2>1, <3>1
    <3>3. QED
      BY <3>2
  <2>8. CASE Generate /\ ~(Open \/ Fill)
    BY <2>2, <2>8 DEF Generate, Start, WriteFiles, StopCancelled, Succeed, WriteError,
                      Cancel, Crash
  <2>9. CASE cmdSecrets /\ ~(OpenEnv \/ FillEnv)
    BY <2>2, <2>9 DEF cmdSecrets, LookAtEnv, ReadExample, ChangeMode, StopSecrets
  <2>10. QED
    BY <2>4, <2>6, <2>7, <2>8, <2>9 DEF Next
<1>2. QED
  BY <1>1, SpecIInv, PTL DEF Spec, OthersKept

-----------------------------------------------------------------------------
(* A bundle without a path twice. *)

LEMMA BundleDistinct ==
  ASSUME NoPathTwice, IInv
  PROVE  DistinctPaths(bundle)
<1>1. CASE result = "none"
  BY <1>1 DEF IInv, Rendered, DistinctPaths
<1>2. CASE result # "none"
  BY <1>2, RenderFacts DEF IInv, Rendered, NoPathTwice
<1>3. QED
  BY <1>1, <1>2

\* A step that leaves generate's variables and all files but .env as they are.
LEMMA BesideWInv ==
  ASSUME IInv, WInv, UNCHANGED <<pc, bundle, n, result>>,
         \A q \in Paths \ {".env"} : dir'[q] = dir[q]
  PROVE  WInv'
<1>1. /\ DOMAIN bundle = 1..Len(bundle) /\ Len(bundle) \in Nat
      /\ \A k \in 1..Len(bundle) : bundle[k].path \in Paths \ {".env"}
  BY BundleFacts
<1>2. n \in 1..(Len(bundle) + 1)
  BY DEF IInv, TypeOK
<1>3. \A k \in 1..(n - 1) : k \in 1..Len(bundle)
  BY <1>1, <1>2
<1>4. Written'
  BY <1>1, <1>3 DEF WInv, Written
<1>5. SuccessComplete'
  BY <1>1 DEF WInv, SuccessComplete, Range
<1>6. QED
  BY <1>4, <1>5 DEF WInv

LEMMA StepWInv ==
  ASSUME NoPathTwice
  PROVE  IInv /\ WInv /\ [Next]_vars => WInv'
<1> SUFFICES ASSUME IInv, WInv, [Next]_vars PROVE WInv'
  OBVIOUS
<1>1. /\ DOMAIN bundle = 1..Len(bundle) /\ Len(bundle) \in Nat
      /\ n \in 1..(Len(bundle) + 1)
      /\ DOMAIN dir = Paths /\ ".env" \in Paths
  BY BundleFacts, BundlesAssumption DEF IInv, TypeOK
<1>2. pc # "idle" => result = "running"
  BY DEF IInv, LoopSound
<1>3. ASSUME NEW p \in Payloads, Start(p) PROVE WInv'
  <2>1. n' = 1 /\ result' = "running"
    BY <1>3 DEF Start
  <2>2. QED
    BY <2>1 DEF WInv, Written, SuccessComplete
<1>4. CASE StopCancelled \/ WriteError \/ Crash
  BY <1>4 DEF StopCancelled, WriteError, Crash, Finish, WInv, Written, SuccessComplete
<1>5. CASE Succeed
  <2>1. /\ pc = "next" /\ n > Len(bundle) /\ pc' = "idle"
        /\ bundle' = bundle /\ dir' = dir
    BY <1>5 DEF Succeed, Finish
  <2>2. \A k \in 1..Len(bundle) : dir[bundle[k].path] = bundle[k].content
    BY <1>1, <2>1 DEF WInv, Written
  <2>3. \A f \in Range(bundle) : dir[f.path] = f.content
    BY <1>1, <2>2 DEF Range
  <2>4. QED
    BY <2>1, <2>3 DEF WInv, Written, SuccessComplete
<1>6. ASSUME n \in 1..Len(bundle), NEW c, dir' = [dir EXCEPT ![bundle[n].path] = c]
      PROVE  /\ dir'[bundle[n].path] = c
             /\ \A k \in 1..(n - 1) : dir'[bundle[k].path] = dir[bundle[k].path]
  <2>1. \A k \in 1..Len(bundle) : bundle[k].path \in Paths
    BY BundleFacts
  <2>2. \A k \in 1..(n - 1) : k \in 1..Len(bundle) /\ k # n
    BY <1>1, <1>6
  <2>3. \A k \in 1..(n - 1) : bundle[k].path # bundle[n].path
    BY <1>1, <1>6, <2>2, BundleDistinct DEF DistinctPaths
  <2>4. QED
    BY <1>1, <1>6, <2>1, <2>2, <2>3
<1>7. CASE Open
  <2>1. /\ n \in 1..Len(bundle) /\ dir' = [dir EXCEPT ![bundle[n].path] = Torn]
        /\ pc = "next" /\ UNCHANGED <<bundle, n, result>>
    BY <1>1, <1>7 DEF Open
  <2>2. \A k \in 1..(n - 1) : dir'[bundle[k].path] = dir[bundle[k].path]
    BY <1>6, <2>1
  <2>3. QED
    BY <1>2, <2>1, <2>2 DEF WInv, Written, SuccessComplete
<1>8. CASE Fill
  <2>1. /\ n \in 1..Len(bundle)
        /\ dir' = [dir EXCEPT ![bundle[n].path] = bundle[n].content]
        /\ pc = "fill" /\ n' = n + 1 /\ UNCHANGED <<bundle, result>>
    BY <1>1, <1>8 DEF Fill, IInv, LoopSound
  <2>2. /\ dir'[bundle[n].path] = bundle[n].content
        /\ \A k \in 1..(n - 1) : dir'[bundle[k].path] = dir[bundle[k].path]
    BY <1>6, <2>1
  <2>3. \A k \in 1..(n - 1) : dir[bundle[k].path] = bundle[k].content
    BY <2>1 DEF WInv, Written
  <2>4. \A k \in 1..(n' - 1) : k = n \/ k \in 1..(n - 1)
    BY <1>1, <2>1
  <2>5. \A k \in 1..(n' - 1) : dir'[bundle[k].path] = bundle[k].content
    BY <2>2, <2>3, <2>4
  <2>6. QED
    BY <1>2, <2>1, <2>5 DEF WInv, Written, SuccessComplete
<1>9. CASE Cancel
  BY <1>9, BesideWInv DEF Cancel
<1>10. CASE cmdSecrets \/ OwnerEdits
  <2>1. UNCHANGED <<pc, bundle, n, result>>
    BY <1>10 DEF cmdSecrets, OwnerEdits, generateVars
  <2>2. \A q \in Paths \ {".env"} : dir'[q] = dir[q]
    <3>1. dir' = dir \/ \E c : dir' = [dir EXCEPT ![".env"] = c]
      BY <1>10 DEF cmdSecrets, LookAtEnv, ReadExample, OpenEnv, FillEnv, ChangeMode,
                   StopSecrets, OwnerEdits
    <3>2. QED
      BY <1>1, <3>1
  <2>3. QED
    BY <2>1, <2>2, BesideWInv
<1>11. CASE UNCHANGED vars
  BY <1>11, BesideWInv DEF vars, generateVars
<1>12. QED
  BY <1>3, <1>4, <1>5, <1>7, <1>8, <1>9, <1>10, <1>11 DEF Next, Generate, WriteFiles

\* A run that reported success has left every file of its bundle on disk, whole,
\* whatever earlier runs, the other process and the owner of .env did.
THEOREM SuccessIsComplete ==
  ASSUME NoPathTwice
  PROVE  Spec => []SuccessComplete
<1>1. Init => WInv
  BY InitIInv
<1>2. IInv /\ WInv /\ [Next]_vars => WInv'
  BY StepWInv
<1>3. WInv => SuccessComplete
  BY DEF WInv
<1>4. QED
  BY <1>1, <1>2, <1>3, SpecIInv, PTL DEF Spec

\* After a run that reported success every line of checksums.txt is true of the
\* file on disk, and every other file of the bundle has a line.
THEOREM ChecksumsTrue ==
  ASSUME NoPathTwice
  PROVE  Spec => []ChecksumsHold
<1>1. IInv /\ SuccessComplete => ChecksumsHold
  <2> SUFFICES ASSUME IInv, SuccessComplete, result = "ok"
               PROVE  LET lines == dir["checksums.txt"].lines IN
                      /\ \A k \in DOMAIN lines : dir[lines[k].path] = lines[k].content
                      /\ PathsOf(lines) = PathsOf(bundle) \ {"checksums.txt"}
    BY DEF ChecksumsHold
  <2>1. PICK p \in Payloads : bundle = renderArtifacts(p)
    BY DEF IInv, Rendered
  <2> DEFINE lines == Sums(p).content.lines
  <2>2. /\ Range(bundle) = Range(lines) \cup {Sums(p)}
        /\ \A f \in Range(lines) : f.path # "checksums.txt"
    <3>1. \A f \in Range(p) : f.path \notin SelfReferential
      BY BundlesAssumption DEF PathsOf, Range
    <3>2. /\ Provenance(p).path # "checksums.txt"
          /\ Manifest(p).path # "checksums.txt"
      BY DEF Provenance, Manifest, File
    <3>3. QED
      BY <2>1, <3>1, <3>2, RenderFacts DEF SelfReferential
  <2>3. Sums(p).path = "checksums.txt"
    BY RenderPaths
  <2>4. dir["checksums.txt"].lines = lines
    BY <2>2, <2>3 DEF SuccessComplete
  <2> HIDE DEF lines
  <2>5. \A k \in DOMAIN lines : dir[lines[k].path] = lines[k].content
    BY <2>2 DEF SuccessComplete, Range
  <2>6. \A s : PathsOf(s) = {f.path : f \in Range(s)}
    BY DEF PathsOf, Range
  <2>7. PathsOf(lines) = PathsOf(bundle) \ {"checksums.txt"}
    BY <2>2, <2>3, <2>6
  <2>8. QED
    BY <2>4, <2>5, <2>7
<1>2. QED
  BY <1>1, SuccessIsComplete, SpecIInv, PTL
=============================================================================
