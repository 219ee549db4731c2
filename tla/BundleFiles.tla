----------------------------- MODULE BundleFiles -----------------------------
(***************************************************************************)
(* The files of a bundle: internal/artifact/artifact.go (Normalize,        *)
(* BundleDigest, BuildManifest, Checksums) and the tail of                 *)
(* internal/compiler/compiler.go renderArtifacts, which adds three files   *)
(* that tell of the others.                                                *)
(*                                                                         *)
(* A file is [path, content].  A digest is modelled as the content it is   *)
(* the digest of, so the digests of different contents differ.             *)
(***************************************************************************)
EXTENDS Integers, Sequences, FiniteSets, SequencesExt, StableSorting

CONSTANTS
  Paths,      (* the paths files may have                                 *)
  PathRank    (* PathRank[p]: place of p in the order of strings          *)

SelfReferential == {"checksums.txt", "bundle.manifest.json", "provenance.json"}

ASSUME PathsAssumption ==
  /\ SelfReferential \subseteq Paths
  /\ PathRank \in [Paths -> Nat]
  /\ \A p, q \in Paths : PathRank[p] = PathRank[q] => p = q

File(p, c) == [path |-> p, content |-> c]

\* What a file says: some text, a digest it quotes, and the files it lists with
\* their digests.
Text(t) == [text |-> t, digest |-> <<>>, lines |-> <<>>]

Absent == Text("absent")    (* there is no file                           *)
Torn == Text("torn")        (* truncated, or filled in part               *)

\* The files at the places kept, by path; files of one path keep their order.
Listing(files, kept) ==
  InOrder(files, kept, [k \in DOMAIN files |-> PathRank[files[k].path]])

Normalize(files) == Listing(files, DOMAIN files)

PathsOf(files) == {files[n].path : n \in DOMAIN files}

\* The digest of the paths and digests of the files that are not about others.
BundleDigest(files) ==
  Listing(files, {k \in DOMAIN files : files[k].path \notin SelfReferential})

\* The digests of all the files, checksums.txt excepted.
Digests(files) ==
  Listing(files, {k \in DOMAIN files : files[k].path # "checksums.txt"})

BuildManifest(files, digest) ==
  [text |-> "manifest", digest |-> digest, lines |-> Digests(files)]

Checksums_BeforeManifest(files) ==
  [text |-> "checksums", digest |-> <<>>,
   lines |-> SelectSeq(Digests(files), LAMBDA f : f.path # "bundle.manifest.json")]

Checksums(files) ==
  [text |-> "checksums", digest |-> <<>>, lines |-> Digests(files)]

\* The payload with its provenance, manifest and checksums, each computed from
\* the files before it.
renderArtifacts(payload) ==
  LET digest == BundleDigest(payload)
      proven == Append(payload, File("provenance.json",
                  [text |-> "provenance", digest |-> digest, lines |-> <<>>]))
      listed == Append(proven, File("bundle.manifest.json",
                                    BuildManifest(proven, digest)))
  IN  Normalize(Append(listed, File("checksums.txt", Checksums(listed))))
=============================================================================
