----------------------------- MODULE BundleWrite -----------------------------
(***************************************************************************)
(* cmd/platformctl/main.go cmdGenerate and internal/artifact/artifact.go   *)
(* WriteFiles: the files of a bundle are written one after the other into  *)
(* a directory that may hold an earlier bundle, or what is left of one.    *)
(* os.WriteFile truncates a file and then fills it; the process may be     *)
(* killed, cancelled or get an I/O error between any two of these steps,   *)
(* and somebody may run it again, for the same specification or another.   *)
(* cmdSecrets, another process, fills .env from the bundle's .env.example: *)
(* it looks, reads and writes in separate steps, while generate writes the *)
(* bundle and the owner may put a .env of his own there.                   *)
(***************************************************************************)
EXTENDS BundleFiles

CONSTANTS
  Payloads,   (* the payloads the compiler may render                     *)
  Runs,       (* how often generate is run                                *)
  Inits       (* how often secrets init is run                            *)

ASSUME BundlesAssumption ==
  /\ {".env", ".env.example"} \subseteq Paths
  /\ \A p \in Payloads :
       /\ p \in Seq(Range(p))
       /\ PathsOf(p) \subseteq Paths \ (SelfReferential \cup {".env"})
       /\ ".env.example" \in PathsOf(p)
  /\ Runs \in Nat /\ Inits \in Nat

Own == Text("own")          (* the .env its owner wrote                   *)

\* The .env that is made of this .env.example: the same keys, other values.
Secrets(example) ==
  [text |-> "secrets", digest |-> <<>>, lines |-> <<File(".env.example", example)>>]

VARIABLES
  dir,      (* dir[p]: what the output directory has at path p            *)
  pc,       (* where the process is; "idle" when there is none            *)
  bundle,   (* the files WriteFiles was given                             *)
  n,        (* the file its loop is at                                    *)
  ctxDone,  (* the context of this run is cancelled                       *)
  result,   (* what the last run came to                                  *)
  runs,     (* the runs so far                                            *)
  secretsPc,     (* where secrets init is                                 *)
  saw,           (* what its look at .env found                           *)
  force,         (* its --force                                           *)
  example,       (* what it has read of .env.example                      *)
  secretsResult, (* what the last secrets init came to                    *)
  inits          (* the runs of it so far                                 *)

generateVars == <<pc, bundle, n, ctxDone, result, runs>>
secretsVars == <<secretsPc, saw, force, example, secretsResult, inits>>
vars == <<dir, generateVars, secretsVars>>

Init ==
  /\ \E env \in {Absent, Own} :
       dir = [p \in Paths |-> IF p = ".env" THEN env ELSE Absent]
  /\ pc = "idle"
  /\ bundle = <<>> /\ n = 1
  /\ ctxDone = FALSE
  /\ result = "none"
  /\ runs = 0
  /\ secretsPc = "idle" /\ saw = Absent /\ force = FALSE /\ example = Absent
  /\ secretsResult = "none"
  /\ inits = 0

\* generate of a specification that compiles.
Start(payload) ==
  /\ pc = "idle" /\ runs < Runs
  /\ pc' = "next"
  /\ bundle' = renderArtifacts(payload)
  /\ n' = 1
  /\ ctxDone' = FALSE
  /\ result' = "running"
  /\ runs' = runs + 1
  /\ UNCHANGED dir

Finish(outcome) ==
  /\ pc' = "idle"
  /\ result' = outcome
  /\ UNCHANGED <<bundle, n, ctxDone, runs>>

\* The loop finds the context cancelled and returns its error.
StopCancelled ==
  /\ pc = "next" /\ n <= Len(bundle) /\ ctxDone
  /\ Finish("failed")
  /\ UNCHANGED dir

Open_SkipsExisting ==
  /\ pc = "next" /\ n <= Len(bundle) /\ ~ctxDone
  /\ IF dir[bundle[n].path] = Absent
       THEN /\ dir' = [dir EXCEPT ![bundle[n].path] = Torn]
            /\ pc' = "fill" /\ UNCHANGED n
       ELSE n' = n + 1 /\ UNCHANGED <<dir, pc>>
  /\ UNCHANGED <<bundle, ctxDone, result, runs>>

\* Next file: its directory is made and the file created or truncated.
Open ==
  /\ pc = "next" /\ n <= Len(bundle) /\ ~ctxDone
  /\ dir' = [dir EXCEPT ![bundle[n].path] = Torn]
  /\ pc' = "fill"
  /\ UNCHANGED <<bundle, n, ctxDone, result, runs>>

Fill_SkipsOne ==
  /\ pc = "fill"
  /\ dir' = [dir EXCEPT ![bundle[n].path] = bundle[n].content]
  /\ n' = n + 2
  /\ pc' = "next"
  /\ UNCHANGED <<bundle, ctxDone, result, runs>>

Fill ==
  /\ pc = "fill"
  /\ dir' = [dir EXCEPT ![bundle[n].path] = bundle[n].content]
  /\ n' = n + 1
  /\ pc' = "next"
  /\ UNCHANGED <<bundle, ctxDone, result, runs>>

Succeed_OneShort ==
  /\ pc = "next" /\ n >= Len(bundle)
  /\ Finish("ok")
  /\ UNCHANGED dir

Succeed ==
  /\ pc = "next" /\ n > Len(bundle)
  /\ Finish("ok")
  /\ UNCHANGED dir

\* MkdirAll or WriteFile returns an error: before the file is touched, or
\* after it was truncated.
WriteError ==
  /\ pc = "fill" \/ (pc = "next" /\ n <= Len(bundle) /\ ~ctxDone)
  /\ Finish("failed")
  /\ UNCHANGED dir

Cancel ==
  /\ pc # "idle" /\ ~ctxDone
  /\ ctxDone' = TRUE
  /\ UNCHANGED <<dir, pc, bundle, n, result, runs>>

\* The process is killed.
Crash ==
  /\ pc # "idle"
  /\ Finish("killed")
  /\ UNCHANGED dir

WriteFiles == StopCancelled \/ Open \/ Fill \/ Succeed \/ WriteError

Generate ==
  /\ (\E payload \in Payloads : Start(payload)) \/ WriteFiles \/ Cancel \/ Crash
  /\ UNCHANGED secretsVars

EndSecrets(outcome) ==
  /\ secretsPc' = "idle"
  /\ secretsResult' = outcome
  /\ UNCHANGED <<saw, force, example, inits>>

LookAtEnv_ForgetsForce(replace) ==
  /\ secretsPc = "idle" /\ inits < Inits
  /\ inits' = inits + 1
  /\ saw' = dir[".env"] /\ force' = replace
  /\ secretsPc' = "read" /\ secretsResult' = "running"
  /\ UNCHANGED <<dir, example>>

\* secrets init looks at .env: one that is there is refused, unless forced.
LookAtEnv(replace) ==
  /\ secretsPc = "idle" /\ inits < Inits
  /\ inits' = inits + 1
  /\ saw' = dir[".env"] /\ force' = replace
  /\ IF dir[".env"] # Absent /\ ~replace
       THEN secretsPc' = "idle" /\ secretsResult' = "failed"
       ELSE secretsPc' = "read" /\ secretsResult' = "running"
  /\ UNCHANGED <<dir, example>>

\* It reads whatever generate has left of .env.example.
ReadExample ==
  /\ secretsPc = "read"
  /\ IF dir[".env.example"] = Absent
       THEN EndSecrets("failed")
       ELSE /\ secretsPc' = "write"
            /\ example' = dir[".env.example"]
            /\ UNCHANGED <<saw, force, secretsResult, inits>>
  /\ UNCHANGED dir

\* os.WriteFile truncates .env, or creates it,
OpenEnv ==
  /\ secretsPc = "write"
  /\ dir' = [dir EXCEPT ![".env"] = Torn]
  /\ secretsPc' = "fill"
  /\ UNCHANGED <<saw, force, example, secretsResult, inits>>

\* and fills it; the change of its mode is what remains.
FillEnv ==
  /\ secretsPc = "fill"
  /\ dir' = [dir EXCEPT ![".env"] = Secrets(example)]
  /\ secretsPc' = "chmod"
  /\ UNCHANGED <<saw, force, example, secretsResult, inits>>

ChangeMode ==
  /\ secretsPc = "chmod"
  /\ EndSecrets("ok")
  /\ UNCHANGED dir

\* One of its calls fails, or it is killed.
StopSecrets ==
  /\ secretsPc # "idle"
  /\ EndSecrets("failed")
  /\ UNCHANGED dir

cmdSecrets ==
  /\ \/ \E replace \in BOOLEAN : LookAtEnv(replace)
     \/ ReadExample \/ OpenEnv \/ FillEnv \/ ChangeMode \/ StopSecrets
  /\ UNCHANGED generateVars

\* The owner copies .env.example to .env and edits it, as the README of the
\* bundle has it, or removes it.
OwnerEdits ==
  /\ \E env \in {Own, Absent} : dir' = [dir EXCEPT ![".env"] = env]
  /\ UNCHANGED <<generateVars, secretsVars>>

Next == Generate \/ cmdSecrets \/ OwnerEdits

Spec == Init /\ [][Next]_vars

-----------------------------------------------------------------------------
BundleTexts == {"provenance", "manifest", "checksums"} \cup
  {f.content.text : f \in UNION {Range(p) : p \in Payloads}}
EnvTexts == {"absent", "torn", "own", "secrets"}

TypeOK ==
  /\ DOMAIN dir = Paths
  /\ \A p \in Paths \ {".env"} : dir[p].text \in BundleTexts \cup {"absent", "torn"}
  /\ dir[".env"].text \in EnvTexts
  /\ pc \in {"idle", "next", "fill"}
  /\ \A f \in Range(bundle) : f.path \in Paths /\ f.content.text \in BundleTexts
  /\ n \in 1..(Len(bundle) + 1)
  /\ ctxDone \in BOOLEAN
  /\ result \in {"none", "running", "ok", "failed", "killed"}
  /\ runs \in 0..Runs
  /\ secretsPc \in {"idle", "read", "write", "fill", "chmod"}
  /\ saw.text \in EnvTexts
  /\ force \in BOOLEAN
  /\ example.text \in BundleTexts \cup {"absent", "torn"}
  /\ secretsResult \in {"none", "running", "ok", "failed"}
  /\ inits \in 0..Inits

\* A run of generate that reported success has replaced whatever was there:
\* every file of its bundle is on disk, whole, after however many interrupted
\* runs and beside whatever secrets init does meanwhile.
SuccessComplete ==
  result = "ok" => \A f \in Range(bundle) : dir[f.path] = f.content

\* "Stable hashes support integrity verification" (docs/adrs/ADR-0006-
\* deterministic-compilation.md:18): after a run that reported success every
\* line of checksums.txt is true of the file on disk, and all the files of the
\* bundle but checksums.txt have a line.
ChecksumsHold ==
  result = "ok" =>
    LET lines == dir["checksums.txt"].lines IN
    /\ \A k \in DOMAIN lines : dir[lines[k].path] = lines[k].content
    /\ PathsOf(lines) = PathsOf(bundle) \ {"checksums.txt"}

\* Tamper detection, for the damage an interrupted run does: in whatever state
\* cancellations, crashes and errors leave the directory, if there is a whole
\* checksums.txt and all its lines are true, then some bundle is on disk whole,
\* its manifest and provenance included.
ChecksumsDetect ==
  LET sums == dir["checksums.txt"] IN
  (/\ sums \notin {Absent, Torn}
   /\ \A k \in DOMAIN sums.lines : dir[sums.lines[k].path] = sums.lines[k].content)
  => \E p \in Payloads : \A f \in Range(renderArtifacts(p)) : dir[f.path] = f.content

\* No command takes a file that is not its own.  generate leaves alone what its
\* bundle does not have: .env, and the files of an earlier bundle.  secrets
\* init touches nothing but .env, and a .env that was there when it looked only
\* with --force; it makes the .env of an .env.example it really found.  What
\* the owner puts there between the look and the write is not kept: see README.
OthersKept ==
  [][/\ \A p \in Paths \ {".env"} : p \notin PathsOf(bundle') => dir'[p] = dir[p]
     /\ secretsPc = "idle" => dir'[".env"] \in {dir[".env"], Own, Absent}
     /\ dir'[".env"] \notin {dir[".env"], Own, Absent} =>
          /\ saw = Absent \/ force
          /\ dir'[".env"] \in {Torn, Secrets(example)}]_vars
=============================================================================
