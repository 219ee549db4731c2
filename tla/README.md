# A TLA+ model of the platform compiler

`platformctl` reads a platform specification (YAML resources), validates it,
compiles it into a plan and renders the plan as a bundle of files: Compose
services, connector configurations, documentation, a manifest and checksums.
These modules model the compiler as a system: what its stages promise each
other, what its goroutines may do to each other, what a cancellation, a crash or
a write error may leave behind. TLC checks them on small instances and TLAPS
proves the most important results for all instances.

    tlc -workers 2 -config HashPool.cfg MCHashPool      # a run
    tlapm HashPool_proofs.tla                           # the proofs of a module

## 1. Inventory

Paths are relative to `src/`. The state of a component is what it keeps from one
step of its own to the next.

| component | code | state | operations | hard behaviour |
|---|---|---|---|---|
| compiler driver | `internal/compiler/compiler.go` `CompileDocuments`, `BuildPlan` | the `Result`: resources, plan, diagnostics, files, record of passes | parse, validate, plan, render, mark and skip passes, five early returns | a cancellation between any two of the context checks of five stages; diagnostics of nine planners gathered from parts |
| resource hashing pool | `compiler.go` `hashResources`, `resourcePlan` | jobs and results channels, wait group, ordered slice | hand out, hash, collect, sort by index, stop on cancellation | up to five goroutines, closing and draining of channels, a producer that is cancelled |
| storage planner | `internal/compiler/storage.go` | volumes map, claimed map, default classes, the plan's classes, volumes, claims and mounts | declare, bind explicitly or statically, provision, refuse, mount, sort | eight early continues per claim, names of dynamic volumes, 64-bit quantities |
| specification parser | `internal/spec/resource.go` | index and diagnostics | decode documents, parse references, identities | context checked per document; the order of documents is not that of identities |
| validation | `internal/validation/validate.go` | diagnostics, seen identities, idempotency keys | schema, references, uniqueness, storage, CDC and operation rules | first-of-key comparisons; what the planners take for granted later |
| resource definition registry | `internal/resource/registry.go` | definitions by type | built-ins, custom definitions, lookups | definitions that come from the specification itself |
| provider registry | `internal/provider/registry.go` | packages, providers, instances | build, resolve by capability, by binding, default instances | conflicts and candidates in a fixed order |
| binding registry and resolution | `internal/binding/registry.go` | three indices of definitions; edges of the binding graph | register, resolve, detect cycles | a failing `Register` that has already written; a depth-first search that stops half-way |
| graph, policy, overrides, planned resources | `internal/compiler/consolidated.go` | nodes, edges, dispositions, target services | plan, apply policy, overrides, lifecycle | precedence between policies and resources |
| CDC planner | `internal/compiler/cdc.go` | instances, connectors, state and ownership | plan connectors, slots and topics, share instances | names that must be unique per database |
| operation planner | `internal/compiler/operations.go` | `seen` by idempotency key | plan, drop repetitions, refuse collisions | last-of-key comparison where validation has a first-of-key one |
| bundle: rendering, writing, verification | `internal/artifact/artifact.go`, `compiler.go` `renderArtifacts`, `cmd/platformctl/main.go` | the files; the output directory | normalise, digest, manifest, checksums, write, verify | writes in place, interrupted and repeated |
| Compose renderer | `internal/adapters/targets/compose/render.go` | services and volumes by name | merge services, attach mounts, write YAML | names without namespaces; choices made by ranging over a map |
| project files and secrets | `cmd/platformctl/main.go` `init`, `secrets init` | the project directory, `.env` of a bundle | create what is not there, fill in secrets | a look and a later write, while others write |
| plan diff | `internal/diff/diff.go` | two maps | compare two plans | the iteration order of maps |
| migration | `cmd/platformctl/main.go` | none | rewrite fields of old versions | none: text to text |
| canonical JSON, hashing, identities, IR, provenance, recovery, conformance, documentation | `internal/canonical`, `hash`, `domain`, `ir`, ... | none | pure conversions and constant data | none |

**How they interact.** There is one process and no service. The CLI
(`main.go`) reads files and calls `CompileDocuments`, which calls parser,
validation, `BuildPlan` and `renderArtifacts` in turn. `BuildPlan` calls the
hashing pool and the planners one after the other; they share the slice of
resources, sorted by identity, and append to one list of diagnostics. Only the
pool runs goroutines; its workers and its caller share two channels, a wait
group and the context. Three parts parse references and look for providers by
themselves (validation, the resolver, the planners), so that what one has accepted
another may see otherwise. The plan passes to the renderers as a value, the files to
`WriteFiles`, which shares a directory with every earlier run, with `secrets init`
and with the owner of the directory. A cancellation of
the context is seen only where a stage looks at it.

**What makes each component correct** is listed with its module below; section 7 says
why the others have none.

## 2. Modules

| module | models | kind |
|---|---|---|
| `ResourceHashing` | resources, their plans and diagnostics, the answer a sequential loop would give | definitions |
| `HashContract` | `hashResources` as its caller sees it: one step | abstract specification |
| `HashPool` | `hashResources`: caller, workers, channels, context | specification, implements `HashContract` |
| `CompileContract` | `CompileDocuments` as its caller sees it: a bundle or the faults | abstract specification |
| `CompilePipeline` | `CompileDocuments` and the loops of its stages; takes steps of `HashContract` | specification, implements `CompileContract` |
| `StableSorting` | `sort.SliceStable`, and a loop that skips entries | definitions |
| `Quantities` | storage quantities in a fixed-width integer | definitions |
| `ClaimBinding` | claims answered once each, a volume to one claim for good | abstract specification |
| `StoragePlan` | `buildStoragePlan` | specification, implements `ClaimBinding` |
| `BundleFiles` | the files of a bundle, their order, digests, manifest, checksums | definitions |
| `BundleWrite` | `generate`'s writing of bundles into one directory, run after run, `secrets init` and the owner | specification |
| `BindingCycles` | `detectCycles`: the search for cycles of bindings | specification |
| `PlatformResources` | resources, identities, references, ownership and lifecycle | definitions |
| `Providers` | descriptors, instances and the lookups of the provider registry | definitions |
| `ProviderRegistry` | `BuildRegistry` of the providers, a registration at a time | actions of `BindingResolution` |
| `Bindings` | definitions of bindings, what one binding resolves to | definitions |
| `BindingResolution` | both registries, then the resolution of each binding | specification |
| `ResourceDefinitions` | the registry of kinds and their capabilities | definitions |
| `Validation` | the checks of a specification, as sets of diagnostics | definitions |
| `ChangeCapture` | CDC classes, instances, connectors, names | definitions |
| `OperationPlans` | the plan of one CDC operation | definitions |
| `PlannedResources` | graph, policy, planned provider resources, production rules | definitions |
| `ComposeServices` | the services of a bundle, what they wait for and talk to | definitions |
| `BuildPlan` | a specification on its way from validation to a bundle | specification, composes the seven before it |
| `SequenceLemmas` | what appending, receiving, selecting and sorting do to the elements of a sequence; the least of the natural numbers that have a property | lemmas |
| `*_proofs` | theorems about the module they are named after | proofs |
| `MC*` | the constants of the runs | instances for TLC |

Operators whose name is that of a definition with a suffix
(`Offer_IgnoresContext`) are the same step with a bug in it. Nothing uses them;
put in the place of the definition they show that a property notices.

### HashPool: the worker pool

| model | code (`compiler.go`) |
|---|---|
| `PoolSize`, `Workers` | `runtime.GOMAXPROCS(0)` cut to 1..4, `for range workers` (247-257) |
| `Offer`, `pc = "send"` | the loop over the resources, its look at the context and the send on the unbuffered `jobs` (267-271) |
| `Receive(w)`, `Publish(w)`, `Exit(w)` | a worker's `range jobs`, `results <- ...` and `wg.Done` (257-266) |
| `CloseJobs`, `CloseResults`, `Drain` | `close(jobs)`, `wg.Wait(); close(results)`, `for result := range results` (273-280) |
| `Assemble` | the sort by index, the collection and the last look at the context (281-295) |
| `Cancel` | another goroutine cancels the context: any moment |

A send and its receive on an unbuffered channel are one step, `Receive`; a
buffered channel is a sequence with a bound. What a resource's plan contains is
not modelled: a plan is the resource's number, and `Unhashable` are those whose
canonical form fails (`DHASH001`).

Properties: every index is in one place (`EachJobOnce`); a worker never waits
for room in `results`, which matters because the caller receives only after
`wg.Wait()` (`ResultsNeverBlock`); no send on a closed channel
(`NoSendOnClosed`); an answer without `DCOMP001` is the sequential answer
(`CompleteUnlessCancelled`); a cancelled producer stops (`CancelStopsProducer`);
the pool implements `HashContract`, whose liveness says that the call returns.

### CompilePipeline: the driver

One step of the model is one iteration of a loop that looks at the context, or
the code between two such looks. `faults` is what is wrong with the
specification: documents that do not parse, resources that do not validate, a
planner that objects, a renderer that fails; the values are chosen in `Init`.
`HashResources` takes the step of `HashContract`, so that the pool is composed
in by its contract, which `HashPool` implements.

Properties: a bundle is that of all documents and resources and has no fault
behind it (`BundleComplete`); every answer is a bundle or has a diagnostic,
never both (`AnswerExplained`); without a cancellation the diagnostics are those
of the first faulty stage, all of them, hashing and planning being one stage
(`FaultsReported`); the passes are all settled in the end, and all `ok` exactly
with a bundle (`PassesHonest`), and a settled pass is not rewritten
(`PassSettledOnce`); a cancellation before the renderer's look at the context
prevents the bundle (`CancelPreventsBundle`); the pipeline implements
`CompileContract`.

One thing the properties do not say, because the code does not do it: when
`BuildPlan` fails, the passes of planning are `ok` already, marked before the
call (115-125), and only the passes after it are `skipped`; no pass is `failed`.

### BindingResolution: the registries and what bindings resolve to

| model | code |
|---|---|
| `RegisterBuiltinDescriptors` ... `SettleInstances` | the five phases of `BuildRegistry` (`internal/provider/registry.go:86-154`) |
| `StartDefinitions`, `RegisterDefinition` | `BuildRegistry` of `internal/binding/registry.go` (56-78), `Register` (80-103) |
| `NoBinding`, `NoCapability`, `ResolveOne` | the ends of an iteration of `Resolve` (301-418) |
| `CapabilityCandidates`, `ResolveBinding`, ... | the lookups (`provider/registry.go:226-286`) |

A registry is the set of its entries, or a function from its keys; a name is a
sequence of words that hyphens join, so that equal joined names are equal. The
resolver is a function of the registry and the resources (`ResolvedOf`), which this
module reaches step by step and the planners use as a whole.

Properties: what a specification declares is registered or reported, what is registered
can be selected, and the loops end with the registry that `RegistryOf` says
(`RegistriesSound`); no registration takes a candidate away from a capability
(`CandidatesKept`); an accepted binding has its ends, of kinds its definition has, and a
provider that suits it, the only one if it was left to the resolver
(`BindingsHonoured`). A binding that has its provider from a CDC instance is left out of
the last: see section 5.

### BuildPlan: from validation to a bundle

One step is one call of `BuildPlan`'s (`internal/compiler/compiler.go:164-208`), but that
the loops over the live captures (`cdc.go:44-54`) and over the operations
(`operations.go:17-66`) take a step for each iteration. Each keeps what it has decided:
`bindings` (the resolver), `instances` and `connectors` (the CDC planner), `operations`
and `seen` (the operation planner), `planned` (the resource planner), `services` (the
renderer). Any diagnostic ends it in `refused`, after the whole plan has been
built. Which service a map iteration finds first is a choice in `Render`. Warnings are
left out, as they refuse nothing.

The inputs are narrower than the language in two ways, which `BuiltinsAssumption` and
`ProvidersAssumption` state: a specification declares no BindingDefinition, and its
providers are complete and have names and instances of their own. What becomes of others
is the subject of `BindingResolution`.

The properties relate what different parts have decided by themselves:

- `CapturesConnected`: references that validation has accepted, the resolver finds
  (`ValidatedReferencesResolve`); an accepted plan has a connector for each live binding and
  no other, with a provider that exists; in production none has an inferred runtime; what
  shares a runtime does not share a name, and no two runtimes are one service
  (`NamesDistinct`).
- `OperationsSound`: no idempotency key twice and every operation there under its key
  (`OneKeyOneOperation`); the planner, which compares with the last operation of a key
  where validation compares with the first, refuses a key only where two namespaces have
  written the same short reference (`CollisionsExplained`); a runtime that an operation or
  its binding names is touched as its policy allows (`NamedRuntimesRespected`).
- `PlanServed`: the instance that serves a binding in the plan is the one the resolver
  gave it, its dependencies have one each, the one of its ends, and what the policy
  requires is served. A binding that asks for its stream's own capability is served
  as its stream is and left out (`AsksItself`).
- `BundleWired`: every connector that is to be registered has a job, which talks to its
  own runtime and waits for its worker, and no worker waits for what is not there. Left out
  are jobs whose name is not theirs alone (`UniqueJob`), the wait for a stream or a database
  named `runtime-utility`, which the bundle leaves out (`UtilityService`), and the address
  of an external runtime that was never asked for one (`Located`); section 5 has them.

### StoragePlan: classes, volumes, claims, mounts

`input` is a list of resources in the order of their identities, `i` the
iteration of the loop that `pc` is in. `BindExplicit`, `BindStatic`, `Provision`
and `RefuseClaim` are the four ends of an iteration over a claim; `Refusal(c)` is
the first of the eight checks that fails. `Finish` is the three final sorts. A
name is a sequence of words that hyphens join, so that
`"pvc-" + namespace + "-" + name` can be the same for two claims, as in the code.
`Quantities` computes a quantity as `parseQuantity` does: clamped by `ParseInt`,
whose error is ignored, and multiplied modulo `Modulus`.

Properties: `ExclusiveBinding`, `BoundFits`, `SufficientCapacity` (what the
documentation promises of a bound claim); `NoLeakedVolume` (what the early continues
could break); `ClaimsAnswered`, which joins `EveryClaimAnswered`, what the order of
the claims could break (`ExplicitHonoured`, `TakenByAnother`, `NoNeedlessVolume`), and of
the mounts `MountsFollowClaims` and `MountsAnswered` (a mount that is left out has a
diagnostic, its own or its claim's, unless its workload is not found); `ImplementsBinding`.
`SufficientCapacity` speaks of the claims whose bytes the integer type holds. The documentation
has no such limit, and the code breaks the promise beyond it (section 5): every volume is
large enough for a claim of `8192Pi`. The run has such a claim, and fails without the limit.

### BundleWrite: files on disk

`renderArtifacts(payload)` adds provenance, manifest and checksums to the files
of a payload in the code's order, each computed from those before it. The digest
of a content is modelled by that content: it is true that two digests are equal
exactly if their contents are. A write is two steps, as `os.WriteFile` is: the
file is truncated, then filled. `Crash`, `Cancel` and `WriteError` may come
between any two steps, and `Start` may come again with the same or another
payload; nothing cleans the directory.

`secrets init` is a process of its own: `LookAtEnv`, `ReadExample`, `OpenEnv`, `FillEnv`
and `ChangeMode` are its system calls, between which `generate` may rewrite
`.env.example` and the owner his `.env` (`OwnerEdits`), and any of which may fail. That it
refuses a symbolic link is left out: the model has none.

Properties: what a successful run leaves is whole, whatever was there
(`SuccessComplete`); every line of `checksums.txt` is then true
(`ChecksumsHold`); in any other state a `checksums.txt` that holds means that a
bundle is there whole (`ChecksumsDetect`), so that mixtures are noticed by whoever
checks it; no command takes a file that is not its own (`OthersKept`): `generate`
leaves `.env` and earlier files alone, `secrets init` writes only `.env`, and one that was
there when it looked only with `--force`. What an owner writes between the look and
the write is lost, and a `.env` may be made of an `.env.example` that is half written:
the code has no lock, and no document says more.

### BindingCycles: the search for cycles

`detectCycles` is a recursive depth-first search. The recursion is unfolded into a
stack of calls: `Enter` and `Leave` are the beginning and the end of a call of
`visit`, `Child` an iteration of its loop, `Known` and `FoundCycle` the two returns at
its top, `NextRoot` and `AllRoots` the loop over the sorted nodes. When a cycle is
found every call returns true at once, leaving the nodes on the stack marked.

The reference is a definition of paths that has nothing of a search in it:
`Reaches(x, y)` holds if every set that contains `x` and that no edge leaves contains
`y`. Properties: a search that ends without a diagnostic has seen a graph without a
cycle (`CycleReported`); the binding of a diagnostic closes a cycle (`NoFalseCycle`);
the search ends (`Termination`).

## 3. Runs

| run | instance | shows |
|---|---|---|
| `HashPool` | 4 resources, 3 goroutines, one unhashable, fairness | the pool's properties under every interleaving and cancellation; `HashContract`, liveness included |
| `CompilePipeline` | 3 documents, 3 resources, all faults | the pipeline's properties and `CompileContract`, liveness included |
| `BuildPlan` | 1623 specifications | the parts of the compiler agree on what they accept |
| `ObservedUntouched` | an operation on a binding with an inferred runtime | `ObservedUntouched` fails |
| `ProductionImmutable` | a stream and a broker with a digest, for production or not | `ProductionImmutable` fails |
| `OneBundle` | two brokers | `OneBundle` fails |
| `BindingResolution` | 13 bindings and 8 providers and instances with any subsequence of a context, 2 targets | the registries and the resolver |
| `BindingCycles` | all graphs of 4 bindings on 3 resources, and some others | cycles are found, and only cycles |
| `StoragePlan` | 3 claims, 2 classes, up to 2 volumes, 2 mounts, 5 sizes | the storage planner's properties |
| `StorageCollision` | two claims whose dynamic names are equal | `ExclusiveBinding` fails |
| `BundleWrite` | 2 payloads that share a file, 2 runs of `generate`, 2 of `secrets init` | the properties of the directory |
| `BundleCollision` | two bindings of one name | `ChecksumsHold` fails |

**Bounds.** A fourth resource on three goroutines makes a worker take a second
job while another has not finished its first, with one more still to hand out;
the results channel can then be filled by workers of different speed. The proofs
cover every number. Three documents and resources give each loop a first, a
middle and a last iteration around a cancellation. Three claims are what it takes
for a static binding to take the volume that a later explicit claim names while
a third is provisioned; two volumes give `Suits` a choice. `Modulus = 64` stands
for 2^64 and the multipliers 1, 4 and 16 for the units. The sizes are two that the type
holds, one that wraps to its least value (32, as `8192Pi` does), one that wraps to a positive
number (80 to 16) and one whose number is clamped before the product wraps (160 to -4); claims
have the first three, volumes all but the third. Two runs of `generate` are an interrupted one, or a whole one, and one on
top of what it has left, whole or not; two of `secrets init` are one that finds the `.env`
of another. `BuildPlan` is given six families of specifications. Captures: two
bindings of two namespaces whose joined names can be equal, on no runtime, one or
three of them, with a source that has its connection, is not ours or is missing. Operations:
two, of one namespace or two, on a binding or a runtime, with one key or two. Policies:
each rule, on a resource that is not ours, an override and a binding for lineage.
Providers: brokers and databases of the specification beside those built in, pinned
or not, for production or not. Names: a runtime that has the name of another's job, a stream
that has the name of the utility service, a binding that asks for its stream's capability.
Ownership: a runtime of another group that says it is external, with an endpoint and
without. 379 of the specifications are accepted, and most of the diagnostics occur. `BindingResolution` has every subsequence of a context that clashes with
what is built in, for every way a binding can name its ends and its provider. Four bindings are two
cycles of two
resources, or a cycle with a tail, or a diamond, in any order of roots and children;
four resources make a cycle of four.

**Fairness.** `HashPool` assumes weak fairness of the caller and of each worker:
the Go scheduler runs every runnable goroutine, and each of their steps, once
enabled, stays enabled until it is taken (only one goroutine sends on `jobs`, and
`results` never fills). Nothing is assumed of `Cancel`. `CompilePipeline` assumes
weak fairness of `Compile`, one goroutine that runs, and `BindingCycles` of
its only goroutine likewise. `BuildPlan`,
`BindingResolution`, `StoragePlan` and `BundleWrite` state no liveness: they are loops over
finite slices, or ask nothing of the future.

**Deadlock** is checked in all runs. The specifications stutter explicitly when they have
returned, and only then; in `BundleWrite` the owner may edit his file for ever.

## 4. Proofs

All proofs are for any values of the constants that satisfy the modules'
assumptions:

- `ResourcesAssumption`: the number of resources is a natural number, and distinct
  resources have distinct ranks in the order of identities (validation refuses
  duplicates);
- `ProcsAssumption`: `GOMAXPROCS` is an integer;
- `DocumentsAssumption`: each resource is in a document;
- `QuantitiesAssumption`, `WordsAssumption`, `InputsAssumption`: the modulus is a
  positive even number, the inputs are lists of well-formed resources of distinct
  identities;
- `NodesAssumption`, `BindingsAssumption`: nodes are positive numbers, the inputs
  sequences of bindings between them;
- `PathsAssumption`, `BundlesAssumption`: distinct paths have distinct ranks, payloads are
  lists of files that have an `.env.example` and none of the names that the bundle's own
  files and the owner's have (the renderer chooses all paths);
- `UniqueAssumption`: no identity twice in what the registries are given, which validation
  has refused;
- `SpecificationsAssumption`, `TargetAssumption`: a specification is a slice, names are
  words joined, the target is `compose` or left to its default;
- `BuiltinsAssumption`, `ProvidersAssumption`: the two narrowings of `BuildPlan`'s inputs
  that section 2 names.

Hypotheses that are properties of the inputs and not of the code are stated in the
theorem that needs them (`NoCollision`, `NoPathTwice`); for each a run shows that the
property fails without.

TLC evaluates each of them in the runs of the modules that state them.

**`HashPool_proofs`.** The inductive invariant is
`IInv == TypeOK /\ PhaseInv /\ EachJobOnce`. `EachJobOnce` counts the jobs in the
workers' hands, in the channel and in the slice; on its own it is not inductive,
because `Exit` and the closing of the channels keep it only if they happen in
order. `PhaseInv` says what each value of `pc` means for the channels and the
workers. `ResultsNeverBlock` then follows by counting: there are at most `N` jobs,
one of them is in the hands of a busy worker, so fewer than `N` are in the
channel of capacity `N`. `PoolImplementsContract` maps `Assemble` to the contract's
`Return` and every other step to a stutter.

**`CompilePipeline_proofs`.** The invariant adds to the type what the stages
behind `pc` have established: which documents and resources have been seen, which
passes are settled, that there is no diagnostic before the stage that may report
one, and what has been reported if the stage was not cancelled. Each early return
is one lemma (`StopAnswers`), used by every stage. All of the pipeline's state
properties, the action property `PassSettledOnce` and the implementation of
`CompileContract`'s safety part are proved.

**`StoragePlan_proofs`.** Five invariants. `IInv` (types, `NoLeakedVolume`, where each volume of
the plan comes from and where the loop is) holds for every input, and so does `AInv`:
claims the loop is over with have one answer and the others none, a claim that names a volume is
planned with no other, a dynamic volume is never free. `XInv` (distinct volumes, `ExclusiveBinding`,
`BoundFits`) and `YInv` (an explicit claim's volume is a declared one, `NoNeedlessVolume`) need
`NoCollision`: no dynamic name is that of another claim's volume or of a declared
one. The run `StorageCollision` shows that the hypothesis cannot be dropped. `ClaimsAnswered` is
therefore two theorems: `Answered` says of every input what does not depend on the names,
`AnsweredWell` is all of it without collisions. `MInv` is the part about the mounts the loop is over
with. `Sufficient` follows from `BoundFits` and two facts about `parseQuantity`: it is exact for
what the type holds (`QuantityExact`) and never finds more bytes than there are
(`QuantityAtMost`), so that a volume whose size wraps is refused to a claim and not given to it.
`WrappedClaimFitsAny` shows where this ends: a claim of `Half` bytes is the least value
of the type, and `capacityAtLeast` finds every volume large enough. The sorts are shown to permute (`StableSortPermutes`), from
the place of an element being a bijection (`PlaceIsBijection`). That a volume which suits a claim is
taken before one is provisioned needs the first volume of a set in an order, hence
`LeastNat`: what replaces an induction that the provers cannot do.

**`BundleWrite_proofs`.** `IInv` says that the bundle in hand is the rendering of a payload
(`Rendered`), that the file the loop is at may be torn and no other (`LoopSound`), that
a `checksums.txt` with text is that of some payload (`SumsFrom`), and that `secrets init` writes only
what it found absent or was told to overwrite (`MayWrite`). From it `ChecksumsDetect` and the action property
`OthersKept` follow for every payload. `WInv` adds that the files the loop has passed
are whole (`Written`); it is inductive only if no payload lists a path twice
(`NoPathTwice`), for a second file of that path tears the first, and `BundleCollision`
is that counterexample. `BundleOfASet`: the order in which a renderer has listed the files is
not in the bundle, as the sort by distinct paths has one result.

**`BindingResolution_proofs`.** Each loop is related to the resources it has passed, and not to how: the
descriptors are those built in and those of the providers passed
that can be registered (`DescriptorInv`), likewise the instances (`InstanceInv`), each
provider and instance passed is there or has a diagnostic, and once settled the registry is
`RegistryOf(resources, target)` (`RegisteredInv`), the function the planners use. Of the resolver the invariant
keeps that a resolved binding is what its resource resolves to, if nothing
was reported (`ResolvesTo`). The facts about data are about what is built in, shown
distinct by their names. `CandidatesAreKept` is the action property: an entry that a
registration adds has an identity no entry had, and settling the instances rewrites none that
a capability counts.

**`BuildPlan_proofs`.** `IInv` gives each planner's result as an operator of the inputs:
`ResolvedInv`, `InstancesInv`, `ConnectorsInv` (each connector is what its binding makes, each live
binding passed has one or something was reported), `OperationsInv` (each operation passed
is planned, as itself or as the one it repeats) and `PlannedInv`. The four properties are then
statements about an accepted plan, and each is an argument about two parts of the code that
parse the same references:

- `CapturesAreConnected`: what validation has looked up among the resources the resolver
  looks up in its own way, and finds (`ReferencesAgree`, `ReferencesResolve`); a name that
  the planner refuses to have twice is equal only for one connector (`OneConnectorEach`).
- `OperationsAreSound`: the policy that validation has read is the planner's
  (`PolicyAgrees`), and a collision means that two namespaces wrote one reference
  (`CollisionExplained`).
- `PlanIsServed`: a need of an accepted plan is served by one instance (`NeedsServed`);
  the needs of a binding are its own and those of its ends (`NeedsOf`, `DependencyNeed`);
  that the instance is the one the resolver has chosen holds because every registered
  instance suits the target (`RegistryFacts`, which needs `ProvidersAssumption`).
- `BundleIsWired`: the services are those of the providers, the workers and the jobs,
  whatever a map iteration has found first (`Rendering`, `BundleRendered`); names of the
  three kinds are distinct (`PlanNames`, `CaptureNames`), and what a worker waits for is
  there (`NothingMissing`).

The selections and folds of the community modules stay closed in these proofs: steps
compare what is computed from equal arguments, and never compute it.

**`BindingCycles_proofs`.** The invariant of depth-first search: the stack is a path of
distinct nodes, exactly those in progress (`StackInv`); what a loop has passed is done,
on the stack above, or about to be called (`LoopInv`); no edge leads out of the nodes
that are done, and no cycle goes through them (`DoneInv`); the roots passed are done
(`RootInv`). The step that matters is `Leave`: all successors of the node are done, the
set of done nodes is closed and the node is not in it, so no path leads back.
`CycleReported` and `NoFalseCycle` follow for every slice of bindings; TLC has checked
the invariant too.

`AllFaultsAtOnce` (`FaultsReported`) covers what the run `CompilePipeline` has not: a resource
that cannot be hashed, so that hashing and planning object together. With one there
is no bundle, hence the run has none.

`NoBundleOnceCancelled` is what is provable of `CancelPreventsBundle`: from the moment of a
cancellation before the renderer's look at the context there is never a bundle.

TLC has checked all these invariants on the instances of the runs too.
It has refuted earlier forms of what they imply, and the properties have been corrected to
what the code does: a production plan that is being refused may have an inferred runtime; a
binding may ask for its stream's capability; a runtime of another group may say `external`
where validation does not look; a job may have the name of a worker; a service that is
waited for may be left out, and an external runtime may have no address. Each was found by
the hypothesis that a proof lacked, and what showed the names and the other groups is now in
the inputs of `BuildPlan`. Two loops had been modelled too widely: providers,
instances, policies and definitions are those of the platform's group (`OfPlatform`), other
kinds those of any (`OfKind`).

Two habits of the modules come from the provers: `Unset` names the empty string, so that a proof
can leave it closed, and unions of `UNION`s are in
parentheses, as SANY and tlapm differ in how they read them.

**Only model-checked**: every invariant and action property of the passing runs is a listed theorem.
What is left is liveness, which is out of the prover's reach: `Termination` of
`BindingCycles`, that a cancelled call returns (`CancelPreventsBundle`), and the liveness parts of the
two `ImplementsContract`s. That the folds and selections compute what they should for every
input would be induction over data, which is out of reach too: TLC evaluates them on the
inputs of the runs.

## 5. What the checks found

With a run that shows them:

- `StorageCollision` (`storage.go:137`): claim `c` of namespace `a-b` and claim `b-c`
  of namespace `a` get one "unique named volume".
- `BundleCollision` (`render.go:395`): the files of two bindings of one name overwrite
  each other, and `checksums.txt` has a false line in a bundle just generated.
- `ObservedUntouched` (`validate.go:676`): an operation that pauses a connector on an
  observe-only runtime is accepted when the binding leaves its runtime to be inferred.
- `ProductionImmutable` (`consolidated.go:225`, `compiler.go:225`): every Compose plan needs
  `runtime.utility`, whose built-in image has no digest and which a second provider makes
  ambiguous, so that production refuses every plan.
- `OneBundle` (`render.go:545`, `557`): with two brokers the bundle depends on the iteration
  of a map.

Met while modelling, without a run of their own:

- storage: a claim of `8192Pi` is negative in an int64 and fits every volume
  (`storage.go:270`), though "sufficient capacity" is required (`storage.md:35`): proved as
  `WrappedClaimFitsAny`; a mount whose workload is named without API version, and whose kind
  is not in `apiVersionForStorageKind`, is left out silently (`storage.go:161`).
- cycles: the diagnostic advises to mark a BindingDefinition as allowing cycles, but
  nothing reads that mark (`binding/registry.go:471`).
- resolution: of two definitions of one name in two namespaces a reference to either
  leads to the one registered last (`binding/registry.go:95`; `reference.md:89`); an AuditBinding
  without a provider is refused, as the only built-in provider of `audit.record` has a type
  the built-in definition does not take (377; `reference.md:96`); the provider a CDCBinding has
  from its runtime is compared with nothing (369; ADR-0055); a runtime that has its
  provider from its class is found by the planner, not by the resolver (371; `cdc.go:119`).
- change capture: the registration jobs of instance `b` with binding `c-d` and of `b-c` with
  `d` have one name (`cdc.go:628`); a connector class that comes from the connection need not
  stream changes (`cdc.go:181`), nor be one its runtime supports (`validate.go:585`); a runtime
  of another group that says `external: true`, or whose class is not found, is not asked for
  an endpoint (`validate.go:536-558`), and its job talks to `http://external-cdc:8083` (`render.go:535`); operations on such a
  runtime, which the planner takes for an observe-only one, are accepted
  (`validate.go:628`).
- rendering: the service of a stream or a database named `runtime-utility` is left out of the
  bundle, and what waits for it waits in vain (`render.go:317`).
- operations: a shared runtime may be deleted while bindings that have it by inference
  use it (`validate.go:693`); an operation with other parameters under a used key is dropped
  (`operations.go:56`); the planner's own lists of mutating and destructive actions differ from
  validation's (`operations.go:129-165`).
- policy: only the first PlatformPolicy of a specification counts, and two of its
  rules (deferrals, idempotency) are enforced nowhere; a stream that is not ours still has
  `stream.publish` planned and a broker rendered; the images of the CDC workers are not among
  those the production policy judges.
- `secrets init` overwrites a `.env` made between its look and its write (`main.go:549-576`).

## 6. Plan

The modules of the plan are written, and the invariants and action properties of its passing runs
are proved. What is left:

1. The hypotheses under which the three failures that have no such theorem yet do not happen: with one
   broker and one database `Render` has one outcome (`OneBundle`); when every binding names its
   runtime no operation mutates an observed one (`ObservedUntouched`); what the
   production policy refuses a plan for, when there is one provider of each capability.
2. `BuildPlan` without `ProvidersAssumption`: the parts of `PlanServed` that hold of incomplete
   providers, from `BindingResolution`'s `RegistriesSound`.
3. `BindingResolution`'s registry composed with the `RegistryOf` of `BuildPlan` by a
   refinement, in place of the one equation `RegistriesSound` has.
4. The names at their limit (`cdc.go:376`), which the model has no lengths for.

## 7. What is not modelled, and why

- The conversions from text and to text: YAML and JSON decoding, canonical JSON,
  SHA-256, Compose YAML, Markdown, the schema. They have no state, and what the models
  need of them is that distinct contents have distinct digests.
- `init`: it looks for each file of a new project and writes it later, as `secrets init` does;
  no other command writes those files.
- `diff`: the comparison of two plans; only the order of its output is not determined.
- The resource graph's edges, ownership records, recovery and observability sections of a plan, and
  the attachment of overrides: they are written to the plan and nothing is decided by them.
- Volumes, health checks and the texts of a Compose file, and the configuration files beside it.
- The schemas of single fields and the search for secret values in validation.
- `migrate`: a rewriting of fields, document by document.
- `verify` without a bundle is `CompileDocuments`. With one it reads
  `verification/checks.json` and looks whether `compose.yaml` exists; it never reads
  `checksums.txt`, so `ChecksumsDetect` speaks of what a reader of that file can
  notice, not of what `verify` does.
- What Docker Compose does with a bundle (`verify --runtime`).
- Constant data, except where a property depends on it: the built-in kinds, definitions and
  providers are there with what the planners tell apart (`DefinedIn`, `BuiltinDefinitions`,
  `BuiltinDescriptors`).
