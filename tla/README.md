# A formal model of snapvault

TLA+ modules, TLC configurations and TLAPS proofs for snapvault: a C++ engine
(`svcore`) that keeps deduplicated snapshots in a directory, and a Go layer
(`snapvault`) that spreads a snapshot's chunks over a simulated cluster and
restores it in parallel; and for the web page (TypeScript) that demonstrates
both in a browser. Paths below are relative to the repository root.

    tlc -workers 2 -config Cluster.cfg MCCluster.tla     # one run
    tlapm Cluster_proofs.tla                             # one proof module

## 1. The system

    svcore (C++)                      snapvault (Go)
    snapshot/drop/gc/retain           put/fail-node/recover/repair/add-node/remove-node
          |                                 |            restore/verify/status
          v                                 v
    chunks/<hash>   <----- reads ---- rehydrate --> cluster in memory --> Restore workers
    snapshots/<name>.json                   ^  |
                                            |  v
                                       cluster.json

    web demo (TypeScript, one thread)
    dataset -> Engine.snapshot -> distribute -> Cluster <-- sync -- useVault's down-set
                                                   |                    ^ clicks
                                                   v                    |
                                              plan, counts --> FailureRestore: rows, timers, verdict

| component | state | operations | hard behaviour |
|---|---|---|---|
| cluster, `internal/cluster/{cluster,repair,verify}.go` | node count, up flags, each node's map hash -> bytes | Put, Get, SetUp, RecoverAll, Repair, AddNode, RemoveNode, VerifyDeep | failures, rot and topology changes in any order; replicas off the placement set; rebalance deletes |
| state file, `internal/cluster/state.go` | `cluster.json`: nodes, replication, down, extra | SaveState, LoadState, Rematerialize | a process that loads no chunks; a kill while the file is truncated |
| restore, `internal/distribute` | goroutines, two unbuffered channels, a context, a wait group | Distribute, Restore | select races, cancellation, closing order, leaks |
| store reader, `internal/store` | none | Get, LoadManifest, UniqueChunks | - |
| snapvault commands, `cmd/snapvault` | none between processes but the files | one process per command | no lock; every command rebuilds the cluster |
| engine and content store, `core/src/{engine,content_store,fs_util}.cpp` | chunk files, manifest files | snapshot, drop, gc, retain, restore, diff, verify | no lock; in-place writes; crashes; deduplication against what is there |
| chunker, SHA-256, manifest JSON | none | pure functions | boundaries, parsing |
| web engine and store, `web/src/sim/{engine,contentStore,chunker,dataset}.ts` | Map hash -> bytes, list of manifests | snapshot, restore, verify | deduplication inside a file, between files and between snapshots; last chunks |
| web cluster, `web/src/sim/{cluster,distribute,selfcheck}.ts` | per node an up flag and a Map | put, get, setUp, recoverAll, planRestore, restore | a plan made apart from the restore; stopping at the first failure |
| web hashes, `web/src/sim/{sha256,cluster}.ts` | none | sha256Hex, fnv1a64 | padding lengths; 64-bit arithmetic in two ways |
| node state and restore section, `web/src/useVault.ts`, `components/FailureRestore.tsx` | down-set, phase, rows (React state), timers, the shared cluster's flags | toggleNode, recoverAll, runRestore, timer callbacks, the reset effect | state of the last render against queued state; two copies of the node state; timers that outlive their run |
| panels, `components/{Distribution,ChunksDedup}.tsx` | which chunk or snapshot is selected | display | - |
| page frame, `App.tsx`, Hero, Footer, primitives | none | display | - |

What makes each correct:

- **cluster** - a chunk survives any R-1 failures; a repair restores that;
  a topology change neither loses a chunk nor makes it unreadable; repair
  neither spreads nor leaves corrupt bytes while an intact copy is up.
- **state file and commands** - what one command achieved, the next finds.
- **restore** - every file from verified chunks or no file; the caller always
  gets an answer and no goroutine outlives it for good.
- **web demo** - the tree a snapshot was taken of comes back, from the nodes or
  not at all; what the page displays (plan, rows, warning, verdict) is true of
  the nodes it displays, and stays so whatever is clicked when.
- **engine** - a snapshot that was restorable stays so until it is dropped or
  replaced; gc takes only what no manifest needs; retain drops the oldest.

## 2. The modules

| module | models |
|---|---|
| `LeastElement` | the first element of a sorted loop; used by all the others |
| `ClusterOps` | the rules of `internal/cluster` for one chunk: placement walk, Get, Repair, rebalance, drain, renumbering |
| `Cluster` | the cluster as a state machine over those rules |
| `FaultTolerance` | `Cluster` with an account of how many replicas an operator may count on |
| `RestoreContract` | what `distribute.Restore` promises its caller |
| `Restore` | feeder, workers, closer and collector; implements `RestoreContract` |
| `Engine` | svcore processes on one store directory |
| `EngineHistory` | `Engine` with a record of what each command found when it began, for the properties that compare with it |
| `Cli` | snapvault commands over cluster.json and the store; uses `ClusterOps` |
| `CliTolerance` | `Cli` with the account of `FaultTolerance`, kept across processes |
| `SimCluster` | the web cluster's operations as operators on flags and maps |
| `SimEngine` | the web engine: chunking, manifests, deduplication, restore, verify |
| `SimVault` | engine and cluster as one state machine, with the self-check's checks |
| `SimDataset` | the files the page is built on, v1 and v2, scaled down to two-byte chunks, and the chunk panel over them |
| `RestoreDialog` | what the restore section promises its visitor |
| `RestoreView` | useVault and FailureRestore: handlers, timers, renders, effects; implements `RestoreDialog` |
| `Sha256Padding`, `Sha256`, `Fnv1a` | the two hash functions of the web demo |
| `Numbers_proofs`, `ClusterOps_proofs` | lemmas about the operators that several modules are built from: least elements, induction and recursion over numbers, the ring; the rules for a chunk |
| `Cluster_proofs` (also of `FaultTolerance`), `Cli_proofs` (also of `CliTolerance`), `Restore_proofs`, `Engine_proofs`, `RestoreView_proofs`, `SimVault_proofs` (also of `Sha256Padding`) | theorems |
| `MC*` | instances for TLC |

**Cluster.** `data[h]` is the column of chunk `h`: for each node id "absent",
"intact" (bytes that reproduce the hash) or "corrupt". Repair, rebalance and
drain treat chunks one at a time and no chunk's treatment reads another's, so
each is an operator from the old column to the new one, and an action applies
it to every chunk. That is also why one chunk is enough in the passing run, and
two in the runs that look for a disagreement. A method
that holds `c.mu` for its whole body is one action. `Hash[h] % n` keeps the
placement rule itself; only the FNV function is abstracted to a number.
`Corrupt` is what `verify_test.go` does to a node: bytes change under it.
Repair's two early exits (healthy chunk, no intact source) and its order
(overwrite corrupt replicas first, counting them live, then walk the ring) are
kept.

**FaultTolerance** adds a ghost variable. `margin[h]` is earned by Put, Repair
and a rebalance of a chunk without rotten replicas, and spent by each failure,
removal and rotten replica; the property is that it is always covered.

**Restore.** One action per communication: a send on an unbuffered channel and
its receive are one step (`TakeJob`, `Deliver`); a select with several ready
cases takes any (`Leave` against `TakeJob` and `Deliver`). `source[h]` is what
a Get of `h` would bring, and `ClusterChanges` changes it while the restore
runs, since Get takes the cluster's lock per chunk and not for the restore.
The collector calls `cancel` on the first error; in the model every error sets
`cancelled`, which is the same.

**Engine.** `pc[p]` and `op[p]` are a process and its locals. Reading one
manifest, checking one chunk, creating a file, filling it and unlinking it are
separate steps. A file is "torn" between creation and the end of the write,
and stays so after a crash. An unlinked file that is still open swallows its
writes ("adrift"). `LoseBufferedChunk` is `write_file` not noticing that the
flush on close failed. Chunks of a snapshot are stored in any order, which
stands for the order of files and positions in the directory; a chunk that
occurs twice is found in the store the second time. Manifests are reduced to
sequence number and referenced chunks. The store is empty at first or, as
`Legacy` says, holds snapshots of an svcore from before manifests had a `seq`:
these parse as number 0 (`FORMAT.md:56-59`), so several of them tie and `retain` sorts
them by name. New numbers are at least 1.

**EngineHistory** adds `began[p]`: the snapshots that were listed when `p`'s command began
and have not been touched since, and how much had failed by then. No action reads
it. It is what "oldest to newest" and "nothing failed during this command" need.

**Cli.** The in-memory cluster lives in `mem` only while a command runs.
Loading, rehydrating and changing it is one step: the files it reads are
written by svcore only, and by steps that can come before or after it.
`os.WriteFile` is two (`Truncate`, `Write`), with `Abandon` (a failure or a
kill) possible before either. svcore's commands and rot of a chunk file may
come between any two steps. `SaveState`'s special case for a cluster that holds
no chunk, and `Rematerialize`'s skipping of nodes that no longer exist, are kept.
Every put uses the same replication factor R; the node count varies.

**SimVault** composes `SimEngine` and `SimCluster` as `useVault.ts` and
`selfcheck.ts` do: snapshots of any tree under any name, a new cluster, a
distribution of one snapshot, node failures. A file is a sequence of bytes, a
path a number in the order of the path strings, and a content address the
number of its chunk in the order of the hashes. `snapshot` folds over the
references of the sorted paths as the loops do; the trace of `isNew` flags is
what the page's statistics and chips are made from. `restore` goes chunk by
chunk and ends at the first that no up node of the placement set has. What the
code sorts is a set of strings, so `Sorted` is the one ascending list of a set
of numbers, by definition and not by an algorithm: that is what lets the proofs
reason about it.

**RestoreView.** `shown` is the React state of the last render, which handlers
close over; `queued` is that state after the updates queued since. `setDown` and
`setRows` are called with functions, `setPhase` with values; applying each to
`queued` when it is called gives what the next render computes. `up` is
the mutable cluster, written whenever a query syncs it. A timer has its due time
and order of creation; callbacks run in that order. Of React and the browser the
module assumes what they document: updates made so far are rendered together,
effects run after their render and before the next one, timers fire by due time
and then by creation, and one callback runs at a time. Clicks can fall between
any two of these. Not modelled: that StrictMode runs effects twice in
development, and the cleanup at unmount, since the section is never unmounted.
`queued.phase` may be "running" while the button still shows the phase of the
last render: a second click before the render starts a second run, which the
model has.

**Sha256, Fnv1a.** A 32-bit word is the set of its bit positions, a 64-bit one
eight octets; rotation, shift and exclusive or are then set operations, and the
functions are checked against the vectors of `core/tests/test_hash_chunk.cpp`
and of FNV's definition whenever a run starts. The instances of `SimVault` and
`RestoreView` take the order and the first node of each chunk from them.
`Sha256Padding` is a module of its own because it is proved about: lengths stay
below 2^43, where the JavaScript numbers are exact.

## 3. The runs

| run | distinct states | bounds | shows |
|---|---|---|---|
| `Cluster` | 93,936 | 1 chunk, R = 3, 3 to 6 nodes | type correctness, seven properties of reads, repair, growth and removal, and `MarginIsCovered` |
| `Restore` | 65,938 | 3 chunks in 3 files, 2 workers, 1 cluster change | five invariants, two liveness properties, refinement of `RestoreContract` |
| `EngineSerial` | 558,373 | 1 process, 3 names, 2 chunks, 4 snapshots, 2 faults, empty store or two legacy snapshots | six properties with crashes and failed writes at every step |
| `EngineConcurrent` | 563,688 | 2 processes, 2 names, 2 chunks, 3 snapshots, 1 fault, no gc, empty store or two legacy snapshots | `SettledSnapshotsRestore`, `NumbersFollowTime` |
| `Cli` | 843,542 | 2 snapshots sharing a chunk, R = 2, 2 to 4 nodes | `ReloadKeepsReplicas`, `MarginPersists` |
| `SimVault` | 33,736 | 2 names, 2 paths, 3 contents, chunks of 2 bytes, 3 nodes, 2 replicas | deduplication, restore with and without failures, plan against restore, the self-check |
| `RestoreView` | 413,984 | 6 chunks of a scaled-down data set, 4 nodes, 2 replicas, both motion preferences | four invariants, `StaleVerdictGoes`, refinement of `RestoreDialog` |

The state spaces of `Cluster`, `Cli`, `SimVault` and `RestoreView` are bounded
by their constants only: histories are unlimited. The hash values are chosen so
that the chunks' placement sets differ, wrap round the ring, and move with every
topology change. R = 3 with six nodes lets two failures follow a repair, and two
removals a growth. The `Cluster` run is that of the specification with the
account of `FaultTolerance`, which restricts no step of the cluster; the two
violation runs use two chunks, R = 2 and up to four nodes. `SimVault`'s contents
are an empty file, a file with a repeated chunk and a partial last one, and a
file that shares that chunk in second place. `RestoreView` has two chunks more
than lanes, so a second wave; with four nodes and two replicas every down-set
occurs, those that lose no chunk, one, and several. The page itself has 14
unique chunks of 64 bytes on five nodes with three replicas. The instance has
the chunks of `SimDataset`, which divides like the page's files at the scale of
two-byte chunks, with the SHA-256 order and first nodes of those; the theorems
of `RestoreView_proofs` hold for any chunks, nodes and replicas. `Restore` has
fewer workers than chunks, so workers come back for more while others still
send; a shared chunk and an empty file are in the manifest; one cluster change
is enough to separate any two Gets. In `Engine` three names are needed for
retain to drop two and keep one, and for it to meet two legacy snapshots and a
new one; two faults let a crash hit the recovery from the first. The fault of
`EngineConcurrent` lets a command be killed beside another that goes on. gc and
retain are left out there, because gc beside a snapshot breaks
`SettledSnapshotsRestore` (`GcRace`); `NumbersFollowTime` is proved with them.
The passing `Engine` runs are those of the specification with its history, which
restricts no step. No run uses symmetry: names, paths, nodes and hashes are
ordered.

`RepairHeals` and `RepairIsIdempotent` are stated of the columns that a repair of
the present state would give, not of the steps of `Repair`, so that a
repair that wrongly does nothing counts too.

`EngineConcurrent` does not check for deadlock: with its snapshots taken and
dropped, no process has a command left to run. In the other runs there is
always something to do, or (`Restore`) the final state stutters explicitly.

### Disagreements between the code and what is said of it

| run | property | what TLC finds |
|---|---|---|
| `DrainSavesOnlyCopies` | same | `repair.go:152` promises that a chunk held only by the removed node survives; it does not when no other node is up, or when the nodes of its new placement set are all down |
| `RemovalKeepsIntactBytes` | same | a removal copies an unhashed rotten replica and deletes the intact one (`repair.go:204`), where `repair_test.go:174` says no chunk is corrupted by a removal |
| `GcRace` | `GcNeverTouchesReferenced` | a gc and a snapshot that stores a chunk, or finds it stored, after gc has read the manifests, and completes before it sweeps: gc unlinks a chunk the finished manifest references (`FORMAT.md:31`) |
| `TornChunk` | `CompletedSnapshotRestores` | svcore is killed after it created a chunk file and before it wrote it; a later snapshot finds the file, skips the chunk (`content_store.cpp:25`), completes with nothing failing, and does not restore (`engine.h:75`) |
| `DeepVerifyRepair` | `RepairFollowsDeepVerify` | in the command-line tool a corrupt chunk is corrupt on every node, so the repair that `README.md:83` announces never has a good copy |

`GcNeverTouchesReferenced` holds in `EngineSerial`: one process at a time is
what it needs.

`CompletedSnapshotRestores` asks only of snapshots during which nothing fails. A
snapshot whose own flush is lost as the stream closes (`fs_util.cpp:74-78`,
`LoseBufferedChunk`) completes and does not restore either; after such
a fault only `RestorableUntilReplaced` says anything of restoring.

Two snapshot commands that overlap in time can take the same sequence number, and the
number of a dropped newest snapshot comes back; `FORMAT.md:56` promises an order from
oldest to newest, which between overlapping snapshots means nothing.
`NumbersFollowTime` is what remains true: a snapshot that was complete when another
began has the smaller number.

Between the render of a new down-set and the effect that follows it, the page
has the new nodes with the old verdict; the properties of what is displayed
therefore speak of settled states, and `StaleVerdictGoes` says that the state
passes.

## 4. Fairness

`Restore` and `RestoreView` have liveness properties. In `Restore`, `WF(WorkerStep(w))`, `WF(CloseJobs)`,
`WF(CloseResults)` and `WF(MainStep)` say that the Go scheduler eventually runs
each goroutine that can run; a send or receive is enabled when its partner is
ready, so weak fairness per goroutine is what the runtime gives. No fairness is
put on `ClusterChanges`, nor on one case of a select against another: the two
liveness properties hold however selects choose. `RestoreContract` has weak
fairness on its whole next-state relation, which the refinement check covers.

In `RestoreView`, `WF(TimerFires)`, `WF(Render)` and `WF(ResetEffect)` say that
the event loop calls back a due timer, and that React renders queued updates and
runs the effects of a render. None is put on clicks: the visitor may leave.
`RestoreDialog` has weak fairness on giving the verdict.

## 5. What is proved

All proofs are for every value of the constants, under the assumptions the
modules name: R is positive and at most MaxNodes, hash values are naturals, the
set of workers is not empty, the manifest is a finite sequence of finite
sequences of chunks; for the web demo also that the unique chunks are distinct
and stored, that a message is shorter than 2^43 bytes, and what is named under
`SimVault_proofs`. Nothing else is assumed.

`ClusterOps_proofs` has no behaviours in it: what the rules for one chunk's column
do, for the cluster's and the commands' proofs alike.

- `PlacementIsRDistinctNodes` - the ring walk from `Hash[h] % n` meets R
  different nodes. It rests on facts about addition modulo n over R <= n steps.
- A placement set has at least R - k up nodes when k nodes are down (`PlacedUp`),
  by cardinality.
- What repair does to a column is a count over the walk round the ring. The turns
  of the walk at which it still stores are an initial segment, so the spare
  node of the last one has fewer than R - live filled before it: never more than
  R become live (`FilledFew`). If some spare node was left out, then when the walk
  came to it enough had been filled (`FilledEnough`). The counts need
  `DisjointUnion`, proved from bijections.

`Cluster_proofs`:

- `TypeCorrect` - `TypeOK`, which is inductive by itself: growth, drain and
  shrinking keep the columns and the up flags aligned with the node count.
- `GetIsComplete`, `GrowthIsSafe`, `RebalanceIsExact`, `RemovalIsSafe` - from
  `TypeCorrect`. `RebalanceIsExact` says both ways what is up afterwards: all of the
  placement set and nothing else if some up node held the chunk or the drain gave it to
  one, none only if there was nothing to copy from. `DrainedSource` and `ShrunkLive`
  follow the drained copy through the renumbering. The last three turn on one lemma: R distinct placement nodes and
  fewer than R nodes down leave an up node in the placement set, to which
  rebalance then copies.
- `RepairIsComplete`, `RepairTwiceIsOnce`, `RepairIsHarmless` - `RepairHeals`,
  `RepairIsIdempotent` and `RepairHarmsNothing`, from the walk lemmas.
- `AccountIsCovered` - `MarginIsCovered`, for any R, any number of nodes and any
  history, with one lemma per action. The invariant is the property itself with
  `TypeOK`; the steps count. An upload, and a rebalance of a clean chunk, puts an
  intact replica on every up node of a placement set; a failure, a removal or rot
  takes one replica away; a repair is `HealedEnough`. That a removal may spend
  first and renew afterwards needs drain to leave a chunk alone that another node
  holds, and the renumbering to bring no node down.

`Cli_proofs` (any chunks, snapshots, R and interleaving with svcore, rot and kills):

- `TypeCorrect` - `TypeOK`, inductive by itself. Besides the types it says that no
  node is down or on record that the file's node count does not cover, through
  the renumbering of remove-node and a file cut short.
- `ReloadIsFaithful` - `ReloadKeepsReplicas`. What `SaveState` drops of a column
  (replicas on the placement set) is what rehydrate puts back, and what it keeps
  of a cluster that holds no chunk is what it had loaded.
- `MarginSurvives` - `MarginPersists`. The property speaks of cluster.json, but a
  command earns and spends redundancy in memory, so the invariant `CliInv` has to say what
  both are worth: `FileCovers` counts for each chunk the up nodes on
  which the next command would put its bytes (the placement set and those on
  record), and `MemCovers` says what the running command's cluster is worth once
  written - a put's nodes are all up, a repair has filled each column as far as
  there are up nodes, a fail-node or recover holds no chunk and carries the counts
  of the file it read. `MarginIsOfGoodChunks` says that only a chunk that is
  referenced and intact in the store has any redundancy to lose, since every replica is
  re-read from it. TLC checked `CliInv` over all states of the `Cli` run before it was
  proved.

`Restore_proofs` (one lemma per action):

- `IndInvHolds` - `IndInv`: the four safety invariants with `CloseOrder`
  (jobs closed early only by cancellation, workers leave only because of either,
  results closed only when all have left), `CancelCause` (the context is
  cancelled by the first error or by returning) and `CallerProgress` (what the
  collector can have learned in each phase). The strengthening is needed where
  the range over results ends: only from all three together does it follow that
  nothing is pending or in flight, and so that everything has been fetched. TLC
  checked `IndInv` as an invariant before it was proved.
- `TypeCorrect`, `NoChunkLostOrRepeated`, `VerifiedFirst`, `CleanFailure`,
  `ChannelSafety`.
- `StepsAreContractSteps` - the safety part of the refinement: each step is a
  step of `RestoreContract` or leaves phase and files as they were.

`Engine_proofs` (any names, chunks, contents, bounds and any sequence of the four
commands, crashes and failed writes, on an empty store or any legacy one).
`TypeCorrect`, `NumbersFollow` and `SettledRestores` are for any number of svcore
processes; the others assume a single one (`Proc = {svcore}`), which is what svcore,
having no lock, needs: with two, `GcRace` refutes `GcIsSafe`.

- `IInvHolds` - `IInv`: the types of the files and of the locals (`Types`); what the
  locals mean at each place (`Placed`: the chunk about to be created has no file,
  the one being filled is torn, the manifest being sealed is one's own); while
  manifests are read, those read parse and `found` says what they say (`ScanOK`); while
  chunks are swept, all manifests parse and none references what is left to sweep
  (`SweepOK`); no sequence number exceeds the snapshots begun (`SeqOK`); without faults, what a snapshot no longer has to store is stored
  (`StoreOK`). None of the properties is inductive: that gc is safe needs to know
  what its scan had seen, and that a listed snapshot restores needs to know what
  its command had stored before. TLC checked `IInv` on the bounds of
  `EngineSerial` before it was first proved.
- `ListedRestores`, `FullScanFirst`, `GcIsSafe`,
  `RestorableForGood` follow.
- `RetainIsOldestFirst` - `RetainDropsOldestFirst`, from `IInv` and `TrimOK`: while
  retain drops, its victims are listed as it read them, every other snapshot is
  newer than each of them, and there are as many others as it was told to keep. Numbers may tie,
  so this is about the order by number and then name, which is total on the
  manifests found; that the oldest of the victims exists and that the newest k
  are k needs the manifests found to be finitely many.
- `TypeCorrect` - `TypeOK`, from `AnyInv`. With several processes the hard part is the bound
  on sequence numbers: `Numbered` says that none exceeds the snapshots begun
  less those that have still to choose their number, whoever they are.
- `NumbersFollow` - `NumbersFollowTime`, with all four commands. `Ahead` says of a
  snapshot command and of each listed manifest untouched since it began that the
  manifest is still to be read, or among those read, or already has a number
  below the one chosen. It needs `AnyInv` for the numbers' types, and that whatever any process
  does to a manifest takes it off every other command's list, or leaves its number.
- `SettledRestores` - `SettledSnapshotsRestore`, when the commands run are
  snapshot and drop, as in the run `EngineConcurrent` (gc beside a snapshot
  breaks it: `GcRace`). `Settling` says of every process that what
  it no longer has to store has a file, `Stored` the same of listed snapshots and that
  a torn file has a process that is still filling it; so when all are idle no
  file is torn. No process's part is invariant without the others', since a
  snapshot relies on files that others have only created.

`RestoreView_proofs` (for any chunks, nodes, replicas and hash values):

- `InvariantHolds` - `IInv`, inductive. Its core is `RunInv`: what is
  queued belongs to one run over some down-set `d`: idle with nothing, or running
  with the verdict's timer still armed and exactly the rows pending whose timers
  are left, or ended with the verdict of `d` and no timer; and `d` is the
  displayed down-set unless the reset effect is due. None of the properties is
  inductive alone: that the verdict is right needs to know which nodes the timers
  were made for, that it comes last needs to know which rows they still owe, and
  that a timer finds its row needs both. TLC checked `IInv` first.
- The step where the verdict's timer fires rests on `DelayBounds`: for any number
  of chunks the last wave's delay is below the rounded number of waves plus
  200 ms, so the earliest timer is the verdict's only if it is the last.
- `TypeCorrect`, `CopiesAgree`, `VerdictIsTheLastWord`, `BannerIsTrue` follow.
  `LogIsTrue` also needs the cardinality argument of `Cluster_proofs`, from
  `PlacementIsReplicas` of the web demo's own placement loop.
- `ImplementsDialogSteps` - the safety part of the refinement.

`SimVault_proofs` (any trees, chunk size, names, nodes and replicas; `TreeAssumption`
says that trees are finite and made of bytes and that every chunk has a digest,
`DigestAssumption` that no two byte sequences share one):

- What the loops compute needs induction over data. The library's induction
  theorems have an operator as parameter, so `Numbers_proofs` states them with a
  set instead: `Induct` (a set of numbers with 0 and with k + 1 for each k is
  all of them), `RankInduct` (the same for a set whose elements have a rank that a step
  decreases) and `RecursiveFunction` (what is defined along such a rank exists, so
  that a recursive definition satisfies its equation). Each use gives the set of
  numbers for which the claim holds.
- `JoinedChunks` - for a buffer of any length the chunks joined are the buffer, along
  the rank "bytes left"; `FlattenIs` and `FlattenAppend` for the joining.
- `SortedLists` - `Sorted` of a finite set of numbers lists each of them once, in order.
- `SnapshotRuns`, `SnapshotStores` - the fold of `snapshot` as a sequence of states,
  and what each has stored (`Stored`): a reference is new exactly if neither the
  store nor an earlier reference had its hash.
- `Consistency` - `VaultInv`, inductive: manifests are those of the trees, the store
  has all their chunks, every byte sequence in the store or on a node is under its own
  hash (`Store`), and a chunk that is on one node is on all of its placement set
  (`Everywhere`). TLC checked it over all states of the `SimVault` run first.
- `SnapshotsRestore` - `RestoreReturnsTheTree`, from `VaultInv`, `JoinedChunks` and
  the sorted paths being different, since `treesEqual` looks files up by path.
- `NewContent` - `OnlyNewContentIsWritten`, from `SnapshotStores` and the manifests
  of the snapshots before.
- `RestoreMeetsFailures`, `PlanAndRestoreAgree` - `RestoreFollowsFailures` and
  `PlanForetellsRestore`. `RestoreReports` says where the loop stops: at the first
  chunk of the sorted list that is not available, every fetch before it being
  verified, because bytes on nodes are under their own hashes. What has been verified is
  then counted by a bijection between the events and the chunks before the first lost
  one (`VerifiedCounts`), and fewer than REPLICAS nodes cannot cover a
  placement set (`TooFewToLose`).
- `SelfCheckSucceeds` - `SelfCheckPasses`, if REPLICAS > 1: with a single replica the
  check that takes one node down would rightly fail; `selfcheck.ts` runs it with
  three on five nodes.
- `PaddingIsSoundHolds` - whole blocks, and no two messages padded alike, from
  `TotalFits` (arithmetic modulo 64) and `LengthBytesDetermineLength` (the two
  halves and their bytes put together again).

Only model-checked: the liveness properties (`StaleVerdictGoes` and the two of
`Restore`) and the fairness part of the refinements, which are outside what TLAPS's
backends do here. That the panel's tiles add up (`TilesAreTrue`), and that the
hash functions give their vectors, TLC evaluates as assumptions at the start of the runs.

## 6. Not modelled

- For the C++ and Go programs SHA-256 and FNV themselves: a hash stands for its
  bytes. That no two contents share a SHA-256 is assumed everywhere; the web
  demo's functions are modelled and evaluated, not proved collision-free. Chunk
  boundaries and file sizes in the C++ engine.
- JSON text; a manifest or state file parses or does not.
- Counts and messages the commands print; option parsing.
- `diff`, `verify`, `gc --dry-run`, `status`: they change no state.
- Two snapvault commands at once. They would overwrite each other's
  `cluster.json`, and nothing in the code or its documents says otherwise.
- A restore's file system beyond "a write may fail"; empty directories.
- The web page's presentation: texts, layout, colours, motion (`App.tsx`,
  `Hero.tsx`, `Footer.tsx`, `primitives.tsx` and the markup of the panels).

## 7. What is left

Done: the cluster, the restore pool, the engine, the commands, the web demo's
simulation, its restore section and its hash functions, with the proofs above.

- *Model.* `Engine::diff` and the manifest grammar as pure functions over bounded
  inputs. Two snapvault commands at once on `cluster.json`. `Cli` composed
  with `Engine`, so that missing chunks and torn manifests reach rehydrate.
- *Abstract.* A set-of-restorable-snapshots specification that `Engine`
  with one process implements; a reliable-map specification for `Cluster`
  while fewer than R nodes are down.
- *Prove.* Every safety property of the passing runs is proved. What remains is
  the safety part of any abstract specification added.
