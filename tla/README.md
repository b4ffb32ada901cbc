# Formal models of the koordinator resource manager (resmanager)

These TLA+ modules model the node agent's resource manager in
`src/unnamed/part_000` (package `resmanager`) and the NodeSLO types in
`src/apis/slo/v1alpha1/nodeslo_types.go`. TLC checks them on small
instances, and TLAPS proves the main store, refinement, eviction and boot-order invariants for every value of the
constants.

## The system

The resource manager keeps one piece of shared state: the node's desired QoS
config, `r.nodeSLO`, guarded by `nodeSLORWMutex`. The parts of the system and
how they interact:

| Part | Code | What it does |
|------|------|--------------|
| Config watch adapter | `newNodeSLOInformer` 80-99, the handlers in `NewResManager` 194-218 | A client-go informer with a field selector on this node's name and a 12 h resync. It delivers add and update notifications in order to one handler goroutine. No DeleteFunc is registered. An update whose old and new specs are DeepEqual is dropped. |
| Shared desired-state store | `createNodeSLO` 131-145, `updateNodeSLOSpec` 158-171, `getNodeSLOCopy` 147-156 | Under the write lock, the handler stores the pushed spec and then merges it with the defaults. Readers take the same lock and deep-copy. |
| Merge with defaults | `mergeNodeSLOSpec` 101-129, plus helpers outside `src/` | Each of the three blocks is merged leaf by leaf over the default config. A pushed leaf wins. A merged block replaces the stored one only if it is non-nil. A QoS block also gets the resctrl override when the RDT gate is off. |
| Eviction pipeline | `evictPodsIfNotEvicted` 293-297, `evictPodIfNotEvicted` 299-309, `evictPod` 311-332 | For each pod of a batch, if its UID is in the expiring dedup cache `podsEvicted`, skip it. Otherwise call the Eviction API. On success or NotFound, insert the UID into the cache. |
| Dedup cache | `pkg/tools/cache` (not under `src/`) | A key set whose entries a background sweep drops after a TTL. |
| Direct kill | `killContainers` 334-361 | Walks the pod's containers and stops each running one through its runtime handler, with zero grace. |
| Orchestrator | `Run` 241-284, `hasSynced` 286-291, `isFeatureDisabled` 223-239 | Waits for three cache syncs, then launches the six policy reconcilers through `RunFeature`/`RunFeatureWithInit`. |
| Reconcilers, scheduler | outside `src/` | Read snapshots of the store on a timer. The memory evictor calls the eviction pipeline. |
| Lister, CI | `pkg/client/listers/...` (generated), `.github/workflows/ci.yaml` | Read-only accessors, and build tooling. |

## Modules

### `NodeSLOStore`: the watch adapter and the store

**State.** The module has these variables:
- `cluster`: the API server's NodeSLO, or `Nil`.
- `cache`: the informer's copy.
- `notes`: the handler's queue of add/update notifications.
- `nodeSLO`: the store, `r.nodeSLO`.
- `writing`: the handler holds the write lock between storing the raw spec and finishing the merge.
- `view[r]`: the last copy reader `r` took.
- `writes`, `resyncs`: counters that bound the environment.

A spec is a function from the three blocks to a block or `Nil`. A block is a
function from abstract leaves to a value or `Nil`, which mirrors the pointer
fields of `nodeslo_types.go`.

**Actions.**
- Environment:
  - `WriteNodeSLO(s)` and `DeleteNodeSLO` change `cluster`.
  - `WatchDeliver` moves `cache` to `cluster` and queues what the informer would deliver: an add when the cache was empty, an update otherwise, and nothing for a delete.
  - `Resync` queues update(cache, cache).
- Handler:
  - `CreateNodeSLO` is the AddFunc plus the first half of `createNodeSLO`.
  - `UpdateNodeSLOSpec` is the UpdateFunc. It drops the update when old = new, and otherwise does the first half of `updateNodeSLOSpec`.
  - `MergeAndUnlock` is `mergeNodeSLOSpec` and the unlock. It pops the note.
- Readers: `GetNodeSLOCopy(r)` needs the lock to be free.

Splitting the critical section at the merge is what lets the model say the
lock matters. The merge of each block (`MergeBlock`, and
`MergeNoneResourceQoSIfDisabled`) is written from spec section 4.2, because
those helpers live outside `src/`.

### `EvictionPipeline`: batch eviction with the dedup cache

**State.** Each pod has a `phase`: running, terminating or gone. `evicted` is
the set of live cache entries. Each caller has these variables:
- `pc`: its place in the loop.
- `todo`: the pods of the batch still to handle.
- `batch`, `tried`, `skipped`: the batch, and which pods were tried or skipped.
- `cur`: the current pod.
- `success`, `outcome`: the last answer.

`calls[p]` counts the Eviction requests sent for `p`, and `events` and `metric`
record what `evictPod` reports.

**Actions.**
- `EvictPodsIfNotEvicted(c, B)` starts a batch and `BatchDone(c)` ends it.
- `EvictPodIfNotEvicted(c, p)` is the cache lookup.
- `EvictPod(c)` makes one Eviction API call. Its answer is in `Answers(p)`: accepted or error for a live pod, NotFound or error for a gone one.
- `SetDefault(c)` inserts the UID when the answer was a success, then goes to the next pod.
- `Expire(p)` is the TTL sweep, and `PodDeleted(p)` is the pod going away.

### `KillContainers`: the direct-kill loop

Each container is abstracted to the branch of the loop body it takes: no
status, not running, empty ID, no runtime handler, stop fails, or stops. The
actions are `Call(cs)`, `ReturnEarly` (lines 340 and 344), `SkipContainer`
(the empty-ID warning, and the `continue` at 352), `StopContainer` (its error
is only logged) and `LoopEnd`.

### `NodeSLOStoreAbstract`: what the store promises

The abstract store has two variables:
- `desired`: nil, or the merge of a pushed spec with the defaults.
- `view`: each reader's copy.

It has two actions. `Apply(s)` jumps in one step to `MergedSpec(s)`, and `Read(r)` copies `desired`. The merge is stated leaf by leaf (`MergedLeaf`):
- the resctrl enable is off while the RDT gate is off;
- a pushed leaf wins;
- every other leaf is the default.

`NodeSLOStore` implements it under a refinement mapping (`AbstractStore` in `NodeSLOStore`). While `writing`, the store maps to the merge of the raw spec the handler has just stored. Otherwise it maps to `nodeSLO`. So the raw-store step is the abstract `Apply`, the merge-and-unlock step is a stutter, and a reader's copy is `Read`.

### `ResManager`: `Run` composed with the store

`ResManager` extends `NodeSLOStore` with the orchestrator. It has these variables:
- `boot`: where `Run` is.
- `launchIdx`: the next policy to launch, in `PolicyOrder`.
- `policy[p]`: pending, disabled, initFailed or running.
- `listed`: the informer did its initial list.
- `statesSynced`: the states informer reports sync.
- `stopped`: `stopCh` is closed.
- `lastTick`: the last reconciler tick and what it decided.

The actions, and the code each stands for:
- `StartRun` is lines 241-246. `InitialList` is the informer goroutine started at 248, doing its first list.
- `WaitNodeSLOInformer`, `WaitStatesInformer` and `WaitNodeSLOSynced` are the three `WaitForCacheSync` calls (249, 253, 256). `hasSynced` (`HasSynced`) takes the lock, so the last wait needs `~writing`.
- `WaitAborted` is any of the three waits returning false, which `WaitForCacheSync` does only when `stopCh` closes.
- `Launch` is one of the six launches (260-278), in order. `LaunchOutcomes` is the scheduler of spec section 4.3: a gate that is off disables the policy; an init runs synchronously and may fail, which disables the policy for good.
- `LaunchDone` and `Return` are lines 280-283.
- The informer and the store steps are those of `NodeSLOStore`. The informer steps are enabled only between the start and `Stop`.
- `Tick(p)` is one tick of a running policy: it reads the store under the read lock. For `BECPUSuppress` and `BEMemoryEvict` it decides with `IsFeatureDisabled`, which is `isFeatureDisabled` (223-239). `TickOutcome` is "unready" when that check fails, or when another policy reads a nil store.

## Runs

The model values and bounds:
- NodeSLO: two leaves, two values, the default sets five of six leaves, three pushed specs (empty, threshold-only, QoS+burst), two readers, 4 writes, 1 resync. This is enough to reach create, update, DeepEqual drop, delete then re-create (an "update" from the informer's view), resync, and readers racing the handler.
- Eviction: two pods, one caller, 2 calls per pod. This reaches error, success, NotFound on a gone pod, expiry then re-eviction, and a stale batch.
- Kill: pods of up to 3 containers. This reaches every order of the six branches.
- ResManager: the store as above, with no readers, 3 writes and 1 resync. The six real policies are used, in `Run`'s order, with the three inits of the code and the RDT gate off. This reaches every wait with and without a NodeSLO, a stop in each wait, init failures before and after other launches, and ticks that race deletes, re-creates and pushes without a threshold block.

| Run | Checks | Result |
|-----|--------|--------|
| `store_merge` | `TypeOK`; `NoNilDefaultLeaf`: when unlocked, the store has every block and every default leaf; `StoreFollowsCache`: when the queue is drained, the store is the leaf-wise merge of the cache, checked against an independent per-leaf reference `ExpectedLeaf` | pass, 17,068 states |
| `store_order` | `SnapshotMerged`: every reader copy is a merged spec; `NoUpdateBeforeCreate`: no update reaches an empty store (the nil dereference at line 164); `StoreConverges`: the store eventually always reflects the NodeSLO | pass |
| `eviction` | `TypeOK`; `CacheOnlyEvicted`: a cached pod is never running; `BatchAttemptsAll`: a finished batch tried or skipped every pod; `NoEvictWhileCached`: no request is sent for a cached pod (an action property) | pass, 14,112 states |
| `eviction_notfound` | `NotFoundNotCached`: only an accepted eviction inserts a cache entry (spec 4.4) | violation, as expected |
| `kill` | `TypeOK`; `HandlerFailureIsolated`: skipping a container with no handler or no ID does not prevent later stops | pass |
| `kill_siblings` | `EveryRunningContainerStopped` (spec 4.4) | violation, as expected |
| `store_refinement` | `StoreRefinesAbstract`: `NodeSLOStore` implements `NodeSLOStoreAbstract` | pass, 17,068 states |
| `resmanager` | `BootTypeOK`; `ReconcilersSeeSyncedSpec`: no tick sees a nil or unparseable store; `BootCompletes`: if the NodeSLO exists from some point on and `stopCh` stays open, every policy is launched (running, disabled or initFailed)| pass, 127,374 states |
| `boot_no_nodeslo` | `BootTerminates`: `Run` gets past its waits or returns (spec 4.5 and 7) | violation, as expected |

Every property of a passing run has a mutant in `PROJECT.json` that TLC
catches. The mutant operators are written just before the definition they
replace.

**Findings.**
1. `evictPod` returns true on NotFound, so the UID is cached. The spec says NotFound leaves no dedup entry.
2. `killContainers` returns at the first container with no status or that is not running. Running containers after it are never stopped. The spec says each container is handled independently.
3. `WaitForCacheSync` has no deadline and returns false only when `stopCh` closes. With no NodeSLO for the node, `Run` waits at line 256 forever and no policy starts. The spec says a startup wait that times out is a fatal error.

## Fairness

`StoreConverges` assumes weak fairness of `WatchDeliver`, `CreateNodeSLO`,
`UpdateNodeSLOSpec` and `MergeAndUnlock`:
- The informer's reflector and the handler goroutine run for as long as `stopCh` is open.
- The handler holds the lock for a bounded time.

Readers, writes and resyncs get no fairness. The eviction and kill models
check safety only.

`BootCompletes` assumes weak fairness of these, under `RMFairness`:
- `Run`'s own steps: one goroutine, which blocks only in the waits.
- The informer's initial list and watch.
- The handler's three steps.
- The states informer's sync.

Ticks, stops, writes and deletes get no fairness. The property's hypothesis
asks that the NodeSLO exist from some point on and that `stopCh` stay open.

## Proofs

### `NodeSLOStoreProofs`

The proofs assume only the module's ASSUMEs:
- `Nil` is not a value, a block or a spec.
- The default config is a total spec.
- The pushed specs are specs.
- The bounds are naturals.

| Theorem | Property | What it proves |
|---------|----------|----------------|
| `TypeCorrect` | `TypeOK` | `Spec => []TypeOK` |
| `SnapshotsAreMerged` | `SnapshotMerged` | `Spec => []SnapshotMerged` |
| `MergeIsTotal` | `NoNilDefaultLeaf` | `Spec => []NoNilDefaultLeaf` |

**The argument.**
- `TypeOK` is not inductive. `MergeAndUnlock` pops `notes`, so the proof needs `TypeInv == TypeOK /\ (writing => notes # <<>>)`.
- `SnapshotMerged` is not inductive either: a reader copies `nodeSLO`, so the store itself must hold a merged spec when unlocked. This is `StoreMerged`, and `IInv == TypeInv /\ StoreMerged /\ SnapshotMerged`.
- The key lemma, `MergeNodeSLOSpecType`, says merging a pushed spec into any stored spec gives `MergeNodeSLOSpec(in, in)`, because every merged block is non-nil whenever the default is total. This is why the result does not depend on what was stored before.
- `MergeIsTotal` follows from `StoreMerged` and `MergedLeafSet`.

### `NodeSLOStoreRefinementProofs`

`StoreImplementsAbstract` proves `Spec => StoreRefinesAbstract`. It uses the invariant `RInv == TypeInv /\ WritingHead`, where `WritingHead` says that while `writing`, the store holds the spec of the note at the head of the queue. With it:
- the raw store of `CreateNodeSLO`/`UpdateNodeSLOSpec` is `Apply` of a pushed spec (lemma `StoreIsApply`);
- `MergeAndUnlock` stores `MergeNodeSLOSpec(s, s)`, which lemma `MergeIsAbstractMerge` shows equal to `MergedSpec(s)`, so the step is a stutter.

`MergeIsAbstractMerge` rests on `MergedBlockLeaf`, which computes each leaf of a merged block.

### `EvictionPipelineProofs`

`EvictionTypeCorrect`, `CacheNeverHidesRunningPod` and `BatchIsExhaustive` hold for any pods, callers and bound. They rest on `EInv`, which adds three facts:
- A caller between the lookup and `SetDefault` has a current pod.
- A caller about to record a success holds a pod that is no longer running (`RecordSafe`), because no step makes a pod running again.
- Every pod of a batch is to do, tried or skipped.

`SingleEvictorNoEvictWhileCached` proves the action property `NoEvictWhileCached` under the hypothesis `Callers = {c0}`. `Run` launches exactly one memory evictor, the only caller of `evictPodsIfNotEvicted` in this code. The proof uses the invariant `Fresh`: between the lookup and the Eviction request, the pod is absent from `podsEvicted`. With two callers the property fails, a race that spec section 5 accepts.

### `ResManagerProofs`

`ReconcilersNeverSeeUnsyncedSpec` proves `RMSpec => []ReconcilersSeeSyncedSpec`. It adds one assumption, `EnableDefaultAssumption`: the default config sets `Enable`. Its invariant is `IInv` plus `Synced`:
- once `Run` is past `hasSynced`, the store is not nil;
- a running policy implies `Run` is past `hasSynced`.

The store is never nil again once set, because of two facts. Create and update store a pushed spec. A merge of a non-nil store gives a spec (`MergeNodeSLOSpecType`). A tick runs with the lock free, so `StoreTotal` (the store is a total merge) gives it a threshold block with an `Enable` leaf (lemma `TickReady`). Lemma `StoreSteps` shows that every step of the composition is a step or a stutter of the store, which lets the store's `IInvNext` be reused.

`BootTypeCorrect` proves `RMSpec => []BootTypeOK`. `BootTypeOK` is inductive as it stands.

### `NodeSLOStoreQueueProofs`

`StoreFollowsCacheHolds` proves `Spec => []StoreFollowsCache`, and `NoNilDereferenceOnUpdate` proves `Spec => []NoUpdateBeforeCreate`. Neither property is inductive: both depend on what the informer has queued. The invariant `QInv` adds four facts about the queue to `RInv`:
- `Chained`: each queued update's old object is the new object of the notification before it.
- `LastIsCache`: the last notification carries the cached object, unless a delete has since emptied the cache. A delete queues nothing, because there is no DeleteFunc.
- `HeadApplied`: with the lock free, an update at the head meets a store holding the merge of its old object. This is why the DeepEqual drop loses nothing.
- `DrainedApplied`: with the queue empty, the store holds the merge of the cached object.

The queue lemmas `PopChain` and `PushChain` say what popping the head and appending a notification do to the chain. `PopKeepsQueue` and `PushKeepsQueue` lift them to the handler finishing a notification and the informer queueing one. `MergeReflects` turns a stored merge into the leaf-wise `Reflects` by way of `MergeIsAbstractMerge`. TLC checked `QInv` on the `store_merge` instance before it was proved.

### `KillContainersProofs`

`KillTypeCorrect` and `HandlerFailureIsolatedHolds` hold for any bound on the containers of a pod. They rest on the loop invariant `LoopDone`: while the loop runs, every container before the index is running, and each stoppable one was sent a stop. Lemma `PodIsSeq` shows that a pod's containers form a sequence of the right length.

### What stays model-checked

- The liveness properties `StoreConverges` and `BootCompletes` are only model-checked. TLAPS does not handle fairness or ENABLED.
- Every invariant and action property of the passing runs is now stated by a theorem. `NoEvictWhileCached` is proved only for the single caller the code has.
- The violation runs show divergences between code and spec, and are not theorems.

## Not modelled

- **No DeleteFunc** (line 194). The deletion of a NodeSLO never reaches the store. Spec section 3 intends this, so no property states the opposite. `ReconcilersNeverSeeUnsyncedSpec` depends on it.
- **Pointer aliasing** (line 138). The store shares the informer cache's block pointers until the merge replaces them. A value model cannot see this, so only `NoNilDefaultLeaf` (every block is replaced) bears on it.
- **The reconcilers' bodies, the intervals and the dedup cache's TTL.** These are outside `src/`. They enter the model only as `Tick`, `LaunchOutcomes` and `Expire`.
- **The generated lister.** It only reads, and `Run` never uses it.
- **The CI workflow.** It is build tooling, not part of the running system.
