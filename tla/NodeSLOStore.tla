---------------------------- MODULE NodeSLOStore ----------------------------
(***************************************************************************)
(* The shared desired-state store of the koordlet resmanager               *)
(* (src/unnamed/part_000, package resmanager): the NodeSLO of this node    *)
(* as the API server holds it, the informer's local cache of it, the      *)
(* informer's queue of add/update notifications, the event handlers       *)
(* createNodeSLO / updateNodeSLOSpec that write r.nodeSLO under           *)
(* nodeSLORWMutex and merge it with the default config, and the           *)
(* reconcilers that read it with getNodeSLOCopy.                          *)
(*                                                                         *)
(* A NodeSLOSpec is abstracted to its three strategy blocks               *)
(* (ResourceUsedThresholdWithBE, ResourceQoSStrategy, CPUBurstStrategy),  *)
(* each nil or a function from leaf fields to a value or nil.  Object     *)
(* metadata, JSON dumps and log lines are left out.                       *)
(***************************************************************************)
EXTENDS Naturals, Sequences

CONSTANTS
    Leaf,               \* leaf fields of a strategy block
    Values,             \* values a leaf field may take
    Nil,                \* Go nil: absent leaf, block, object or store
    Default,            \* util.DefaultNodeSLOSpecConfig(), as a spec
    ResctrlLeaf,        \* the Enable leaf of the resctrl QoS sub-policy
    Disabled,           \* the value false of an Enable leaf
    RdtResctrlEnabled,  \* feature gate RdtResctrl
    PushedSpecs,        \* the specs the control plane may push
    Readers,            \* the reconcilers calling getNodeSLOCopy
    MaxWrites,          \* bound on writes to the NodeSLO in the API server
    MaxResyncs          \* bound on periodic informer resyncs

\* The three strategy blocks of NodeSLOSpec (nodeslo_types.go 223-230).
Blocks == {"threshold", "qos", "burst"}

BlockT == [Leaf -> Values \cup {Nil}]
SpecT == [Blocks -> BlockT \cup {Nil}]

ASSUME NilAssumption ==
    /\ Nil \notin Values
    /\ Nil \notin BlockT
    /\ Nil \notin SpecT

ASSUME DefaultAssumption ==
    /\ Default \in [Blocks -> BlockT]
    /\ ResctrlLeaf \in Leaf
    /\ Disabled \in Values
    /\ RdtResctrlEnabled \in BOOLEAN

ASSUME PushedAssumption == PushedSpecs \subseteq SpecT

ASSUME BoundsAssumption == MaxWrites \in Nat /\ MaxResyncs \in Nat

VARIABLES
    cluster,   \* the NodeSLO named after this node in the API server, or Nil
    cache,     \* the nodeSLOInformer's indexer entry for it, or Nil
    notes,     \* notifications queued for the registered event handler
    nodeSLO,   \* r.nodeSLO (its Spec), or Nil before the first add
    writing,   \* the handler holds nodeSLORWMutex between assign and merge
    view,      \* the last copy each reconciler got from getNodeSLOCopy
    writes,    \* writes to the NodeSLO so far
    resyncs    \* informer resyncs so far

vars == <<cluster, cache, notes, nodeSLO, writing, view, writes, resyncs>>

Note == [kind : {"add"}, old : {Nil}, new : PushedSpecs]
        \cup [kind : {"update"}, old : PushedSpecs, new : PushedSpecs]

(***************************************************************************)
(* The merge of a pushed spec with the default config.                    *)
(***************************************************************************)

\* Mutation: whole-block replacement, the pushed block wins entirely.
MergeBlockReplace(d, p) == IF p = Nil THEN d ELSE p

\* Mutation: the default wins over a pushed leaf.
MergeBlockDefaultFirst(d, p) ==
    IF p = Nil THEN d
    ELSE [l \in Leaf |-> IF d[l] # Nil THEN d[l] ELSE p[l]]

\* mergeSLOSpec{ResourceUsedThresholdWithBE,ResourceQoSStrategy,
\* CPUBurstStrategy}: a nil block inherits the default block; otherwise
\* every leaf the push sets wins and every other leaf takes the default.
MergeBlock(d, p) ==
    IF p = Nil THEN d
    ELSE [l \in Leaf |-> IF p[l] # Nil THEN p[l] ELSE d[l]]

\* mergeNoneResourceQoSIfDisabled: with RdtResctrl off the resctrl QoS
\* sub-policy is disabled whatever the merge produced.
MergeNoneResourceQoSIfDisabled(q) ==
    IF RdtResctrlEnabled \/ q = Nil THEN q
    ELSE [q EXCEPT ![ResctrlLeaf] = Disabled]

\* Mutation: the resctrl override mergeNoneResourceQoSIfDisabled is skipped.
MergedBlockNoResctrlOverride(b, p) == MergeBlock(Default[b], p)

MergedBlock(b, p) ==
    IF b = "qos" THEN MergeNoneResourceQoSIfDisabled(MergeBlock(Default[b], p))
    ELSE MergeBlock(Default[b], p)

\* mergeNodeSLOSpec: each block of r.nodeSLO.Spec is replaced by the
\* merge of the incoming block, unless that merge is nil.
MergeNodeSLOSpec(raw, in) ==
    [b \in Blocks |-> IF MergedBlock(b, in[b]) # Nil
                        THEN MergedBlock(b, in[b]) ELSE raw[b]]

(***************************************************************************)
(* The API server and the informer (client-go, outside this repository).  *)
(***************************************************************************)

Init ==
    /\ cluster = Nil
    /\ cache = Nil
    /\ notes = <<>>
    /\ nodeSLO = Nil
    /\ writing = FALSE
    /\ view = [r \in Readers |-> Nil]
    /\ writes = 0
    /\ resyncs = 0

\* The control plane creates or changes the spec of this node's NodeSLO.
WriteNodeSLO(s) ==
    /\ writes < MaxWrites
    /\ s # cluster
    /\ cluster' = s
    /\ writes' = writes + 1
    /\ UNCHANGED <<cache, notes, nodeSLO, writing, view, resyncs>>

\* The control plane deletes this node's NodeSLO.
DeleteNodeSLO ==
    /\ writes < MaxWrites
    /\ cluster # Nil
    /\ cluster' = Nil
    /\ writes' = writes + 1
    /\ UNCHANGED <<cache, notes, nodeSLO, writing, view, resyncs>>

\* The informer's list/watch brings its cache up to the API server and
\* queues an add or an update; no handler is registered for deletes.
WatchDeliver ==
    /\ cache # cluster
    /\ cache' = cluster
    /\ notes' = CASE cache = Nil   -> Append(notes, [kind |-> "add", old |-> Nil, new |-> cluster])
                  [] cluster = Nil -> notes
                  [] OTHER         -> Append(notes, [kind |-> "update", old |-> cache, new |-> cluster])
    /\ UNCHANGED <<cluster, nodeSLO, writing, view, writes, resyncs>>

\* Mutation: the resync also fires for an object missing from the cache.
ResyncUncached ==
    /\ resyncs < MaxResyncs
    /\ notes' = Append(notes, [kind |-> "update", old |-> cache, new |-> cache])
    /\ resyncs' = resyncs + 1
    /\ UNCHANGED <<cluster, cache, nodeSLO, writing, view, writes>>

\* The 12-hour resync re-delivers the cached object as an update to itself.
Resync ==
    /\ resyncs < MaxResyncs
    /\ cache # Nil
    /\ notes' = Append(notes, [kind |-> "update", old |-> cache, new |-> cache])
    /\ resyncs' = resyncs + 1
    /\ UNCHANGED <<cluster, cache, nodeSLO, writing, view, writes>>

(***************************************************************************)
(* The event handler registered in NewResManager.  It runs on a single    *)
(* goroutine and so takes the notifications in queue order.               *)
(***************************************************************************)

\* Mutation: AddFunc drops the object (its type assertion fails).
CreateNodeSLODropped ==
    /\ ~writing
    /\ notes # <<>>
    /\ Head(notes).kind = "add"
    /\ notes' = Tail(notes)
    /\ UNCHANGED <<cluster, cache, nodeSLO, writing, view, writes, resyncs>>

\* AddFunc -> createNodeSLO: take the lock, store a copy of the object with
\* the pushed spec; the merge follows under the same lock.
CreateNodeSLO ==
    /\ ~writing
    /\ notes # <<>>
    /\ Head(notes).kind = "add"
    /\ nodeSLO' = Head(notes).new
    /\ writing' = TRUE
    /\ UNCHANGED <<cluster, cache, notes, view, writes, resyncs>>

\* Mutation: UpdateFunc is not registered; every update is dropped.
UpdateNodeSLOSpecIgnored ==
    /\ ~writing
    /\ notes # <<>>
    /\ Head(notes).kind = "update"
    /\ notes' = Tail(notes)
    /\ UNCHANGED <<cluster, cache, nodeSLO, writing, view, writes, resyncs>>

\* UpdateFunc: a notification whose spec did not change is dropped;
\* otherwise updateNodeSLOSpec takes the lock and stores the pushed spec
\* (r.nodeSLO.Spec = nodeSLO.Spec), the merge following under the lock.
UpdateNodeSLOSpec ==
    /\ ~writing
    /\ notes # <<>>
    /\ Head(notes).kind = "update"
    /\ IF Head(notes).old = Head(notes).new
         THEN /\ notes' = Tail(notes)
              /\ UNCHANGED <<nodeSLO, writing>>
         ELSE /\ nodeSLO' = Head(notes).new
              /\ writing' = TRUE
              /\ UNCHANGED notes
    /\ UNCHANGED <<cluster, cache, view, writes, resyncs>>

\* mergeNodeSLOSpec on the incoming object, then the deferred Unlock; the
\* handler returns and the notification leaves the queue.
MergeAndUnlock ==
    /\ writing
    /\ nodeSLO' = IF nodeSLO = Nil THEN nodeSLO
                  ELSE MergeNodeSLOSpec(nodeSLO, Head(notes).new)
    /\ writing' = FALSE
    /\ notes' = Tail(notes)
    /\ UNCHANGED <<cluster, cache, view, writes, resyncs>>

(***************************************************************************)
(* Readers.                                                               *)
(***************************************************************************)

\* Mutation: getNodeSLOCopy reads r.nodeSLO without taking the lock.
GetNodeSLOCopyUnlocked(r) ==
    /\ view' = [view EXCEPT ![r] = nodeSLO]
    /\ UNCHANGED <<cluster, cache, notes, nodeSLO, writing, writes, resyncs>>

\* getNodeSLOCopy: under the lock, a deep copy of r.nodeSLO, or nil.
GetNodeSLOCopy(r) ==
    /\ ~writing
    /\ view' = [view EXCEPT ![r] = nodeSLO]
    /\ UNCHANGED <<cluster, cache, notes, nodeSLO, writing, writes, resyncs>>

Next ==
    \/ \E s \in PushedSpecs : WriteNodeSLO(s)
    \/ DeleteNodeSLO
    \/ WatchDeliver
    \/ Resync
    \/ CreateNodeSLO
    \/ UpdateNodeSLOSpec
    \/ MergeAndUnlock
    \/ \E r \in Readers : GetNodeSLOCopy(r)

\* The informer goroutines and the handler goroutine run for the life of
\* the process, so each of their steps, once enabled, is taken.
Fairness ==
    /\ WF_vars(WatchDeliver)
    /\ WF_vars(CreateNodeSLO)
    /\ WF_vars(UpdateNodeSLOSpec)
    /\ WF_vars(MergeAndUnlock)

Spec == Init /\ [][Next]_vars /\ Fairness

(***************************************************************************)
(* Properties.                                                            *)
(***************************************************************************)

TypeOK ==
    /\ cluster \in PushedSpecs \cup {Nil}
    /\ cache \in PushedSpecs \cup {Nil}
    /\ notes \in Seq(Note)
    /\ nodeSLO \in SpecT \cup {Nil}
    /\ writing \in BOOLEAN
    /\ view \in [Readers -> SpecT \cup {Nil}]
    /\ writes \in 0..MaxWrites
    /\ resyncs \in 0..MaxResyncs

\* The specs a merge can produce.
MergedSpecs == {MergeNodeSLOSpec(s, s) : s \in PushedSpecs}

\* A reconciler never sees a half-written spec: every copy taken by
\* getNodeSLOCopy is nil or a spec merged with the defaults, never the raw
\* pushed spec that createNodeSLO/updateNodeSLOSpec store before merging.
SnapshotMerged ==
    \A r \in Readers : view[r] \in MergedSpecs \cup {Nil}

\* Whenever the lock is free, every leaf the default config sets is set in
\* the stored spec (spec section 3: reconcilers never observe a nil leaf
\* the default populates), whatever blocks or leaves the control plane
\* left out of the spec it pushed.
NoNilDefaultLeaf ==
    (~writing /\ nodeSLO # Nil) =>
        \A b \in Blocks :
            /\ nodeSLO[b] # Nil
            /\ \A l \in Leaf : Default[b][l] # Nil => nodeSLO[b][l] # Nil

\* Reference for the merged value of leaf l of block b under pushed spec s,
\* stated leaf by leaf from spec section 4.2: the resctrl enable is off when
\* its gate is off, a pushed leaf wins, every other leaf is the default.
ExpectedLeaf(s, b, l) ==
    IF b = "qos" /\ l = ResctrlLeaf /\ ~RdtResctrlEnabled THEN Disabled
    ELSE IF s[b] # Nil /\ s[b][l] # Nil THEN s[b][l]
    ELSE Default[b][l]

\* The store holds the merge of pushed spec s.
Reflects(s) ==
    /\ nodeSLO # Nil
    /\ \A b \in Blocks : nodeSLO[b] # Nil
                        /\ \A l \in Leaf : nodeSLO[b][l] = ExpectedLeaf(s, b, l)

\* Once the handler has drained its queue, the store holds the merge of the
\* object in the informer cache: no update was lost, applied out of order
\* or wrongly dropped as unchanged, and pushed leaves override defaults.
StoreFollowsCache ==
    (notes = <<>> /\ cache # Nil) => Reflects(cache)

\* updateNodeSLOSpec dereferences r.nodeSLO: an update that is not dropped
\* as unchanged only reaches the handler after a create has stored it.
NoUpdateBeforeCreate ==
    (notes # <<>> /\ Head(notes).kind = "update"
                  /\ Head(notes).old # Head(notes).new)
        => nodeSLO # Nil

\* Once the control plane stops writing, the store ends up holding the
\* merge of the latest NodeSLO (it does not hold it if that was deleted).
StoreConverges ==
    <>[](cluster # Nil => Reflects(cluster))

(***************************************************************************)
(* Refinement.  While the handler holds the lock, r.nodeSLO is the raw    *)
(* pushed spec; it stands for the merge the handler is about to store, so *)
(* the abstract store changes when the lock is taken and the merge that   *)
(* ends the critical section is a stutter.                                *)
(***************************************************************************)

AbstractStore == INSTANCE NodeSLOStoreAbstract
    WITH desired <- IF writing THEN MergeNodeSLOSpec(nodeSLO, nodeSLO) ELSE nodeSLO,
         view <- view

\* The store behaves as an atomic register of merged specs (spec sections
\* 3 and 4.2): createNodeSLO / updateNodeSLOSpec with mergeNodeSLOSpec move
\* it in one step to the leaf-wise merge of a pushed spec, and every copy
\* getNodeSLOCopy returns is the value the store then held.
StoreRefinesAbstract == AbstractStore!ASpec

=============================================================================
