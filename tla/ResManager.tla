----------------------------- MODULE ResManager -----------------------------
(***************************************************************************)
(* resmanager.Run (src/unnamed/part_000 241-284) composed with the store  *)
(* of NodeSLOStore: the boot sequence that starts the NodeSLO informer,   *)
(* waits on three cache syncs (the informer, the states informer and      *)
(* hasSynced), launches the six policies through util.RunFeature and      *)
(* util.RunFeatureWithInit, and waits on stopCh; the reconcilers' ticks   *)
(* that read the store with getNodeSLOCopy and, for the CPU-suppress and  *)
(* memory-evict policies, decide with isFeatureDisabled.                  *)
(*                                                                         *)
(* The scheduler (util, outside this repository) is modelled from spec    *)
(* section 4.3: a gate that is off disables a policy, an init runs        *)
(* synchronously in Run and its failure disables the policy for good.     *)
(***************************************************************************)
EXTENDS NodeSLOStore

CONSTANTS
    PolicyOrder,        \* the policies in the order Run launches them
    WithInit,           \* those launched through RunFeatureWithInit
    GateOn,             \* those whose feature gate is enabled
    ThresholdPolicies,  \* those checking BECPUSuppress / BEMemoryEvict
    EnableLeaf,         \* ResourceUsedThresholdWithBE.Enable
    EnableTrue          \* the value true of that leaf

Policies == {PolicyOrder[k] : k \in 1..Len(PolicyOrder)}

ASSUME PolicyAssumption ==
    /\ PolicyOrder \in Seq(STRING)
    /\ \A j, k \in 1..Len(PolicyOrder) : PolicyOrder[j] = PolicyOrder[k] => j = k
    /\ WithInit \cup GateOn \cup ThresholdPolicies \subseteq Policies
    /\ EnableLeaf \in Leaf
    /\ EnableTrue \in Values

\* util.DefaultNodeSLOSpecConfig sets ResourceUsedThresholdWithBE.Enable.
ASSUME EnableDefaultAssumption == Default["threshold"][EnableLeaf] # Nil

VARIABLES
    boot,          \* where Run is
    launchIdx,     \* the next policy Run launches
    policy,        \* each policy: pending, disabled, initFailed or running
    listed,        \* the NodeSLO informer has done its initial list
    statesSynced,  \* the states informer reports HasSynced
    stopped,       \* stopCh is closed
    lastTick       \* the policy that ticked last and what it decided

bootVars == <<boot, launchIdx, policy, listed, statesSynced, stopped, lastTick>>
storeVars == vars
allVars == <<storeVars, bootVars>>

Waits == {"waitInformer", "waitStates", "waitNodeSLO"}

(***************************************************************************)
(* The helpers Run and the reconcilers call.                              *)
(***************************************************************************)

\* isFeatureDisabled(nodeSLO, feature): a nil or empty spec, a nil
\* threshold block or Enable, and an unsupported feature are errors,
\* reported as disabled; otherwise the feature is disabled unless Enable.
IsFeatureDisabled(s, f) ==
    IF s = Nil \/ \A b \in Blocks : s[b] = Nil
      THEN [disabled |-> TRUE, err |-> TRUE]
    ELSE IF f \in ThresholdPolicies /\ s["threshold"] # Nil
                                   /\ s["threshold"][EnableLeaf] # Nil
      THEN [disabled |-> s["threshold"][EnableLeaf] # EnableTrue, err |-> FALSE]
    ELSE [disabled |-> TRUE, err |-> TRUE]

\* Mutation: Run waits only on the NodeSLO informer, not on hasSynced.
HasSyncedInformerOnly == listed

\* hasSynced: the store holds a spec with a threshold block.
HasSynced == nodeSLO # Nil /\ nodeSLO["threshold"] # Nil

\* What RunFeature / RunFeatureWithInit leave a policy as.
LaunchOutcomes(p) ==
    IF p \notin GateOn THEN {"disabled"}
    ELSE IF p \in WithInit THEN {"running", "initFailed"}
    ELSE {"running"}

\* What one tick of a running policy decides from its snapshot.
TickOutcome(p) ==
    IF p \in ThresholdPolicies
      THEN LET r == IsFeatureDisabled(nodeSLO, p)
           IN  IF r.err THEN "unready"
               ELSE IF r.disabled THEN "disabled"
               ELSE "enabled"
      ELSE IF nodeSLO = Nil THEN "unready" ELSE "enabled"

(***************************************************************************)
(* The store, the informer and the API server, as in NodeSLOStore; the    *)
(* informer only runs once Run has started it and until stopCh closes.    *)
(***************************************************************************)

RMInit ==
    /\ Init
    /\ boot = "init"
    /\ launchIdx = 1
    /\ policy = [p \in Policies |-> "pending"]
    /\ listed = FALSE
    /\ statesSynced = FALSE
    /\ stopped = FALSE
    /\ lastTick = [policy |-> "none", outcome |-> "none"]

\* The informer's initial list: the object, if any, is queued as an add.
InitialList ==
    /\ boot # "init"
    /\ ~listed
    /\ ~stopped
    /\ listed' = TRUE
    /\ \/ WatchDeliver
       \/ cluster = Nil /\ UNCHANGED storeVars
    /\ UNCHANGED <<boot, launchIdx, policy, statesSynced, stopped, lastTick>>

InformerWatch ==
    /\ listed
    /\ ~stopped
    /\ WatchDeliver
    /\ UNCHANGED bootVars

InformerResync ==
    /\ listed
    /\ ~stopped
    /\ Resync
    /\ UNCHANGED bootVars

\* The control plane, the handler goroutine: NodeSLOStore's steps.
StoreStep ==
    /\ \/ \E s \in PushedSpecs : WriteNodeSLO(s)
       \/ DeleteNodeSLO
       \/ CreateNodeSLO
       \/ UpdateNodeSLOSpec
       \/ MergeAndUnlock
    /\ UNCHANGED bootVars

\* The states informer (statesinformer, outside this module) syncs.
StatesInformerSynced ==
    /\ ~statesSynced
    /\ statesSynced' = TRUE
    /\ UNCHANGED <<storeVars, boot, launchIdx, policy, listed, stopped, lastTick>>

\* The process is shut down: stopCh is closed.
Stop ==
    /\ ~stopped
    /\ stopped' = TRUE
    /\ UNCHANGED <<storeVars, boot, launchIdx, policy, listed, statesSynced, lastTick>>

(***************************************************************************)
(* Run.                                                                   *)
(***************************************************************************)

\* podsEvicted.Run(stopCh); go r.nodeSLOInformer.Run(stopCh).
StartRun ==
    /\ boot = "init"
    /\ boot' = "waitInformer"
    /\ UNCHANGED <<storeVars, launchIdx, policy, listed, statesSynced, stopped, lastTick>>

\* cache.WaitForCacheSync(stopCh, r.nodeSLOInformer.HasSynced).
WaitNodeSLOInformer ==
    /\ boot = "waitInformer"
    /\ listed
    /\ boot' = "waitStates"
    /\ UNCHANGED <<storeVars, launchIdx, policy, listed, statesSynced, stopped, lastTick>>

\* cache.WaitForCacheSync(stopCh, r.statesInformer.HasSynced).
WaitStatesInformer ==
    /\ boot = "waitStates"
    /\ statesSynced
    /\ boot' = "waitNodeSLO"
    /\ UNCHANGED <<storeVars, launchIdx, policy, listed, statesSynced, stopped, lastTick>>

\* Mutation: the launch index starts at 0.
WaitNodeSLOSyncedFromZero ==
    /\ boot = "waitNodeSLO"
    /\ ~writing
    /\ HasSynced
    /\ boot' = "launching"
    /\ launchIdx' = 0
    /\ UNCHANGED <<storeVars, policy, listed, statesSynced, stopped, lastTick>>

\* cache.WaitForCacheSync(stopCh, r.hasSynced): hasSynced takes the lock.
WaitNodeSLOSynced ==
    /\ boot = "waitNodeSLO"
    /\ ~writing
    /\ HasSynced
    /\ boot' = "launching"
    /\ launchIdx' = 1
    /\ UNCHANGED <<storeVars, policy, listed, statesSynced, stopped, lastTick>>

\* A WaitForCacheSync returns false only when stopCh closes: Run returns
\* its "time out waiting" error.
WaitAborted ==
    /\ boot \in Waits
    /\ stopped
    /\ boot' = "failed"
    /\ UNCHANGED <<storeVars, launchIdx, policy, listed, statesSynced, stopped, lastTick>>

\* Mutation: a failed init makes Run return instead of going on.
LaunchAbortOnInitFailure ==
    /\ boot = "launching"
    /\ launchIdx <= Len(PolicyOrder)
    /\ \E st \in LaunchOutcomes(PolicyOrder[launchIdx]) :
          /\ policy' = [policy EXCEPT ![PolicyOrder[launchIdx]] = st]
          /\ IF st = "initFailed" THEN boot' = "failed" ELSE UNCHANGED boot
    /\ launchIdx' = launchIdx + 1
    /\ UNCHANGED <<storeVars, listed, statesSynced, stopped, lastTick>>

\* util.RunFeature / util.RunFeatureWithInit for the next policy: a gate
\* that is off disables it, an init runs first and may fail.
Launch ==
    /\ boot = "launching"
    /\ launchIdx <= Len(PolicyOrder)
    /\ \E st \in LaunchOutcomes(PolicyOrder[launchIdx]) :
          policy' = [policy EXCEPT ![PolicyOrder[launchIdx]] = st]
    /\ launchIdx' = launchIdx + 1
    /\ UNCHANGED <<storeVars, boot, listed, statesSynced, stopped, lastTick>>

\* All policies are launched: Run blocks on <-stopCh.
LaunchDone ==
    /\ boot = "launching"
    /\ launchIdx > Len(PolicyOrder)
    /\ boot' = "running"
    /\ UNCHANGED <<storeVars, launchIdx, policy, listed, statesSynced, stopped, lastTick>>

\* <-stopCh returns: Run returns nil.
Return ==
    /\ boot = "running"
    /\ stopped
    /\ boot' = "returned"
    /\ UNCHANGED <<storeVars, launchIdx, policy, listed, statesSynced, stopped, lastTick>>

\* A timer of a running policy fires: the reconciler takes a copy of the
\* store under the lock and decides from it.
Tick(p) ==
    /\ policy[p] = "running"
    /\ ~stopped
    /\ ~writing
    /\ lastTick' = [policy |-> p, outcome |-> TickOutcome(p)]
    /\ UNCHANGED <<storeVars, boot, launchIdx, policy, listed, statesSynced, stopped>>

RunStep ==
    \/ StartRun
    \/ WaitNodeSLOInformer
    \/ WaitStatesInformer
    \/ WaitNodeSLOSynced
    \/ WaitAborted
    \/ Launch
    \/ LaunchDone
    \/ Return

RMNext ==
    \/ InitialList
    \/ InformerWatch
    \/ InformerResync
    \/ StoreStep
    \/ StatesInformerSynced
    \/ Stop
    \/ RunStep
    \/ \E p \in Policies : Tick(p)

\* Run's goroutine, the informer, the handler goroutine and the states
\* informer all run for the life of the process; WaitForCacheSync polls
\* a condition that, once true, stays true.
RMFairness ==
    /\ WF_allVars(RunStep)
    /\ WF_allVars(InitialList)
    /\ WF_allVars(InformerWatch)
    /\ WF_allVars(CreateNodeSLO /\ UNCHANGED bootVars)
    /\ WF_allVars(UpdateNodeSLOSpec /\ UNCHANGED bootVars)
    /\ WF_allVars(MergeAndUnlock /\ UNCHANGED bootVars)
    /\ WF_allVars(StatesInformerSynced)

RMSpec == RMInit /\ [][RMNext]_allVars /\ RMFairness

(***************************************************************************)
(* Properties.                                                            *)
(***************************************************************************)

BootTypeOK ==
    /\ boot \in {"init", "launching", "running", "returned", "failed"} \cup Waits
    /\ launchIdx \in 1..Len(PolicyOrder) + 1
    /\ policy \in [Policies -> {"pending", "disabled", "initFailed", "running"}]
    /\ lastTick \in [policy : Policies \cup {"none"},
                     outcome : {"none", "unready", "disabled", "enabled"}]

\* No reconciler ever gets a nil store or, through isFeatureDisabled, a
\* spec it cannot parse: Run launches policies only after hasSynced, and
\* neither a delete of the NodeSLO (no DeleteFunc), nor a re-create, nor a
\* push without a threshold block takes the store back to unsynced.
ReconcilersSeeSyncedSpec == lastTick.outcome # "unready"

\* If the NodeSLO exists from some point on and the process is not shut
\* down, Run gets past its three waits and every policy ends up disabled,
\* failed in its init, or running, whatever the earlier inits did.
BootCompletes ==
    (<>[](cluster # Nil) /\ []~stopped)
        => <>(\A p \in Policies : policy[p] \in LaunchOutcomes(p))

\* Spec sections 4.5 and 7 (boot steps 3-5): each wait fails Run with a fatal
\* startup error if it times out, so Run eventually gets past its waits
\* or returns.
BootTerminates == <>(boot \notin Waits \cup {"init"})

=============================================================================
