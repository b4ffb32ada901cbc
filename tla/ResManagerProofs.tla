--------------------------- MODULE ResManagerProofs ---------------------------
(***************************************************************************)
(* Proof that no reconciler tick ever reads a store it cannot use, for    *)
(* any policies, gates, inits, defaults and pushed specs: Run launches a  *)
(* policy only after hasSynced saw a stored spec, nothing takes the store *)
(* back to nil, and whenever the lock is free the store is a total merge, *)
(* so isFeatureDisabled finds its threshold block and Enable leaf.       *)
(***************************************************************************)
EXTENDS ResManager, NodeSLOStoreProofs

PolicyStates == {"pending", "disabled", "initFailed", "running"}

\* The Run phases after the hasSynced wait.
Launched == {"launching", "running", "returned"}

(***************************************************************************)
(* The inductive invariant: the store's IInv, the shape of policy, and    *)
(* the two facts of the boot order.                                       *)
(***************************************************************************)

Synced ==
    /\ policy \in [Policies -> PolicyStates]
    /\ boot \in Launched => nodeSLO # Nil
    /\ \A p \in Policies : policy[p] = "running" => boot \in Launched

RMInv == IInv /\ Synced /\ ReconcilersSeeSyncedSpec

\* Every step of the composition is a step, or a stutter, of the store.
LEMMA StoreSteps ==
    ASSUME [RMNext]_allVars
    PROVE  [Next]_vars
<1>1. CASE InitialList
  BY <1>1 DEF InitialList, Next, storeVars
<1>2. CASE InformerWatch \/ InformerResync
  BY <1>2 DEF InformerWatch, InformerResync, Next
<1>3. CASE StoreStep
  BY <1>3 DEF StoreStep, Next
<1>4. CASE StatesInformerSynced \/ Stop \/ RunStep \/ \E p \in Policies : Tick(p)
  BY <1>4 DEF StatesInformerSynced, Stop, RunStep, StartRun,
              WaitNodeSLOInformer, WaitStatesInformer, WaitNodeSLOSynced,
              WaitAborted, Launch, LaunchDone, Return, Tick, storeVars
<1>5. CASE UNCHANGED allVars
  BY <1>5 DEF allVars, storeVars
<1>6. QED
  BY <1>1, <1>2, <1>3, <1>4, <1>5 DEF RMNext

\* A tick with the lock free and a spec stored decides without an error.
LEMMA TickReady ==
    ASSUME IInv, ~writing, nodeSLO # Nil, NEW p \in Policies
    PROVE  TickOutcome(p) # "unready"
<1>1. nodeSLO["threshold"] # Nil /\ nodeSLO["threshold"][EnableLeaf] # Nil
  BY StoreTotal, EnableDefaultAssumption, PolicyAssumption DEF NoNilDefaultLeaf, Blocks
<1>2. ~(\A b \in Blocks : nodeSLO[b] = Nil)
  BY <1>1 DEF Blocks
<1>3. p \in ThresholdPolicies => ~IsFeatureDisabled(nodeSLO, p).err
  BY <1>1, <1>2 DEF IsFeatureDisabled
<1>4. QED
  BY <1>3 DEF TickOutcome

LEMMA RMInvInit == RMInit => RMInv
<1> SUFFICES ASSUME RMInit PROVE RMInv
  OBVIOUS
<1>1. IInv
  BY IInvInit DEF RMInit
<1>2. Synced /\ ReconcilersSeeSyncedSpec
  BY DEF RMInit, Synced, Launched, PolicyStates, ReconcilersSeeSyncedSpec
<1>3. QED
  BY <1>1, <1>2 DEF RMInv

LEMMA RMInvNext ==
    ASSUME RMInv, [RMNext]_allVars
    PROVE  RMInv'
<1>1. IInv'
  BY StoreSteps, IInvNext DEF RMInv
\* A step of the store or the informer leaves Run and the policies alone
\* and never takes the store back to nil.
<1>2. CASE UNCHANGED bootVars
  <2>1. nodeSLO # Nil => nodeSLO' # Nil
    <3>1. TypeInv
      BY DEF RMInv, IInv
    <3>2. [Next]_vars
      BY StoreSteps
    <3>3. CASE CreateNodeSLO \/ UpdateNodeSLOSpec
      <4>1. notes # <<>> /\ Head(notes) \in Note
        BY <3>1, <3>3, HeadTailProperties
           DEF CreateNodeSLO, UpdateNodeSLOSpec, TypeInv, TypeOK
      <4>2. Head(notes).new # Nil
        BY <4>1, PushedNotNil DEF Note
      <4>3. QED
        BY <3>3, <4>2 DEF CreateNodeSLO, UpdateNodeSLOSpec
    <3>4. CASE MergeAndUnlock
      <4>1. notes # <<>> /\ Head(notes) \in Note
        BY <3>1, <3>4, HeadTailProperties DEF MergeAndUnlock, TypeInv, TypeOK
      <4>2. Head(notes).new \in SpecT
        BY <4>1, PushedAssumption DEF Note
      <4>3. nodeSLO # Nil => MergeNodeSLOSpec(nodeSLO, Head(notes).new) \in SpecT
        BY <4>2, MergeNodeSLOSpecType
      <4>4. QED
        BY <3>4, <4>3, NilAssumption DEF MergeAndUnlock
    <3>5. CASE ~(CreateNodeSLO \/ UpdateNodeSLOSpec \/ MergeAndUnlock)
      BY <3>2, <3>5 DEF Next, WriteNodeSLO, DeleteNodeSLO, WatchDeliver,
                        Resync, GetNodeSLOCopy, vars
    <3>6. QED
      BY <3>3, <3>4, <3>5
  <2>2. QED
    BY <1>1, <1>2, <2>1 DEF RMInv, Synced, ReconcilersSeeSyncedSpec, bootVars
\* Run's steps, the states informer and the shutdown leave the store alone.
<1>3. CASE StatesInformerSynced \/ Stop \/ StartRun \/ WaitNodeSLOInformer
           \/ WaitStatesInformer \/ WaitAborted \/ LaunchDone \/ Return
  BY <1>1, <1>3 DEF RMInv, Synced, Launched, ReconcilersSeeSyncedSpec,
                    StatesInformerSynced, Stop, StartRun, WaitNodeSLOInformer,
                    WaitStatesInformer, WaitAborted, LaunchDone, Return, Waits,
                    storeVars, vars
<1>4. CASE WaitNodeSLOSynced
  BY <1>1, <1>4 DEF RMInv, Synced, Launched, ReconcilersSeeSyncedSpec,
                    WaitNodeSLOSynced, HasSynced, storeVars, vars
<1>5. CASE Launch
  <2>1. PICK st \in LaunchOutcomes(PolicyOrder[launchIdx]) :
          policy' = [policy EXCEPT ![PolicyOrder[launchIdx]] = st]
    BY <1>5 DEF Launch
  <2>2. st \in PolicyStates
    BY DEF LaunchOutcomes, PolicyStates
  <2>3. QED
    BY <1>1, <1>5, <2>1, <2>2 DEF RMInv, Synced, Launched,
                                  ReconcilersSeeSyncedSpec, Launch, storeVars, vars
<1>6. ASSUME NEW p \in Policies, Tick(p) PROVE RMInv'
  <2>1. boot \in Launched /\ nodeSLO # Nil /\ ~writing
    BY <1>6 DEF Tick, RMInv, Synced
  <2>2. TickOutcome(p) # "unready"
    BY <2>1, TickReady DEF RMInv
  <2>3. QED
    BY <1>1, <1>6, <2>2 DEF RMInv, Synced, ReconcilersSeeSyncedSpec, Tick, storeVars, vars
<1>7. CASE InitialList
  BY <1>1, <1>7 DEF RMInv, Synced, ReconcilersSeeSyncedSpec, InitialList,
                    WatchDeliver, storeVars, vars
<1>8. QED
  <2>1. CASE InformerWatch \/ InformerResync \/ StoreStep \/ UNCHANGED allVars
    BY <1>2, <2>1 DEF InformerWatch, InformerResync, StoreStep, allVars
  <2>2. QED
    BY <1>3, <1>4, <1>5, <1>6, <1>7, <2>1 DEF RMNext, RunStep

\* No reconciler tick gets a nil store or a spec isFeatureDisabled cannot
\* parse (ReconcilersSeeSyncedSpec, checked by run boot), for any policies,
\* gates, init outcomes, defaults that set Enable, and pushed specs.
THEOREM ReconcilersNeverSeeUnsyncedSpec == RMSpec => []ReconcilersSeeSyncedSpec
<1>1. RMSpec => []RMInv
  BY RMInvInit, RMInvNext, PTL DEF RMSpec
<1>2. QED
  BY <1>1, PTL DEF RMInv

(***************************************************************************)
(* The type of Run's state.  It is inductive as it stands: Launch moves   *)
(* launchIdx past the last policy only once, and a tick records a         *)
(* running policy and an outcome of TickOutcome.                          *)
(***************************************************************************)

LEMMA TickOutcomeType ==
    ASSUME NEW p
    PROVE  TickOutcome(p) \in {"unready", "disabled", "enabled"}
BY DEF TickOutcome

LEMMA BootTypeInit == RMInit => BootTypeOK
<1> SUFFICES ASSUME RMInit PROVE BootTypeOK
  OBVIOUS
<1>1. Len(PolicyOrder) \in Nat
  BY PolicyAssumption, LenProperties
<1>2. QED
  BY <1>1 DEF RMInit, BootTypeOK, Waits

LEMMA BootTypeNext ==
    ASSUME BootTypeOK, [RMNext]_allVars
    PROVE  BootTypeOK'
<1>1. Len(PolicyOrder) \in Nat
  BY PolicyAssumption, LenProperties
<1>2. CASE UNCHANGED bootVars
  BY <1>2 DEF BootTypeOK, bootVars
<1>3. CASE Launch
  <2>1. PICK st \in LaunchOutcomes(PolicyOrder[launchIdx]) :
          policy' = [policy EXCEPT ![PolicyOrder[launchIdx]] = st]
    BY <1>3 DEF Launch
  <2>2. st \in {"pending", "disabled", "initFailed", "running"}
    BY DEF LaunchOutcomes
  <2>3. policy' \in [Policies -> {"pending", "disabled", "initFailed", "running"}]
    BY <2>1, <2>2 DEF BootTypeOK
  <2>4. launchIdx' \in 1..Len(PolicyOrder) + 1
    BY <1>1, <1>3 DEF Launch, BootTypeOK
  <2>5. UNCHANGED <<boot, lastTick>>
    BY <1>3 DEF Launch
  <2>6. QED
    BY <2>3, <2>4, <2>5 DEF BootTypeOK
<1>4. ASSUME NEW p \in Policies, Tick(p) PROVE BootTypeOK'
  BY <1>4, TickOutcomeType DEF Tick, BootTypeOK
<1>5. CASE StatesInformerSynced \/ Stop \/ StartRun \/ WaitNodeSLOInformer
           \/ WaitStatesInformer \/ WaitNodeSLOSynced \/ WaitAborted
           \/ LaunchDone \/ Return
  BY <1>5 DEF BootTypeOK, Waits, StatesInformerSynced, Stop, StartRun,
              WaitNodeSLOInformer, WaitStatesInformer, WaitNodeSLOSynced,
              WaitAborted, LaunchDone, Return
<1>6. CASE InitialList
  BY <1>6 DEF BootTypeOK, InitialList
<1>7. QED
  <2>1. CASE InformerWatch \/ InformerResync \/ StoreStep \/ UNCHANGED allVars
    BY <1>2, <2>1 DEF InformerWatch, InformerResync, StoreStep, allVars
  <2>2. QED
    BY <1>3, <1>4, <1>5, <1>6, <2>1 DEF RMNext, RunStep

\* Run's state is well typed (BootTypeOK, checked by run resmanager): Run
\* is in one of its phases, launchIdx never passes one beyond the last
\* policy, every policy is pending, disabled, failed in its init or
\* running, and a tick names a policy and an outcome, for any list of
\* policies, gates and inits.
THEOREM BootTypeCorrect == RMSpec => []BootTypeOK
BY BootTypeInit, BootTypeNext, PTL DEF RMSpec

=============================================================================
