----------------------- MODULE EvictionPipelineProofs -----------------------
(***************************************************************************)
(* Proofs about EvictionPipeline for any pods, any number of concurrent   *)
(* callers and any bound: the type invariant, that podsEvicted never      *)
(* holds a running pod (CacheOnlyEvicted), and that a batch is walked to  *)
(* the end whatever fails (BatchAttemptsAll).                             *)
(***************************************************************************)
EXTENDS EvictionPipeline, TLAPS

(***************************************************************************)
(* The inductive invariant.                                               *)
(*  - A caller between the lookup and SetDefault has a current pod.       *)
(*  - Between evictPod and SetDefault, a caller whose evictPod returned   *)
(*    true holds a pod that is no longer running: its eviction was        *)
(*    accepted or it was gone, and no step makes a pod running again.     *)
(*  - Every pod of a caller's batch is still to do, tried or skipped; an  *)
(*    idle caller has nothing left to do; the pod of a recorded request   *)
(*    is among the tried ones.                                            *)
(***************************************************************************)

TypeInv ==
    /\ TypeOK
    /\ \A c \in Callers : pc[c] \in {"evict", "record"} => cur[c] \in Pods

RecordSafe ==
    \A c \in Callers :
        (pc[c] = "record" /\ success[c]) => phase[cur[c]] # "running"

BatchInv ==
    \A c \in Callers :
        /\ batch[c] \subseteq tried[c] \cup skipped[c] \cup todo[c]
        /\ pc[c] = "idle" => todo[c] = {}
        /\ pc[c] = "record" => cur[c] \in tried[c]

EInv == TypeInv /\ CacheOnlyEvicted /\ RecordSafe /\ BatchInv

LEMMA EInvInit == Init => EInv
<1> SUFFICES ASSUME Init PROVE EInv
  OBVIOUS
<1>1. TypeOK
  BY DEF Init, TypeOK
<1>2. QED
  BY <1>1 DEF Init, EInv, TypeInv, CacheOnlyEvicted, RecordSafe, BatchInv

LEMMA EInvNext ==
    ASSUME EInv, [Next]_vars
    PROVE  EInv'
<1> USE DEF EInv, TypeInv, TypeOK, CacheOnlyEvicted, RecordSafe, BatchInv
<1>1. ASSUME NEW c \in Callers, NEW B \in SUBSET Pods, EvictPodsIfNotEvicted(c, B)
      PROVE  EInv'
  BY <1>1 DEF EvictPodsIfNotEvicted
<1>2. ASSUME NEW c \in Callers, BatchDone(c)
      PROVE  EInv'
  BY <1>2 DEF BatchDone
<1>3. ASSUME NEW c \in Callers, NEW p \in Pods, EvictPodIfNotEvicted(c, p)
      PROVE  EInv'
  <2>1. CASE p \in evicted
    \* The pod is skipped: it moves from todo to skipped.
    <3>1. /\ todo' = [todo EXCEPT ![c] = @ \ {p}]
          /\ skipped' = [skipped EXCEPT ![c] = @ \cup {p}]
          /\ UNCHANGED <<pc, cur, phase, evicted, batch, tried, success,
                         outcome, calls, events, metric>>
      BY <1>3, <2>1 DEF EvictPodIfNotEvicted
    <3>2. TypeInv'
      BY <3>1
    <3>3. BatchInv'
      BY <3>1
    <3>4. QED
      BY <3>1, <3>2, <3>3
  <2>2. CASE p \notin evicted
    \* The pod becomes the current one of a caller now in "evict".
    <3>1. /\ pc' = [pc EXCEPT ![c] = "evict"]
          /\ cur' = [cur EXCEPT ![c] = p]
          /\ pc[c] = "loop"
          /\ UNCHANGED <<todo, skipped, phase, evicted, batch, tried, success,
                         outcome, calls, events, metric>>
      BY <1>3, <2>2 DEF EvictPodIfNotEvicted
    <3>2. TypeInv'
      BY <3>1
    <3>3. RecordSafe' /\ BatchInv'
      BY <3>1
    <3>4. QED
      BY <3>1, <3>2, <3>3
  <2>3. QED
    BY <2>1, <2>2
<1>4. ASSUME NEW c \in Callers, EvictPod(c)
      PROVE  EInv'
  <2> DEFINE p == cur[c]
  <2>1. p \in Pods /\ pc[c] = "evict"
    BY <1>4 DEF EvictPod
  <2>2. PICK a \in Answers(p) :
          /\ outcome' = [outcome EXCEPT ![c] = a]
          /\ success' = [success EXCEPT ![c] = (a # "error")]
          /\ phase' = IF a = "ok" THEN [phase EXCEPT ![p] = "terminating"] ELSE phase
          /\ events' = CASE a = "ok"    -> [events EXCEPT ![p].ok = @ + 1]
                         [] a = "error" -> [events EXCEPT ![p].fail = @ + 1]
                         [] OTHER       -> events
          /\ metric' = IF a = "ok" THEN [metric EXCEPT ![p] = @ + 1] ELSE metric
    BY <1>4 DEF EvictPod
  <2>3. a \in {"ok", "notfound", "error"}
    BY DEF Answers
  \* No pod becomes running.
  <2>4. \A q \in Pods : phase'[q] = "running" => phase[q] = "running"
    BY <2>1, <2>2
  \* The answer the caller now records is a success only for a pod that is
  \* not running any more.
  <2>5. success'[c] => phase'[p] # "running"
    <3>1. CASE a = "ok"
      BY <2>1, <2>2, <3>1
    <3>2. CASE a = "notfound"
      <4>1. phase[p] = "gone"
        BY <3>2 DEF Answers
      <4>2. QED
        BY <2>1, <2>2, <3>2, <4>1
    <3>3. CASE a = "error"
      BY <2>2, <3>3
    <3>4. QED
      BY <2>3, <3>1, <3>2, <3>3
  <2>6. events' \in [Pods -> [ok : Nat, fail : Nat]]
    <3>0. events \in [Pods -> [ok : Nat, fail : Nat]]
      OBVIOUS
    <3>1. CASE a = "ok"
      <4>1. events' = [events EXCEPT ![p].ok = @ + 1]
        BY <2>2, <3>1
      <4>2. QED
        BY <2>1, <3>0, <4>1
    <3>2. CASE a = "error"
      <4>1. events' = [events EXCEPT ![p].fail = @ + 1]
        BY <2>2, <3>2
      <4>2. QED
        BY <2>1, <3>0, <4>1
    <3>3. CASE a = "notfound"
      BY <2>2, <3>3
    <3>4. QED
      BY <2>3, <3>1, <3>2, <3>3
  <2>7. TypeOK'
    BY <1>4, <2>1, <2>2, <2>3, <2>6 DEF EvictPod
  <2>8. CacheOnlyEvicted'
    BY <1>4, <2>4 DEF EvictPod
  <2>9. RecordSafe'
    BY <1>4, <2>1, <2>4, <2>5 DEF EvictPod
  <2>10. BatchInv' /\ TypeInv'
    BY <1>4, <2>1, <2>7 DEF EvictPod
  <2>11. QED
    BY <2>8, <2>9, <2>10
<1>5. ASSUME NEW c \in Callers, SetDefault(c)
      PROVE  EInv'
  <2>1. cur[c] \in Pods /\ pc[c] = "record"
    BY <1>5 DEF SetDefault
  <2>2. CacheOnlyEvicted'
    BY <1>5, <2>1 DEF SetDefault
  <2>3. QED
    BY <1>5, <2>1, <2>2 DEF SetDefault
<1>6. ASSUME NEW p \in Pods, Expire(p)
      PROVE  EInv'
  BY <1>6 DEF Expire, callerVars
<1>7. ASSUME NEW p \in Pods, PodDeleted(p)
      PROVE  EInv'
  BY <1>7 DEF PodDeleted, callerVars
<1>8. CASE UNCHANGED vars
  BY <1>8 DEF vars
<1>9. QED
  BY <1>1, <1>2, <1>3, <1>4, <1>5, <1>6, <1>7, <1>8 DEF Next

LEMMA EInvHolds == Spec => []EInv
BY EInvInit, EInvNext, PTL DEF Spec

\* The type invariant (TypeOK, checked by run eviction) holds for any pods,
\* callers and bound.
THEOREM EvictionTypeCorrect == Spec => []TypeOK
<1>1. Spec => []EInv
  BY EInvHolds
<1>2. QED
  BY <1>1, PTL DEF EInv, TypeInv

\* podsEvicted never holds a running pod (CacheOnlyEvicted, checked by run
\* eviction): SetDefault runs only after an accepted or NotFound eviction,
\* however many callers interleave and whatever the sweep expires.
THEOREM CacheNeverHidesRunningPod == Spec => []CacheOnlyEvicted
<1>1. Spec => []EInv
  BY EInvHolds
<1>2. QED
  BY <1>1, PTL DEF EInv

\* evictPodsIfNotEvicted tries or skips every pod of its batch before it
\* returns (BatchAttemptsAll, checked by run eviction), whatever fails.
THEOREM BatchIsExhaustive == Spec => []BatchAttemptsAll
<1>1. Spec => []EInv
  BY EInvHolds
<1>2. EInv => BatchAttemptsAll
  BY DEF EInv, BatchInv, BatchAttemptsAll
<1>3. QED
  BY <1>1, <1>2, PTL

(***************************************************************************)
(* The dedup check with one caller.  Run launches a single memory evictor *)
(* goroutine, the only caller of evictPodsIfNotEvicted in this code.      *)
(* Between its lookup and its Eviction request nothing inserts into       *)
(* podsEvicted: the sweep only removes, and the only insert is its own    *)
(* SetDefault, after the request.  With two callers this fails, and spec  *)
(* section 5 accepts the duplicate request it allows.                     *)
(***************************************************************************)

\* A caller about to send an Eviction found its pod absent from the cache,
\* and the pod is still absent.
Fresh == \A c \in Callers : pc[c] = "evict" => cur[c] \notin evicted

LEMMA FreshInit == Init => Fresh
BY DEF Init, Fresh

LEMMA FreshNext ==
    ASSUME NEW c0, Callers = {c0}, EInv, Fresh, [Next]_vars
    PROVE  Fresh'
<1> USE DEF Fresh
<1>1. ASSUME NEW B \in SUBSET Pods, EvictPodsIfNotEvicted(c0, B) PROVE Fresh'
  BY <1>1 DEF EvictPodsIfNotEvicted
<1>2. CASE BatchDone(c0)
  BY <1>2 DEF BatchDone
<1>3. ASSUME NEW p \in Pods, EvictPodIfNotEvicted(c0, p) PROVE Fresh'
  BY <1>3 DEF EvictPodIfNotEvicted, EInv, TypeInv, TypeOK
<1>4. CASE EvictPod(c0)
  BY <1>4 DEF EvictPod, EInv, TypeInv, TypeOK
\* The caller's own insert happens in "record" and leaves it in "loop".
<1>5. CASE SetDefault(c0)
  BY <1>5 DEF SetDefault, EInv, TypeInv, TypeOK
<1>6. ASSUME NEW p \in Pods, Expire(p) PROVE Fresh'
  BY <1>6 DEF Expire, callerVars
<1>7. ASSUME NEW p \in Pods, PodDeleted(p) PROVE Fresh'
  BY <1>7 DEF PodDeleted, callerVars
<1>8. CASE UNCHANGED vars
  BY <1>8 DEF vars
<1>9. QED
  BY <1>1, <1>2, <1>3, <1>4, <1>5, <1>6, <1>7, <1>8 DEF Next

\* Only the Eviction request of a caller in "evict" counts a call, and it
\* counts one for that caller's pod.
LEMMA CallsStep ==
    ASSUME EInv, [Next]_vars, NEW p \in Pods, calls'[p] > calls[p]
    PROVE  \E c \in Callers : EvictPod(c) /\ p = cur[c] /\ pc[c] = "evict"
<1>1. calls \in [Pods -> Nat]
  BY DEF EInv, TypeInv, TypeOK
<1>2. ~UNCHANGED calls
  BY <1>1
<1>3. PICK c \in Callers : EvictPod(c)
  BY <1>2 DEF Next, vars, EvictPodsIfNotEvicted, BatchDone, EvictPodIfNotEvicted,
              SetDefault, Expire, PodDeleted
<1>4. cur[c] \in Pods /\ pc[c] = "evict"
  BY <1>3 DEF EvictPod, EInv, TypeInv
<1>5. p = cur[c]
  BY <1>1, <1>3, <1>4 DEF EvictPod
<1>6. QED
  BY <1>3, <1>4, <1>5

\* With the single memory evictor as caller, no Eviction request is sent
\* for a pod whose podsEvicted entry is live (NoEvictWhileCached, checked
\* by run eviction), across batches, expiries and deletions.
THEOREM SingleEvictorNoEvictWhileCached ==
    ASSUME NEW c0, Callers = {c0}
    PROVE  Spec => NoEvictWhileCached
<1>1. Spec => [](EInv /\ Fresh)
  <2>1. Init => EInv /\ Fresh
    BY EInvInit, FreshInit
  <2>2. EInv /\ Fresh /\ [Next]_vars => (EInv /\ Fresh)'
    BY EInvNext, FreshNext
  <2>3. QED
    BY <2>1, <2>2, PTL DEF Spec
<1>2. EInv /\ Fresh /\ [Next]_vars
        => [\A p \in Pods : calls'[p] > calls[p] => p \notin evicted]_vars
  BY CallsStep DEF Fresh
<1>3. QED
  BY <1>1, <1>2, PTL DEF Spec, NoEvictWhileCached

=============================================================================
