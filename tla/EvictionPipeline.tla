--------------------------- MODULE EvictionPipeline ---------------------------
(***************************************************************************)
(* The pod eviction pipeline of the koordlet resmanager                   *)
(* (src/unnamed/part_000): evictPodsIfNotEvicted walks a batch of pods,   *)
(* evictPodIfNotEvicted looks each up in the podsEvicted expiring cache,  *)
(* evictPod sends a policy/v1 Eviction to the API server and records an   *)
(* event and a metric, and a successful (or NotFound) eviction inserts    *)
(* the pod's UID into the cache until its TTL expires.                    *)
(*                                                                         *)
(* A pod is its UID.  The API server side of a pod is its phase: running, *)
(* terminating once an eviction was accepted, gone once deleted.  The     *)
(* batch a caller passes comes from the states informer and may be stale, *)
(* so it may name pods that are already terminating or gone.  Event and  *)
(* metric payloads, the audit log and klog lines are left out.            *)
(***************************************************************************)
EXTENDS Naturals, FiniteSets

CONSTANTS
    Pods,      \* pod UIDs
    Callers,   \* goroutines calling evictPodsIfNotEvicted
    Nil,       \* no pod
    MaxCalls   \* bound on eviction requests sent to the API server

ASSUME PodsAssumption == Nil \notin Pods
ASSUME CallsAssumption == MaxCalls \in Nat

VARIABLES
    phase,     \* API server: pod UID -> "running" | "terminating" | "gone"
    evicted,   \* podsEvicted: the UIDs with a live cache entry
    pc,        \* caller -> "idle" | "loop" | "evict" | "record"
    todo,      \* caller -> pods of its batch not yet handled
    batch,     \* caller -> its current batch
    tried,     \* caller -> pods of its batch it sent an eviction for
    skipped,   \* caller -> pods of its batch it found in podsEvicted
    cur,       \* caller -> the pod being evicted, or Nil
    success,   \* caller -> what evictPod returned
    outcome,   \* caller -> "ok" | "notfound" | "error" of the last request
    calls,     \* pod UID -> eviction requests sent for it
    events,    \* pod UID -> [ok |-> evictPodSuccess events, fail |-> evictPodFail events]
    metric     \* pod UID -> RecordPodEviction count

vars == <<phase, evicted, pc, todo, batch, tried, skipped, cur, success,
          outcome, calls, events, metric>>

callerVars == <<pc, todo, batch, tried, skipped, cur, success, outcome>>

Init ==
    /\ phase = [p \in Pods |-> "running"]
    /\ evicted = {}
    /\ pc = [c \in Callers |-> "idle"]
    /\ todo = [c \in Callers |-> {}]
    /\ batch = [c \in Callers |-> {}]
    /\ tried = [c \in Callers |-> {}]
    /\ skipped = [c \in Callers |-> {}]
    /\ cur = [c \in Callers |-> Nil]
    /\ success = [c \in Callers |-> FALSE]
    /\ outcome = [c \in Callers |-> "ok"]
    /\ calls = [p \in Pods |-> 0]
    /\ events = [p \in Pods |-> [ok |-> 0, fail |-> 0]]
    /\ metric = [p \in Pods |-> 0]

(***************************************************************************)
(* Callers.                                                               *)
(***************************************************************************)

\* A policy hands evictPodsIfNotEvicted the pods it chose to evict, none
\* on a tick without pressure.  Only pods with requests left under the
\* bound MaxCalls are chosen.
EvictPodsIfNotEvicted(c, B) ==
    /\ pc[c] = "idle"
    /\ \A p \in B : calls[p] < MaxCalls
    /\ pc' = [pc EXCEPT ![c] = "loop"]
    /\ todo' = [todo EXCEPT ![c] = B]
    /\ batch' = [batch EXCEPT ![c] = B]
    /\ tried' = [tried EXCEPT ![c] = {}]
    /\ skipped' = [skipped EXCEPT ![c] = {}]
    /\ UNCHANGED <<phase, evicted, cur, success, outcome, calls, events, metric>>

\* The batch loop is done.
BatchDone(c) ==
    /\ pc[c] = "loop"
    /\ todo[c] = {}
    /\ pc' = [pc EXCEPT ![c] = "idle"]
    /\ UNCHANGED <<phase, evicted, todo, batch, tried, skipped, cur, success,
                   outcome, calls, events, metric>>

\* Mutation: the podsEvicted lookup is dropped.
EvictPodIfNotEvictedNoCheck(c, p) ==
    /\ pc[c] = "loop"
    /\ p \in todo[c]
    /\ pc' = [pc EXCEPT ![c] = "evict"]
    /\ cur' = [cur EXCEPT ![c] = p]
    /\ UNCHANGED <<phase, evicted, todo, batch, tried, skipped, success, outcome,
                   calls, events, metric>>

\* evictPodIfNotEvicted: podsEvicted.Get; a cached pod is skipped.
EvictPodIfNotEvicted(c, p) ==
    /\ pc[c] = "loop"
    /\ p \in todo[c]
    /\ IF p \in evicted
         THEN /\ todo' = [todo EXCEPT ![c] = @ \ {p}]
              /\ skipped' = [skipped EXCEPT ![c] = @ \cup {p}]
              /\ UNCHANGED <<pc, cur>>
         ELSE /\ pc' = [pc EXCEPT ![c] = "evict"]
              /\ cur' = [cur EXCEPT ![c] = p]
              /\ UNCHANGED <<todo, skipped>>
    /\ UNCHANGED <<phase, evicted, batch, tried, success, outcome, calls,
                   events, metric>>

\* The Eviction API's answer for pod p: an accepted eviction of a pod that
\* still exists, NotFound for a deleted pod, or any other error (a
\* disruption budget, a throttle, a network failure).
Answers(p) ==
    (IF phase[p] = "gone" THEN {"notfound"} ELSE {"ok"}) \cup {"error"}

\* evictPod: EvictV1, then a success event and metric, a failure event, or
\* nothing for NotFound; it returns false only for an error.
EvictPod(c) ==
    LET p == cur[c] IN
    /\ pc[c] = "evict"
    /\ \E a \in Answers(p) :
         /\ outcome' = [outcome EXCEPT ![c] = a]
         /\ success' = [success EXCEPT ![c] = (a # "error")]
         /\ phase' = IF a = "ok" THEN [phase EXCEPT ![p] = "terminating"] ELSE phase
         /\ events' = CASE a = "ok"    -> [events EXCEPT ![p].ok = @ + 1]
                        [] a = "error" -> [events EXCEPT ![p].fail = @ + 1]
                        [] OTHER       -> events
         /\ metric' = IF a = "ok" THEN [metric EXCEPT ![p] = @ + 1] ELSE metric
    /\ calls' = [calls EXCEPT ![p] = @ + 1]
    /\ tried' = [tried EXCEPT ![c] = @ \cup {p}]
    /\ pc' = [pc EXCEPT ![c] = "record"]
    /\ UNCHANGED <<evicted, todo, batch, skipped, cur>>

\* Mutation: the entry is inserted whatever evictPod returned.
SetDefaultAlways(c) ==
    /\ pc[c] = "record"
    /\ evicted' = evicted \cup {cur[c]}
    /\ todo' = [todo EXCEPT ![c] = @ \ {cur[c]}]
    /\ cur' = [cur EXCEPT ![c] = Nil]
    /\ pc' = [pc EXCEPT ![c] = "loop"]
    /\ UNCHANGED <<phase, batch, tried, skipped, success, outcome, calls, events,
                   metric>>

\* Mutation: the batch loop returns on the first failed eviction.
SetDefaultStopOnFailure(c) ==
    /\ pc[c] = "record"
    /\ evicted' = IF success[c] THEN evicted \cup {cur[c]} ELSE evicted
    /\ todo' = [todo EXCEPT ![c] = IF success[c] THEN @ \ {cur[c]} ELSE {}]
    /\ cur' = [cur EXCEPT ![c] = Nil]
    /\ pc' = [pc EXCEPT ![c] = "loop"]
    /\ UNCHANGED <<phase, batch, tried, skipped, success, outcome, calls, events,
                   metric>>

\* Mutation: the UID is read after the current pod was cleared.
SetDefaultAfterClear(c) ==
    /\ pc[c] = "record"
    /\ evicted' = IF success[c] THEN evicted \cup {Nil} ELSE evicted
    /\ todo' = [todo EXCEPT ![c] = @ \ {cur[c]}]
    /\ cur' = [cur EXCEPT ![c] = Nil]
    /\ pc' = [pc EXCEPT ![c] = "loop"]
    /\ UNCHANGED <<phase, batch, tried, skipped, success, outcome, calls, events,
                   metric>>

\* Back in evictPodIfNotEvicted: on success podsEvicted.SetDefault(UID);
\* then the batch loop goes on with the next pod whatever the result.
SetDefault(c) ==
    LET p == cur[c] IN
    /\ pc[c] = "record"
    /\ evicted' = IF success[c] THEN evicted \cup {p} ELSE evicted
    /\ todo' = [todo EXCEPT ![c] = @ \ {p}]
    /\ cur' = [cur EXCEPT ![c] = Nil]
    /\ pc' = [pc EXCEPT ![c] = "loop"]
    /\ UNCHANGED <<phase, batch, tried, skipped, success, outcome, calls, events,
                   metric>>

(***************************************************************************)
(* The environment: the cache's expiry sweep and the pod's lifecycle.     *)
(***************************************************************************)

\* The podsEvicted sweep drops an entry whose TTL has elapsed.
Expire(p) ==
    /\ p \in evicted
    /\ evicted' = evicted \ {p}
    /\ UNCHANGED <<phase, callerVars, calls, events, metric>>

\* The kubelet finishes an accepted eviction, or someone deletes the pod.
PodDeleted(p) ==
    /\ phase[p] # "gone"
    /\ phase' = [phase EXCEPT ![p] = "gone"]
    /\ UNCHANGED <<evicted, callerVars, calls, events, metric>>

Next ==
    \/ \E c \in Callers :
         \/ \E B \in SUBSET Pods : EvictPodsIfNotEvicted(c, B)
         \/ BatchDone(c)
         \/ \E p \in Pods : EvictPodIfNotEvicted(c, p)
         \/ EvictPod(c)
         \/ SetDefault(c)
    \/ \E p \in Pods : Expire(p) \/ PodDeleted(p)

Spec == Init /\ [][Next]_vars

(***************************************************************************)
(* Properties.                                                            *)
(***************************************************************************)

TypeOK ==
    /\ phase \in [Pods -> {"running", "terminating", "gone"}]
    /\ evicted \subseteq Pods
    /\ pc \in [Callers -> {"idle", "loop", "evict", "record"}]
    /\ todo \in [Callers -> SUBSET Pods]
    /\ batch \in [Callers -> SUBSET Pods]
    /\ tried \in [Callers -> SUBSET Pods]
    /\ skipped \in [Callers -> SUBSET Pods]
    /\ cur \in [Callers -> Pods \cup {Nil}]
    /\ success \in [Callers -> BOOLEAN]
    /\ outcome \in [Callers -> {"ok", "notfound", "error"}]
    /\ calls \in [Pods -> Nat]
    /\ events \in [Pods -> [ok : Nat, fail : Nat]]
    /\ metric \in [Pods -> Nat]

\* No eviction request is sent for a pod whose podsEvicted entry is live:
\* within the TTL window a second evictPodIfNotEvicted for an evicted pod
\* makes no API call (spec section 8), across batches, expiries and pods
\* deleted under the caller.
NoEvictWhileCached ==
    [][\A p \in Pods : calls'[p] > calls[p] => p \notin evicted]_vars

\* The cache never hides a pod that is still running: an entry is only
\* inserted for a pod whose eviction was accepted or that was already gone,
\* so a failed eviction is retried by a later tick.
CacheOnlyEvicted ==
    \A p \in evicted : phase[p] # "running"

\* When evictPodsIfNotEvicted returns, every pod of the batch was either
\* sent an eviction or found already evicted: a failure on one pod does not
\* stop the attempts on the others (spec section 8).
BatchAttemptsAll ==
    \A c \in Callers :
        pc[c] = "idle" => batch[c] \subseteq tried[c] \cup skipped[c]

\* Spec section 4.4: a NotFound answer counts as success but inserts no
\* podsEvicted entry; an entry is only inserted after an accepted eviction.
NotFoundNotCached ==
    [][\A p \in Pods :
         (p \notin evicted /\ p \in evicted')
            => \E c \in Callers : cur[c] = p /\ outcome[c] = "ok"]_vars

=============================================================================
