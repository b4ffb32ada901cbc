---------------------------- MODULE KillContainers ----------------------------
(***************************************************************************)
(* killContainers (src/unnamed/part_000 334-361): the direct-kill path    *)
(* that walks pod.Spec.Containers in order, looks each one's status up by *)
(* name, and sends the container runtime a stop with a zero grace period. *)
(*                                                                         *)
(* A container is abstracted to the branch of the loop body it takes,     *)
(* decided by its status in pod.Status and by the runtime:                *)
(*   "noStatus"   FindContainerIdAndStatusByName fails                    *)
(*   "notRunning" its status is nil or State.Running is nil              *)
(*   "noID"       running, with an empty container ID                     *)
(*   "noHandler"  running with an ID, GetRuntimeHandler fails             *)
(*   "stopFails"  the runtime's StopContainer returns an error            *)
(*   "stops"      the runtime stops it                                    *)
(***************************************************************************)
EXTENDS Naturals, Sequences

CONSTANT MaxContainers  \* bound on the containers of a pod

ASSUME MaxContainersAssumption == MaxContainers \in Nat \ {0}

Kinds == {"noStatus", "notRunning", "noID", "noHandler", "stopFails", "stops"}

\* The kinds of a container that is running.
RunningKinds == {"noID", "noHandler", "stopFails", "stops"}

\* The kinds of a container a stop request can be sent to.
StoppableKinds == {"stopFails", "stops"}

VARIABLES
    containers,  \* the pod's containers, as the branch each one takes
    i,           \* the loop index
    stopped,     \* indices of the containers a stop was sent to
    pc           \* "idle" | "loop"

vars == <<containers, i, stopped, pc>>

Pod == UNION {[1..n -> Kinds] : n \in 1..MaxContainers}

Init ==
    /\ containers = <<>>
    /\ i = 1
    /\ stopped = {}
    /\ pc = "idle"

\* Mutation: the loop index starts at 0, as Go's range index does.
CallFromZero(cs) ==
    /\ pc = "idle"
    /\ containers' = cs
    /\ i' = 0
    /\ stopped' = {}
    /\ pc' = "loop"

\* A policy calls killContainers on a pod.
Call(cs) ==
    /\ pc = "idle"
    /\ containers' = cs
    /\ i' = 1
    /\ stopped' = {}
    /\ pc' = "loop"

\* The range loop is over.
LoopEnd ==
    /\ pc = "loop"
    /\ i > Len(containers)
    /\ pc' = "idle"
    /\ UNCHANGED <<containers, i, stopped>>

\* The status lookup fails or the container is not running: return.
ReturnEarly ==
    /\ pc = "loop"
    /\ i <= Len(containers)
    /\ containers[i] \in {"noStatus", "notRunning"}
    /\ pc' = "idle"
    /\ UNCHANGED <<containers, i, stopped>>

\* Mutation: a missing runtime handler returns instead of continuing.
SkipContainerReturn ==
    /\ pc = "loop"
    /\ i <= Len(containers)
    /\ containers[i] \in {"noID", "noHandler"}
    /\ IF containers[i] = "noHandler" THEN pc' = "idle" /\ UNCHANGED i
                                      ELSE i' = i + 1 /\ UNCHANGED pc
    /\ UNCHANGED <<containers, stopped>>

\* An empty ID (a warning) or no runtime handler (continue): next one.
SkipContainer ==
    /\ pc = "loop"
    /\ i <= Len(containers)
    /\ containers[i] \in {"noID", "noHandler"}
    /\ i' = i + 1
    /\ UNCHANGED <<containers, stopped, pc>>

\* Mutation: the stop is recorded against the next index.
StopContainerOffByOne ==
    /\ pc = "loop"
    /\ i <= Len(containers)
    /\ containers[i] \in StoppableKinds
    /\ stopped' = stopped \cup {i + 1}
    /\ i' = i + 1
    /\ UNCHANGED <<containers, pc>>

\* runtimeHandler.StopContainer(containerID, 0); an error is only logged.
StopContainer ==
    /\ pc = "loop"
    /\ i <= Len(containers)
    /\ containers[i] \in StoppableKinds
    /\ stopped' = stopped \cup {i}
    /\ i' = i + 1
    /\ UNCHANGED <<containers, pc>>

Next ==
    \/ \E cs \in Pod : Call(cs)
    \/ LoopEnd
    \/ ReturnEarly
    \/ SkipContainer
    \/ StopContainer

Spec == Init /\ [][Next]_vars

TypeOK ==
    /\ containers \in Pod \cup {<<>>}
    /\ i \in 1..MaxContainers + 1
    /\ stopped \subseteq 1..MaxContainers
    /\ pc \in {"idle", "loop"}

\* The running containers that come before the first container that is not
\* running or has no status.
RunningPrefix ==
    {j \in 1..Len(containers) :
        \A k \in 1..j : containers[k] \in RunningKinds}

\* Spec section 8: a runtime handler that cannot be found for one running
\* container does not keep killContainers from sending a stop to the
\* running containers after it.
HandlerFailureIsolated ==
    pc = "idle" =>
        \A j \in RunningPrefix : containers[j] \in StoppableKinds => j \in stopped

\* Spec section 4.4: each running container is handled independently; a
\* failure on one must not block the stop of its siblings, so when
\* killContainers returns every running, stoppable container was sent a stop.
EveryRunningContainerStopped ==
    pc = "idle" =>
        \A j \in 1..Len(containers) : containers[j] \in StoppableKinds => j \in stopped

=============================================================================
