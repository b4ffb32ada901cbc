------------------------- MODULE KillContainersProofs -------------------------
(***************************************************************************)
(* Proofs about killContainers for any bound on the containers of a pod:  *)
(* the type invariant, and that a missing ID or runtime handler on one    *)
(* running container does not keep the loop from sending a stop to the    *)
(* running containers after it (HandlerFailureIsolated).                  *)
(***************************************************************************)
EXTENDS KillContainers, SequenceTheorems, TLAPS

(***************************************************************************)
(* The loop invariant.  While the loop runs, every container before the   *)
(* index is running (else the loop would have returned), and each one a   *)
(* stop could be sent to was sent one.                                     *)
(***************************************************************************)

LoopDone ==
    pc = "loop" =>
        \A j \in 1..i - 1 : /\ containers[j] \in RunningKinds
                            /\ containers[j] \in StoppableKinds => j \in stopped

KInv ==
    /\ TypeOK
    /\ containers \in Seq(Kinds)
    /\ i \in 1..Len(containers) + 1
    /\ LoopDone
    /\ HandlerFailureIsolated

\* A pod's containers form a non-empty sequence no longer than the bound.
LEMMA PodIsSeq ==
    ASSUME NEW cs \in Pod
    PROVE  cs \in Seq(Kinds) /\ Len(cs) \in 1..MaxContainers
<1>1. PICK n \in 1..MaxContainers : cs \in [1..n -> Kinds]
  BY DEF Pod
<1>2. n \in Nat
  BY MaxContainersAssumption
<1>3. cs \in Seq(Kinds)
  BY <1>1, <1>2
<1>4. Len(cs) = n
  BY <1>1, <1>2, <1>3, LenProperties
<1>5. QED
  BY <1>1, <1>3, <1>4

LEMMA KInvInit == Init => KInv
<1> SUFFICES ASSUME Init PROVE KInv
  OBVIOUS
<1>1. containers \in Seq(Kinds) /\ Len(containers) = 0
  BY EmptySeq DEF Init
<1>2. QED
  BY <1>1, MaxContainersAssumption
     DEF Init, KInv, TypeOK, LoopDone, HandlerFailureIsolated, RunningPrefix

LEMMA KInvNext ==
    ASSUME KInv, [Next]_vars
    PROVE  KInv'
<1>1. /\ containers \in Seq(Kinds) /\ Len(containers) \in 0..MaxContainers
      /\ i \in 1..Len(containers) + 1
  <2>1. CASE containers = <<>>
    BY <2>1, EmptySeq, MaxContainersAssumption DEF KInv
  <2>2. CASE containers \in Pod
    BY <2>2, PodIsSeq DEF KInv
  <2>3. QED
    BY <2>1, <2>2 DEF KInv, TypeOK
<1>2. ASSUME NEW cs \in Pod, Call(cs) PROVE KInv'
  <2>1. cs \in Seq(Kinds) /\ Len(cs) \in 1..MaxContainers
    BY PodIsSeq
  <2>2. QED
    BY <1>2, <2>1, MaxContainersAssumption
       DEF Call, KInv, TypeOK, LoopDone, HandlerFailureIsolated
\* The loop ran past the last container: every container was running, and
\* every stoppable one got its stop.
<1>3. CASE LoopEnd
  <2>1. i = Len(containers) + 1 /\ pc = "loop"
    BY <1>1, <1>3 DEF LoopEnd
  <2>2. HandlerFailureIsolated'
    BY <1>3, <2>1 DEF LoopEnd, KInv, LoopDone, HandlerFailureIsolated, RunningPrefix
  <2>3. QED
    BY <1>3, <2>2 DEF LoopEnd, KInv, TypeOK, LoopDone
\* The loop returned at container i: no container from i on is in the
\* running prefix.
<1>4. CASE ReturnEarly
  <2>1. i \in 1..Len(containers) /\ containers[i] \notin RunningKinds /\ pc = "loop"
    BY <1>1, <1>4 DEF ReturnEarly, RunningKinds
  <2>2. RunningPrefix \subseteq 1..i - 1
    BY <1>1, <2>1 DEF RunningPrefix
  <2>3. HandlerFailureIsolated'
    BY <1>4, <2>1, <2>2 DEF ReturnEarly, KInv, LoopDone, HandlerFailureIsolated,
                              RunningPrefix
  <2>4. QED
    BY <1>4, <2>3 DEF ReturnEarly, KInv, TypeOK, LoopDone
<1>5. CASE SkipContainer \/ StopContainer
  <2>1. /\ i \in 1..Len(containers) /\ containers[i] \in RunningKinds
        /\ pc = "loop" /\ pc' = "loop" /\ i' = i + 1
        /\ UNCHANGED containers
        /\ containers[i] \in StoppableKinds => i \in stopped'
        /\ stopped \subseteq stopped' /\ stopped' \subseteq stopped \cup {i}
    BY <1>1, <1>5 DEF SkipContainer, StopContainer, RunningKinds, StoppableKinds
  <2>2. LoopDone'
    BY <1>1, <2>1 DEF KInv, LoopDone
  <2>3. TypeOK'
    <3>0. /\ i \in 1..Len(containers) /\ i' = i + 1
          /\ Len(containers) \in 0..MaxContainers
          /\ stopped \subseteq 1..MaxContainers
          /\ stopped' \subseteq stopped \cup {i}
      BY <1>1, <2>1 DEF KInv, TypeOK
    <3>1. i' \in 1..MaxContainers + 1
      BY <3>0, MaxContainersAssumption
    <3>2. stopped' \subseteq 1..MaxContainers
      BY <3>0, MaxContainersAssumption
    <3>3. QED
      BY <1>5, <2>1, <3>1, <3>2 DEF KInv, TypeOK, SkipContainer, StopContainer
  <2>4. QED
    BY <1>1, <2>1, <2>2, <2>3 DEF KInv, HandlerFailureIsolated
<1>6. CASE UNCHANGED vars
  BY <1>6 DEF vars, KInv, TypeOK, LoopDone, HandlerFailureIsolated, RunningPrefix
<1>7. QED
  BY <1>2, <1>3, <1>4, <1>5, <1>6 DEF Next

LEMMA KInvHolds == Spec => []KInv
BY KInvInit, KInvNext, PTL DEF Spec

\* killContainers' state is well typed (TypeOK, checked by run kill) for
\* any bound on the containers of a pod.
THEOREM KillTypeCorrect == Spec => []TypeOK
BY KInvHolds, PTL DEF KInv

\* A container with no ID or no runtime handler does not keep
\* killContainers from stopping the running containers after it
\* (HandlerFailureIsolated, checked by run kill): when the call returns,
\* every stoppable container of the running prefix was sent a stop.
THEOREM HandlerFailureIsolatedHolds == Spec => []HandlerFailureIsolated
BY KInvHolds, PTL DEF KInv

=============================================================================
