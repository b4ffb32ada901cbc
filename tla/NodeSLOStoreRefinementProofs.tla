-------------------- MODULE NodeSLOStoreRefinementProofs --------------------
(***************************************************************************)
(* Proof that NodeSLOStore implements NodeSLOStoreAbstract under the      *)
(* refinement mapping of AbstractStore: the merge mergeNodeSLOSpec        *)
(* computes is the leaf-wise merge the abstract store states, taking the  *)
(* lock to store a pushed spec is the abstract step, and the merge that   *)
(* ends the critical section is a stutter because the raw spec in the     *)
(* store is the one the handler is merging.                               *)
(***************************************************************************)
EXTENDS NodeSLOStoreProofs

(***************************************************************************)
(* The detailed merge is the abstract one.                                *)
(***************************************************************************)

\* Block by block, leaf by leaf, mergeNodeSLOSpec with the resctrl override
\* gives the merged value the abstract store states.
LEMMA MergedBlockLeaf ==
    ASSUME NEW s \in SpecT, NEW b \in Blocks, NEW l \in Leaf
    PROVE  MergedBlock(b, s[b])[l] = AbstractStore!MergedLeaf(s, b, l)
<1>1. s[b] \in BlockT \cup {Nil} /\ Default[b] \in BlockT
  BY DefaultAssumption DEF SpecT
<1>2. MergeBlock(Default[b], s[b]) \in BlockT
  BY <1>1, MergeBlockType
<1>3. MergeBlock(Default[b], s[b])[l]
        = IF s[b] # Nil /\ s[b][l] # Nil THEN s[b][l] ELSE Default[b][l]
  BY <1>1 DEF MergeBlock, BlockT
<1>4. CASE b = "qos" /\ l = ResctrlLeaf /\ ~RdtResctrlEnabled
  <2> DEFINE q == MergeBlock(Default[b], s[b])
  <2>1. q # Nil /\ DOMAIN q = Leaf
    BY <1>2, NilAssumption DEF BlockT
  <2>2. MergedBlock(b, s[b]) = [q EXCEPT ![ResctrlLeaf] = Disabled]
    BY <1>4, <2>1 DEF MergedBlock, MergeNoneResourceQoSIfDisabled
  <2>3. MergedBlock(b, s[b])[l] = Disabled
    BY <1>4, <2>1, <2>2, DefaultAssumption
  <2>4. AbstractStore!MergedLeaf(s, b, l) = Disabled
    BY <1>4 DEF AbstractStore!MergedLeaf
  <2>5. QED
    BY <2>3, <2>4
<1>5. CASE ~(b = "qos" /\ l = ResctrlLeaf /\ ~RdtResctrlEnabled)
  <2>1. MergedBlock(b, s[b])[l] = MergeBlock(Default[b], s[b])[l]
    BY <1>2, <1>5, NilAssumption
       DEF MergedBlock, MergeNoneResourceQoSIfDisabled, BlockT
  <2>2. QED
    BY <1>3, <1>5, <2>1, DefaultAssumption DEF AbstractStore!MergedLeaf
<1>6. QED
  BY <1>4, <1>5

LEMMA MergeIsAbstractMerge ==
    ASSUME NEW s \in SpecT
    PROVE  MergeNodeSLOSpec(s, s) = AbstractStore!MergedSpec(s)
<1>1. \A b \in Blocks : /\ MergedBlock(b, s[b]) \in BlockT
                        /\ MergedBlock(b, s[b]) # Nil
  BY MergedBlockType DEF SpecT
<1>2. MergeNodeSLOSpec(s, s) = [b \in Blocks |-> MergedBlock(b, s[b])]
  BY <1>1 DEF MergeNodeSLOSpec
<1>3. \A b \in Blocks : MergedBlock(b, s[b])
                          = [l \in Leaf |-> AbstractStore!MergedLeaf(s, b, l)]
  BY <1>1, MergedBlockLeaf DEF BlockT
<1>4. QED
  BY <1>2, <1>3 DEF AbstractStore!MergedSpec, Blocks, AbstractStore!Blocks

(***************************************************************************)
(* The invariant the step simulation needs: while the handler holds the   *)
(* lock, the store holds the spec of the notification it is handling.     *)
(***************************************************************************)

WritingHead == writing => nodeSLO = Head(notes).new

RInv == TypeInv /\ WritingHead

LEMMA RInvInit == Init => RInv
BY TypeInvInit DEF Init, RInv, WritingHead

LEMMA RInvNext ==
    ASSUME RInv, [Next]_vars
    PROVE  RInv'
<1>1. TypeInv'
  BY TypeInvNext DEF RInv
<1> USE DEF RInv, WritingHead
<1>2. ASSUME NEW s \in PushedSpecs, WriteNodeSLO(s) PROVE RInv'
  BY <1>1, <1>2 DEF WriteNodeSLO
<1>3. CASE DeleteNodeSLO
  BY <1>1, <1>3 DEF DeleteNodeSLO
<1>4. CASE WatchDeliver
  <2>1. CASE writing
    <3>1. notes \in Seq(Note) /\ notes # <<>>
      BY <2>1 DEF TypeInv, TypeOK
    <3>2. \A x : Head(Append(notes, x)) = Head(notes)
      BY <3>1, AppendProperties, HeadTailProperties
    <3>3. Head(notes') = Head(notes)
      BY <1>4, <3>2 DEF WatchDeliver
    <3>4. QED
      BY <1>1, <1>4, <3>3 DEF WatchDeliver
  <2>2. QED
    BY <1>1, <1>4, <2>1 DEF WatchDeliver
<1>5. CASE Resync
  <2>1. CASE writing
    <3>1. notes \in Seq(Note) /\ notes # <<>>
      BY <2>1 DEF TypeInv, TypeOK
    <3>2. Head(notes') = Head(notes)
      BY <1>5, <3>1, AppendProperties, HeadTailProperties DEF Resync
    <3>3. QED
      BY <1>1, <1>5, <3>2 DEF Resync
  <2>2. QED
    BY <1>1, <1>5, <2>1 DEF Resync
<1>6. CASE CreateNodeSLO
  BY <1>1, <1>6 DEF CreateNodeSLO
<1>7. CASE UpdateNodeSLOSpec
  BY <1>1, <1>7 DEF UpdateNodeSLOSpec
<1>8. CASE MergeAndUnlock
  BY <1>1, <1>8 DEF MergeAndUnlock
<1>9. ASSUME NEW r \in Readers, GetNodeSLOCopy(r) PROVE RInv'
  BY <1>1, <1>9 DEF GetNodeSLOCopy
<1>10. CASE UNCHANGED vars
  BY <1>1, <1>10 DEF vars
<1>11. QED
  BY <1>2, <1>3, <1>4, <1>5, <1>6, <1>7, <1>8, <1>9, <1>10 DEF Next

(***************************************************************************)
(* Step simulation.                                                       *)
(***************************************************************************)

\* The abstract state the mapping gives.
AbsDesired == IF writing THEN MergeNodeSLOSpec(nodeSLO, nodeSLO) ELSE nodeSLO

LEMMA RefInit == Init => AbstractStore!AInit
BY DEF Init, AbstractStore!AInit

\* Taking the lock to store pushed spec s is the abstract Apply(s).
LEMMA StoreIsApply ==
    ASSUME NEW s \in PushedSpecs, writing', nodeSLO' = s, UNCHANGED view
    PROVE  AbstractStore!Apply(s)
<1>1. s \in SpecT
  BY PushedAssumption
<1>2. MergeNodeSLOSpec(s, s) = AbstractStore!MergedSpec(s)
  BY <1>1, MergeIsAbstractMerge
<1>3. QED
  BY <1>2 DEF AbstractStore!Apply

LEMMA RefNext ==
    ASSUME RInv, [Next]_vars
    PROVE  [AbstractStore!ANext]_AbstractStore!avars
<1> USE DEF AbstractStore!avars
\* Steps that change neither writing, nor the store, nor the copies.
<1>1. CASE UNCHANGED <<nodeSLO, writing, view>>
  BY <1>1
<1>2. CASE CreateNodeSLO
  <2>1. Head(notes) \in Note
    BY <1>2, HeadTailProperties DEF CreateNodeSLO, RInv, TypeInv, TypeOK
  <2>2. Head(notes).new \in PushedSpecs
    BY <2>1 DEF Note
  <2>3. AbstractStore!Apply(Head(notes).new)
    BY <1>2, <2>2, StoreIsApply DEF CreateNodeSLO
  <2>4. QED
    BY <1>2, <2>2, <2>3 DEF AbstractStore!ANext, CreateNodeSLO
<1>3. CASE UpdateNodeSLOSpec
  <2>1. Head(notes) \in Note
    BY <1>3, HeadTailProperties DEF UpdateNodeSLOSpec, RInv, TypeInv, TypeOK
  <2>2. Head(notes).new \in PushedSpecs
    BY <2>1 DEF Note
  <2>3. CASE Head(notes).old = Head(notes).new
    BY <1>3, <2>3 DEF UpdateNodeSLOSpec
  <2>4. CASE Head(notes).old # Head(notes).new
    <3>1. AbstractStore!Apply(Head(notes).new)
      BY <1>3, <2>2, <2>4, StoreIsApply DEF UpdateNodeSLOSpec
    <3>2. QED
      BY <1>3, <2>2, <3>1 DEF AbstractStore!ANext, UpdateNodeSLOSpec
  <2>5. QED
    BY <2>3, <2>4
<1>4. CASE MergeAndUnlock
  <2>1. Head(notes) \in Note /\ nodeSLO = Head(notes).new
    BY <1>4, HeadTailProperties DEF MergeAndUnlock, RInv, TypeInv, TypeOK, WritingHead
  <2>2. nodeSLO \in PushedSpecs /\ nodeSLO # Nil
    BY <2>1, PushedNotNil DEF Note
  <2>3. nodeSLO' = MergeNodeSLOSpec(nodeSLO, nodeSLO)
    BY <1>4, <2>1, <2>2 DEF MergeAndUnlock
  <2>4. QED
    BY <1>4, <2>3 DEF MergeAndUnlock
<1>5. ASSUME NEW r \in Readers, GetNodeSLOCopy(r)
      PROVE  [AbstractStore!ANext]_AbstractStore!avars
  <2>1. AbstractStore!Read(r)
    BY <1>5 DEF GetNodeSLOCopy, AbstractStore!Read
  <2>2. QED
    BY <2>1 DEF AbstractStore!ANext
<1>6. QED
  <2>1. CASE \E s \in PushedSpecs : WriteNodeSLO(s)
    BY <2>1, <1>1 DEF WriteNodeSLO
  <2>2. CASE DeleteNodeSLO \/ WatchDeliver \/ Resync \/ UNCHANGED vars
    BY <2>2, <1>1 DEF DeleteNodeSLO, WatchDeliver, Resync, vars
  <2>3. QED
    BY <1>2, <1>3, <1>4, <1>5, <2>1, <2>2 DEF Next

\* The store implements the abstract atomic register of merged specs
\* (StoreRefinesAbstract, checked by run store_refinement), for any
\* defaults, pushed specs, gate setting and readers.
THEOREM StoreImplementsAbstract == Spec => StoreRefinesAbstract
<1>1. Spec => []RInv
  BY RInvInit, RInvNext, PTL DEF Spec
<1>2. QED
  BY <1>1, RefInit, RefNext, PTL DEF Spec, StoreRefinesAbstract, AbstractStore!ASpec

=============================================================================
