------------------------- MODULE NodeSLOStoreProofs -------------------------
(***************************************************************************)
(* Proofs about NodeSLOStore for every value of its constants: the type   *)
(* invariant, and that a reconciler's copy from getNodeSLOCopy is always  *)
(* a merged spec (SnapshotMerged), from an inductive invariant that says  *)
(* the stored spec is merged whenever nodeSLORWMutex is free.            *)
(***************************************************************************)
EXTENDS NodeSLOStore, SequenceTheorems, TLAPS

(***************************************************************************)
(* Lemmas about the merge.                                                *)
(***************************************************************************)

\* Merging a pushed block, or nil, with a default block gives a block.
LEMMA MergeBlockType ==
    ASSUME NEW d \in BlockT, NEW p \in BlockT \cup {Nil}
    PROVE  MergeBlock(d, p) \in BlockT
<1>1. CASE p = Nil
  BY <1>1 DEF MergeBlock
<1>2. CASE p # Nil
  <2>1. p \in BlockT
    BY <1>2
  <2>2. \A l \in Leaf : (IF p[l] # Nil THEN p[l] ELSE d[l]) \in Values \cup {Nil}
    BY <2>1 DEF BlockT
  <2>3. QED
    BY <1>2, <2>2 DEF MergeBlock, BlockT
<1>3. QED
  BY <1>1, <1>2

\* Each block of a merge is a block, never nil: the default has every block.
LEMMA MergedBlockType ==
    ASSUME NEW b \in Blocks, NEW p \in BlockT \cup {Nil}
    PROVE  /\ MergedBlock(b, p) \in BlockT
           /\ MergedBlock(b, p) # Nil
<1>1. MergeBlock(Default[b], p) \in BlockT
  BY MergeBlockType, DefaultAssumption
<1>2. MergeNoneResourceQoSIfDisabled(MergeBlock(Default[b], p)) \in BlockT
  BY <1>1, DefaultAssumption DEF MergeNoneResourceQoSIfDisabled, BlockT
<1>3. MergedBlock(b, p) \in BlockT
  BY <1>1, <1>2 DEF MergedBlock
<1>4. QED
  BY <1>3, NilAssumption

\* The merge of a spec is a spec, and it does not depend on the spec it
\* overwrites: it is the merge of the incoming spec with itself.
LEMMA MergeNodeSLOSpecType ==
    ASSUME NEW raw, NEW in \in SpecT
    PROVE  /\ MergeNodeSLOSpec(raw, in) \in SpecT
           /\ MergeNodeSLOSpec(raw, in) = MergeNodeSLOSpec(in, in)
<1>1. \A b \in Blocks : /\ MergedBlock(b, in[b]) \in BlockT
                        /\ MergedBlock(b, in[b]) # Nil
  BY MergedBlockType DEF SpecT
<1>2. MergeNodeSLOSpec(raw, in) = [b \in Blocks |-> MergedBlock(b, in[b])]
  BY <1>1 DEF MergeNodeSLOSpec
<1>3. MergeNodeSLOSpec(in, in) = [b \in Blocks |-> MergedBlock(b, in[b])]
  BY <1>1 DEF MergeNodeSLOSpec
<1>4. QED
  BY <1>1, <1>2, <1>3 DEF SpecT

(***************************************************************************)
(* The type invariant.  It is not inductive alone: MergeAndUnlock reads   *)
(* the head of the queue, so the handler holding the lock needs the       *)
(* notification it is handling still queued.                              *)
(***************************************************************************)

TypeInv ==
    /\ TypeOK
    /\ writing => notes # <<>>

\* A pushed spec is never nil, so the notification built from the cache
\* or the cluster object is a Note.
LEMMA PushedNotNil == Nil \notin PushedSpecs
BY NilAssumption, PushedAssumption

LEMMA TypeInvInit == Init => TypeInv
<1> SUFFICES ASSUME Init PROVE TypeInv
  OBVIOUS
<1>1. notes \in Seq(Note)
  BY EmptySeq DEF Init
<1>2. view \in [Readers -> SpecT \cup {Nil}]
  BY DEF Init
<1>3. writes \in 0..MaxWrites /\ resyncs \in 0..MaxResyncs
  BY BoundsAssumption DEF Init
<1>4. QED
  BY <1>1, <1>2, <1>3 DEF Init, TypeInv, TypeOK

LEMMA TypeInvNext ==
    ASSUME TypeInv, [Next]_vars
    PROVE  TypeInv'
<1> USE DEF TypeInv, TypeOK
<1>1. ASSUME NEW s \in PushedSpecs, WriteNodeSLO(s) PROVE TypeInv'
  BY <1>1, BoundsAssumption DEF WriteNodeSLO
<1>2. CASE DeleteNodeSLO
  BY <1>2, BoundsAssumption DEF DeleteNodeSLO
<1>3. CASE WatchDeliver
  <2>1. CASE cache = Nil
    <3>1. [kind |-> "add", old |-> Nil, new |-> cluster] \in Note
      BY <1>3, <2>1 DEF WatchDeliver, Note
    <3>2. QED
      BY <1>3, <2>1, <3>1, AppendProperties DEF WatchDeliver
  <2>4. CASE cache # Nil /\ cluster = Nil
    BY <1>3, <2>4 DEF WatchDeliver
  <2>5. CASE cache # Nil /\ cluster # Nil
    <3>1. [kind |-> "update", old |-> cache, new |-> cluster] \in Note
      BY <2>5 DEF Note
    <3>2. QED
      BY <1>3, <2>5, <3>1, AppendProperties DEF WatchDeliver
  <2>8. QED
    BY <2>1, <2>4, <2>5
<1>4. CASE Resync
  <2>1. [kind |-> "update", old |-> cache, new |-> cache] \in Note
    BY <1>4 DEF Resync, Note
  <2>2. QED
    BY <1>4, <2>1, AppendProperties, BoundsAssumption DEF Resync
<1>5. CASE CreateNodeSLO
  <2>1. Head(notes) \in Note
    BY <1>5, HeadTailProperties DEF CreateNodeSLO
  <2>2. QED
    BY <1>5, <2>1, PushedAssumption DEF CreateNodeSLO, Note
<1>6. CASE UpdateNodeSLOSpec
  <2>1. Head(notes) \in Note /\ Tail(notes) \in Seq(Note)
    BY <1>6, HeadTailProperties DEF UpdateNodeSLOSpec
  <2>2. QED
    BY <1>6, <2>1, PushedAssumption DEF UpdateNodeSLOSpec, Note
<1>7. CASE MergeAndUnlock
  <2>1. Head(notes) \in Note /\ Tail(notes) \in Seq(Note)
    BY <1>7, HeadTailProperties DEF MergeAndUnlock
  <2>2. Head(notes).new \in SpecT
    BY <2>1, PushedAssumption DEF Note
  <2>3. MergeNodeSLOSpec(nodeSLO, Head(notes).new) \in SpecT
    BY <2>2, MergeNodeSLOSpecType
  <2>4. QED
    BY <1>7, <2>1, <2>3 DEF MergeAndUnlock
<1>8. ASSUME NEW r \in Readers, GetNodeSLOCopy(r) PROVE TypeInv'
  BY <1>8 DEF GetNodeSLOCopy
<1>9. CASE UNCHANGED vars
  BY <1>9 DEF vars
<1>10. QED
  BY <1>1, <1>2, <1>3, <1>4, <1>5, <1>6, <1>7, <1>8, <1>9 DEF Next

\* The type invariant (TypeOK, checked by run store_merge) holds in every
\* reachable state of the store, the informer queue and the readers.
THEOREM TypeCorrect == Spec => []TypeOK
<1>1. Spec => []TypeInv
  BY TypeInvInit, TypeInvNext, PTL DEF Spec
<1>2. QED
  BY <1>1, PTL DEF TypeInv

(***************************************************************************)
(* SnapshotMerged.  The copies the readers hold are merged because the    *)
(* store itself is merged whenever the lock is free: the raw pushed spec  *)
(* is only ever in r.nodeSLO while the handler holds nodeSLORWMutex, and  *)
(* the merge that ends that critical section does not depend on what it   *)
(* overwrites.                                                            *)
(***************************************************************************)

StoreMerged == ~writing => nodeSLO \in MergedSpecs \cup {Nil}

IInv ==
    /\ TypeInv
    /\ StoreMerged
    /\ SnapshotMerged

LEMMA IInvInit == Init => IInv
<1> SUFFICES ASSUME Init PROVE IInv
  OBVIOUS
<1>1. TypeInv
  BY TypeInvInit
<1>2. StoreMerged /\ SnapshotMerged
  BY DEF Init, StoreMerged, SnapshotMerged
<1>3. QED
  BY <1>1, <1>2 DEF IInv

\* The merge of a queued spec is one of MergedSpecs.
LEMMA MergeInMergedSpecs ==
    ASSUME NEW raw, NEW s \in PushedSpecs
    PROVE  MergeNodeSLOSpec(raw, s) \in MergedSpecs
<1>1. s \in SpecT
  BY PushedAssumption
<1>2. MergeNodeSLOSpec(raw, s) = MergeNodeSLOSpec(s, s)
  BY <1>1, MergeNodeSLOSpecType
<1>3. QED
  BY <1>2 DEF MergedSpecs

LEMMA IInvNext ==
    ASSUME IInv, [Next]_vars
    PROVE  IInv'
<1>1. TypeInv'
  BY TypeInvNext DEF IInv
<1> USE DEF IInv, StoreMerged, SnapshotMerged
<1>2. ASSUME NEW s \in PushedSpecs, WriteNodeSLO(s) PROVE IInv'
  BY <1>1, <1>2 DEF WriteNodeSLO
<1>3. CASE DeleteNodeSLO
  BY <1>1, <1>3 DEF DeleteNodeSLO
<1>4. CASE WatchDeliver
  BY <1>1, <1>4 DEF WatchDeliver
<1>5. CASE Resync
  BY <1>1, <1>5 DEF Resync
<1>6. CASE CreateNodeSLO
  BY <1>1, <1>6 DEF CreateNodeSLO
<1>7. CASE UpdateNodeSLOSpec
  BY <1>1, <1>7 DEF UpdateNodeSLOSpec
<1>8. CASE MergeAndUnlock
  <2>1. Head(notes) \in Note
    BY <1>8, HeadTailProperties DEF MergeAndUnlock, TypeInv, TypeOK
  <2>2. nodeSLO' \in MergedSpecs \cup {Nil}
    BY <1>8, <2>1, MergeInMergedSpecs DEF MergeAndUnlock, Note
  <2>3. QED
    BY <1>1, <1>8, <2>2 DEF MergeAndUnlock
<1>9. ASSUME NEW r \in Readers, GetNodeSLOCopy(r) PROVE IInv'
  <2>1. nodeSLO \in MergedSpecs \cup {Nil}
    BY <1>9 DEF GetNodeSLOCopy
  <2>2. QED
    BY <1>1, <1>9, <2>1 DEF GetNodeSLOCopy, TypeInv, TypeOK
<1>10. CASE UNCHANGED vars
  BY <1>1, <1>10 DEF vars
<1>11. QED
  BY <1>2, <1>3, <1>4, <1>5, <1>6, <1>7, <1>8, <1>9, <1>10 DEF Next

\* A reconciler never sees a half-written spec (SnapshotMerged, checked by
\* run store_order): every copy getNodeSLOCopy returns, for any defaults,
\* pushed specs and number of reconcilers, is nil or a merged spec.
THEOREM SnapshotsAreMerged == Spec => []SnapshotMerged
<1>1. Spec => []IInv
  BY IInvInit, IInvNext, PTL DEF Spec
<1>2. QED
  BY <1>1, PTL DEF IInv

(***************************************************************************)
(* NoNilDefaultLeaf: totality of the merge.                               *)
(***************************************************************************)

\* A leaf the default sets is set after merging any block over it.
LEMMA MergedLeafSet ==
    ASSUME NEW b \in Blocks, NEW p \in BlockT \cup {Nil}, NEW l \in Leaf,
           Default[b][l] # Nil
    PROVE  MergedBlock(b, p)[l] # Nil
<1>1. MergeBlock(Default[b], p)[l] # Nil
  <2>1. CASE p = Nil
    BY <2>1 DEF MergeBlock
  <2>2. CASE p # Nil
    BY <2>2 DEF MergeBlock
  <2>3. QED
    BY <2>1, <2>2
<1>2. MergeBlock(Default[b], p) \in BlockT
  BY MergeBlockType, DefaultAssumption
<1>3. MergeNoneResourceQoSIfDisabled(MergeBlock(Default[b], p))[l] # Nil
  BY <1>1, <1>2, DefaultAssumption, NilAssumption
     DEF MergeNoneResourceQoSIfDisabled, BlockT
<1>4. QED
  BY <1>1, <1>3 DEF MergedBlock

\* Whenever the lock is free the stored spec is total: it has every block
\* and every leaf the default config sets.
LEMMA StoreTotal == IInv => NoNilDefaultLeaf
<1> SUFFICES ASSUME IInv, ~writing, nodeSLO # Nil,
                    NEW b \in Blocks
             PROVE  /\ nodeSLO[b] # Nil
                    /\ \A l \in Leaf : Default[b][l] # Nil => nodeSLO[b][l] # Nil
  BY DEF NoNilDefaultLeaf
<1>1. PICK s \in PushedSpecs : nodeSLO = MergeNodeSLOSpec(s, s)
  BY DEF IInv, StoreMerged, MergedSpecs
<1>2. s \in SpecT
  BY PushedAssumption
<1>3. s[b] \in BlockT \cup {Nil}
  BY <1>2 DEF SpecT
<1>4. nodeSLO[b] = MergedBlock(b, s[b])
  BY <1>1, <1>3, MergedBlockType DEF MergeNodeSLOSpec
<1>5. QED
  BY <1>3, <1>4, MergedBlockType, MergedLeafSet

\* Every leaf the default config sets is set in the stored spec whenever
\* the lock is free (NoNilDefaultLeaf, checked by run store_merge), for
\* every default config and every spec the control plane may push.
THEOREM MergeIsTotal == Spec => []NoNilDefaultLeaf
BY StoreTotal, IInvInit, IInvNext, PTL DEF Spec

=============================================================================
