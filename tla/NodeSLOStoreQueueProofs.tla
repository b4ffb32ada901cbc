---------------------- MODULE NodeSLOStoreQueueProofs ----------------------
(***************************************************************************)
(* Proofs that the handler's queue discipline keeps the store in step     *)
(* with the informer: no update reaches an empty store (the dereference   *)
(* in updateNodeSLOSpec), and once the queue is drained the store holds   *)
(* the merge of the cached object, for every value of the constants.      *)
(*                                                                         *)
(* The argument is about the queue the informer builds.  Each update's    *)
(* old object is the new object of the notification before it; the last   *)
(* notification carries the cached object unless a delete emptied the     *)
(* cache since; and the notification at the head is applied against a     *)
(* store that already holds the merge of its old object, which is why     *)
(* the DeepEqual drop in UpdateFunc loses nothing.                         *)
(***************************************************************************)
EXTENDS NodeSLOStoreRefinementProofs

\* The last notification queued.
LastNote == notes[Len(notes)]

\* In queue q, each update was computed against the object the
\* notification before it delivered.
ChainOf(q) ==
    \A i \in 2..Len(q) : q[i].kind = "update" => q[i].old = q[i - 1].new

Chained == ChainOf(notes)

\* The queue ends with the cached object, unless the cache was emptied by
\* a delete after it (no DeleteFunc: a delete queues nothing).
LastIsCache ==
    (notes # <<>> /\ cache # Nil) => LastNote.new = cache

\* An update at the head meets a store that holds the merge of its old
\* object.
HeadApplied ==
    (~writing /\ notes # <<>> /\ Head(notes).kind = "update")
        => nodeSLO = MergeNodeSLOSpec(Head(notes).old, Head(notes).old)

\* With the queue drained, the store holds the merge of the cached object.
DrainedApplied ==
    (notes = <<>> /\ cache # Nil) => nodeSLO = MergeNodeSLOSpec(cache, cache)

QInv == RInv /\ Chained /\ LastIsCache /\ HeadApplied /\ DrainedApplied

(***************************************************************************)
(* Lemmas about the queue: what the handler popping its head and the      *)
(* informer appending a notification do to the chain.                     *)
(***************************************************************************)

LEMMA PopChain ==
    ASSUME NEW q \in Seq(Note), q # <<>>, ChainOf(q)
    PROVE  /\ ChainOf(Tail(q))
           /\ Tail(q) # <<>> => /\ Tail(q)[Len(Tail(q))] = q[Len(q)]
                               /\ (Head(Tail(q)).kind = "update"
                                      => Head(Tail(q)).old = Head(q).new)
           /\ Tail(q) = <<>> => q[Len(q)] = Head(q)
<1>1. /\ Tail(q) \in Seq(Note)
      /\ Len(Tail(q)) = Len(q) - 1
      /\ \A i \in 1..Len(Tail(q)) : Tail(q)[i] = q[i + 1]
      /\ Len(q) \in Nat \ {0}
  BY HeadTailProperties, LenProperties, EmptySeq
<1>2. ChainOf(Tail(q))
  BY <1>1 DEF ChainOf
<1>3. Tail(q) # <<>> => Len(Tail(q)) \in Nat \ {0}
  BY <1>1, LenProperties, EmptySeq
<1>4. Tail(q) # <<>> => (Head(Tail(q)).kind = "update"
                          => Head(Tail(q)).old = Head(q).new)
  BY <1>1, <1>3 DEF ChainOf
<1>5. Tail(q) = <<>> => Len(q) = 1
  BY <1>1, EmptySeq
<1>6. QED
  BY <1>1, <1>2, <1>3, <1>4, <1>5

LEMMA PushChain ==
    ASSUME NEW q \in Seq(Note), NEW n \in Note, ChainOf(q),
           (n.kind = "update" /\ q # <<>>) => n.old = q[Len(q)].new
    PROVE  /\ ChainOf(Append(q, n))
           /\ Append(q, n)[Len(Append(q, n))] = n
           /\ q # <<>> => Head(Append(q, n)) = Head(q)
           /\ q = <<>> => Head(Append(q, n)) = n
<1>1. /\ Len(Append(q, n)) = Len(q) + 1
      /\ \A i \in 1..Len(q) : Append(q, n)[i] = q[i]
      /\ Append(q, n)[Len(q) + 1] = n
      /\ Len(q) \in Nat
  BY AppendProperties, LenProperties
<1>2. ChainOf(Append(q, n))
  <2> SUFFICES ASSUME NEW i \in 2..Len(Append(q, n)),
                      Append(q, n)[i].kind = "update"
               PROVE  Append(q, n)[i].old = Append(q, n)[i - 1].new
    BY DEF ChainOf
  <2>1. CASE i = Len(q) + 1
    BY <1>1, <2>1, EmptySeq
  <2>2. CASE i \in 2..Len(q)
    BY <1>1, <2>2 DEF ChainOf
  <2>3. QED
    BY <1>1, <2>1, <2>2
<1>3. q = <<>> => Len(q) = 0
  BY EmptySeq
<1>4. q # <<>> => Len(q) \in Nat \ {0}
  BY <1>1, EmptySeq
<1>5. QED
  BY <1>1, <1>2, <1>3, <1>4

\* A store holding the merge of pushed spec s holds its leaf-wise merge.
LEMMA MergeReflects ==
    ASSUME NEW s \in SpecT, nodeSLO = MergeNodeSLOSpec(s, s)
    PROVE  Reflects(s)
<1>1. nodeSLO \in SpecT
  BY MergeNodeSLOSpecType
<1>2. nodeSLO = AbstractStore!MergedSpec(s)
  BY MergeIsAbstractMerge
<1>3. \A b \in Blocks : nodeSLO[b] = MergedBlock(b, s[b]) /\ MergedBlock(b, s[b]) # Nil
  BY MergedBlockType DEF MergeNodeSLOSpec, SpecT
<1>4. \A b \in Blocks, l \in Leaf : nodeSLO[b][l] = ExpectedLeaf(s, b, l)
  <2> TAKE b \in Blocks, l \in Leaf
  <2>1. nodeSLO[b][l] = AbstractStore!MergedLeaf(s, b, l)
    BY <1>2 DEF AbstractStore!MergedSpec, AbstractStore!Blocks, Blocks
  <2>2. AbstractStore!MergedLeaf(s, b, l) = ExpectedLeaf(s, b, l)
    BY DEF AbstractStore!MergedLeaf, ExpectedLeaf
  <2>3. QED
    BY <2>1, <2>2
<1>5. QED
  BY <1>1, <1>3, <1>4, NilAssumption DEF Reflects

(***************************************************************************)
(* The handler finishing with the head of the queue: the store holds the  *)
(* merge of the head's new object, the lock is free and the head is gone. *)
(***************************************************************************)
LEMMA PopKeepsQueue ==
    ASSUME QInv, notes # <<>>,
           nodeSLO' = MergeNodeSLOSpec(Head(notes).new, Head(notes).new),
           notes' = Tail(notes), ~writing', cache' = cache
    PROVE  Chained' /\ LastIsCache' /\ HeadApplied' /\ DrainedApplied'
<1>1. notes \in Seq(Note) /\ ChainOf(notes)
  BY DEF QInv, RInv, TypeInv, TypeOK, Chained
<1>2. /\ ChainOf(Tail(notes))
      /\ Tail(notes) # <<>> => /\ Tail(notes)[Len(Tail(notes))] = notes[Len(notes)]
                               /\ (Head(Tail(notes)).kind = "update"
                                     => Head(Tail(notes)).old = Head(notes).new)
      /\ Tail(notes) = <<>> => notes[Len(notes)] = Head(notes)
  BY <1>1, PopChain
<1>3. Chained'
  BY <1>2 DEF Chained
<1>4. LastIsCache'
  BY <1>2 DEF QInv, LastIsCache, LastNote
<1>5. HeadApplied'
  BY <1>2 DEF HeadApplied
<1>6. DrainedApplied'
  BY <1>2 DEF QInv, LastIsCache, LastNote, DrainedApplied
<1>7. QED
  BY <1>3, <1>4, <1>5, <1>6

LEMMA QInvInit == Init => QInv
<1> SUFFICES ASSUME Init PROVE QInv
  OBVIOUS
<1>1. RInv
  BY RInvInit
<1>2. QED
  BY <1>1, EmptySeq DEF Init, QInv, Chained, ChainOf, LastIsCache,
                         HeadApplied, DrainedApplied

\* The informer appending notification n, which it computed against the
\* cached object, keeps the queue's chain and ends it with the new cache.
LEMMA PushKeepsQueue ==
    ASSUME QInv, NEW n \in Note,
           n.kind = "update" => n.old = cache,
           notes' = Append(notes, n), cache' = n.new,
           UNCHANGED <<nodeSLO, writing>>
    PROVE  Chained' /\ LastIsCache' /\ HeadApplied' /\ DrainedApplied'
<1>1. notes \in Seq(Note) /\ ChainOf(notes) /\ (writing => notes # <<>>)
  BY DEF QInv, RInv, TypeInv, TypeOK, Chained
<1>2. (n.kind = "update" /\ notes # <<>>) => n.old = notes[Len(notes)].new
  BY PushedNotNil DEF QInv, LastIsCache, LastNote, Note
<1>3. /\ ChainOf(Append(notes, n))
      /\ Append(notes, n)[Len(Append(notes, n))] = n
      /\ notes # <<>> => Head(Append(notes, n)) = Head(notes)
      /\ notes = <<>> => Head(Append(notes, n)) = n
  BY <1>1, <1>2, PushChain
<1>4. Append(notes, n) # <<>>
  BY <1>1, AppendProperties
<1>5. HeadApplied'
  <2>1. CASE notes # <<>>
    BY <1>3, <2>1 DEF QInv, HeadApplied
  <2>2. CASE notes = <<>>
    BY <1>1, <1>3, <2>2, PushedNotNil DEF QInv, DrainedApplied, HeadApplied, Note
  <2>3. QED
    BY <2>1, <2>2
<1>6. QED
  BY <1>3, <1>4, <1>5 DEF Chained, LastIsCache, LastNote, DrainedApplied

LEMMA QInvNext ==
    ASSUME QInv, [Next]_vars
    PROVE  QInv'
<1>1. RInv'
  BY RInvNext DEF QInv
<1>2. TypeInv /\ WritingHead
  BY DEF QInv, RInv
<1> SUFFICES Chained' /\ LastIsCache' /\ HeadApplied' /\ DrainedApplied'
  BY <1>1 DEF QInv
\* Steps that touch neither the queue, nor the cache, nor the store.
<1>3. CASE UNCHANGED <<notes, cache, nodeSLO, writing>>
  BY <1>3 DEF QInv, Chained, LastIsCache, LastNote, HeadApplied, DrainedApplied
<1>4. CASE WatchDeliver
  <2>1. cache # cluster /\ cache' = cluster /\ UNCHANGED <<nodeSLO, writing>>
    BY <1>4 DEF WatchDeliver
  <2>2. cluster \in PushedSpecs \cup {Nil} /\ cache \in PushedSpecs \cup {Nil}
    BY <1>2 DEF TypeInv, TypeOK
  <2>3. CASE cache = Nil
    <3> DEFINE n == [kind |-> "add", old |-> Nil, new |-> cluster]
    <3>1. n \in Note /\ notes' = Append(notes, n)
      BY <1>4, <2>1, <2>2, <2>3 DEF WatchDeliver, Note
    <3>2. QED
      BY <2>1, <3>1, PushKeepsQueue
  <2>4. CASE cache # Nil /\ cluster = Nil
    <3>1. notes' = notes
      BY <1>4, <2>4 DEF WatchDeliver
    <3>2. QED
      BY <2>1, <2>4, <3>1 DEF QInv, Chained, LastIsCache, LastNote, HeadApplied,
                              DrainedApplied
  <2>5. CASE cache # Nil /\ cluster # Nil
    <3> DEFINE n == [kind |-> "update", old |-> cache, new |-> cluster]
    <3>1. n \in Note /\ notes' = Append(notes, n)
      BY <1>4, <2>1, <2>2, <2>5 DEF WatchDeliver, Note
    <3>2. QED
      BY <2>1, <3>1, PushKeepsQueue
  <2>6. QED
    BY <2>3, <2>4, <2>5
<1>5. CASE Resync
  <2> DEFINE n == [kind |-> "update", old |-> cache, new |-> cache]
  <2>1. cache \in PushedSpecs
    BY <1>2, <1>5 DEF Resync, TypeInv, TypeOK
  <2>2. n \in Note /\ notes' = Append(notes, n) /\ cache' = cache
        /\ UNCHANGED <<nodeSLO, writing>>
    BY <1>5, <2>1 DEF Resync, Note
  <2>3. QED
    BY <2>2, PushKeepsQueue
\* Taking the lock: the queue stays, and the store is not read until the
\* merge.
<1>6. CASE CreateNodeSLO \/ (UpdateNodeSLOSpec /\ Head(notes).old # Head(notes).new)
  <2>1. notes # <<>> /\ writing' /\ UNCHANGED <<notes, cache>>
    BY <1>6 DEF CreateNodeSLO, UpdateNodeSLOSpec
  <2>2. QED
    BY <2>1 DEF QInv, Chained, LastIsCache, LastNote, HeadApplied, DrainedApplied
\* The DeepEqual drop: the store already holds the merge of the dropped
\* notification's object.
<1>7. CASE UpdateNodeSLOSpec /\ Head(notes).old = Head(notes).new
  <2>1. /\ ~writing /\ notes # <<>> /\ Head(notes).kind = "update"
        /\ notes' = Tail(notes) /\ UNCHANGED <<nodeSLO, writing, cache>>
    BY <1>7 DEF UpdateNodeSLOSpec
  <2>2. nodeSLO = MergeNodeSLOSpec(Head(notes).new, Head(notes).new)
    BY <1>7, <2>1 DEF QInv, HeadApplied
  <2>3. QED
    BY <2>1, <2>2, PopKeepsQueue
<1>8. CASE MergeAndUnlock
  <2>1. /\ writing /\ notes # <<>> /\ notes' = Tail(notes) /\ ~writing'
        /\ cache' = cache
    BY <1>2, <1>8 DEF MergeAndUnlock, TypeInv
  <2>2. nodeSLO = Head(notes).new /\ Head(notes) \in Note
    BY <1>2, <2>1, HeadTailProperties DEF WritingHead, TypeInv, TypeOK
  <2>3. nodeSLO # Nil
    BY <2>2, PushedNotNil DEF Note
  <2>4. nodeSLO' = MergeNodeSLOSpec(Head(notes).new, Head(notes).new)
    BY <1>8, <2>2, <2>3 DEF MergeAndUnlock
  <2>5. QED
    BY <2>1, <2>4, PopKeepsQueue
<1>9. QED
  <2>1. CASE (\E s \in PushedSpecs : WriteNodeSLO(s)) \/ DeleteNodeSLO
             \/ (\E r \in Readers : GetNodeSLOCopy(r)) \/ UNCHANGED vars
    BY <1>3, <2>1 DEF WriteNodeSLO, DeleteNodeSLO, GetNodeSLOCopy, vars
  <2>2. QED
    BY <1>4, <1>5, <1>6, <1>7, <1>8, <2>1 DEF Next

LEMMA QInvHolds == Spec => []QInv
BY QInvInit, QInvNext, PTL DEF Spec

\* Once the handler has drained its queue, the store holds the leaf-wise
\* merge of the cached object (StoreFollowsCache, checked by run
\* store_merge): through creates, updates, deletes, re-creates, resyncs and
\* DeepEqual drops, for any defaults, pushed specs and bounds.
THEOREM StoreFollowsCacheHolds == Spec => []StoreFollowsCache
<1>1. QInv => StoreFollowsCache
  <2> SUFFICES ASSUME QInv, notes = <<>>, cache # Nil PROVE Reflects(cache)
    BY DEF StoreFollowsCache
  <2>1. cache \in SpecT
    BY PushedAssumption DEF QInv, RInv, TypeInv, TypeOK
  <2>2. nodeSLO = MergeNodeSLOSpec(cache, cache)
    BY DEF QInv, DrainedApplied
  <2>3. QED
    BY <2>1, <2>2, MergeReflects
<1>2. QED
  BY <1>1, QInvHolds, PTL

\* updateNodeSLOSpec never dereferences a nil r.nodeSLO
\* (NoUpdateBeforeCreate, checked by run store_order): an update the
\* handler does not drop always finds a stored spec.
THEOREM NoNilDereferenceOnUpdate == Spec => []NoUpdateBeforeCreate
<1>1. QInv => NoUpdateBeforeCreate
  <2> SUFFICES ASSUME QInv, notes # <<>>, Head(notes).kind = "update"
               PROVE  nodeSLO # Nil
    BY DEF NoUpdateBeforeCreate
  <2>1. Head(notes) \in Note
    BY HeadTailProperties DEF QInv, RInv, TypeInv, TypeOK
  <2>2. CASE writing
    BY <2>1, <2>2, PushedNotNil DEF QInv, RInv, WritingHead, Note
  <2>3. CASE ~writing
    <3>1. Head(notes).old \in SpecT
      BY <2>1, PushedAssumption DEF Note
    <3>2. nodeSLO = MergeNodeSLOSpec(Head(notes).old, Head(notes).old)
      BY <2>3 DEF QInv, HeadApplied
    <3>3. QED
      BY <3>1, <3>2, MergeNodeSLOSpecType, NilAssumption
  <2>4. QED
    BY <2>2, <2>3
<1>2. QED
  BY <1>1, QInvHolds, PTL

=============================================================================
