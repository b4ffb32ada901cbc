------------------------ MODULE NodeSLOStoreAbstract ------------------------
(***************************************************************************)
(* What the shared desired-state store promises its readers (spec         *)
(* sections 3 and 4.2): it holds nothing, or the merge with the default   *)
(* config of a spec the control plane pushed, and it moves from one such  *)
(* merge to the next in a single step; a reader's copy is what the store  *)
(* held when it copied.  The merge is stated leaf by leaf: the resctrl    *)
(* enable is off while its gate is off, a pushed leaf wins, and every     *)
(* other leaf is the default.                                             *)
(***************************************************************************)
CONSTANTS Leaf, Values, Nil, Default, ResctrlLeaf, Disabled,
          RdtResctrlEnabled, PushedSpecs, Readers

VARIABLES desired, view

avars == <<desired, view>>

Blocks == {"threshold", "qos", "burst"}

\* The merged value of leaf l of block b under pushed spec s.
MergedLeaf(s, b, l) ==
    IF b = "qos" /\ l = ResctrlLeaf /\ ~RdtResctrlEnabled THEN Disabled
    ELSE IF s[b] # Nil /\ s[b][l] # Nil THEN s[b][l]
    ELSE Default[b][l]

MergedSpec(s) == [b \in Blocks |-> [l \in Leaf |-> MergedLeaf(s, b, l)]]

AInit ==
    /\ desired = Nil
    /\ view = [r \in Readers |-> Nil]

\* The store takes on the merge of pushed spec s.
Apply(s) ==
    /\ desired' = MergedSpec(s)
    /\ UNCHANGED view

\* Reader r copies the store.
Read(r) ==
    /\ view' = [view EXCEPT ![r] = desired]
    /\ UNCHANGED desired

ANext ==
    \/ \E s \in PushedSpecs : Apply(s)
    \/ \E r \in Readers : Read(r)

ASpec == AInit /\ [][ANext]_avars

=============================================================================
