CONSTANTS
    l1 = l1
    l2 = l2
    v1 = v1
    v2 = v2
    Nil = Nil
    Leaf <- MCLeaf
    Values <- MCValues
    Default <- MCDefault
    ResctrlLeaf = l1
    Disabled = v2
    RdtResctrlEnabled = FALSE
    PushedSpecs <- MCPushedSpecs
    Readers = {r1, r2}
    MaxWrites = 4
    MaxResyncs = 1

SPECIFICATION Spec

INVARIANT NoUpdateBeforeCreate
INVARIANT SnapshotMerged

PROPERTY StoreConverges
