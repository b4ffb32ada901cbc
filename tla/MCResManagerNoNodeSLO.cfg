CONSTANTS
    l1 = l1
    l2 = l2
    v1 = v1
    v2 = v2
    Nil = Nil
    Leaf <- MCLeaf
    Values <- MCValues
    Default <- MCDefault
    ResctrlLeaf = l1
    Disabled = v2
    RdtResctrlEnabled = FALSE
    PushedSpecs <- MCPushedSpecs
    Readers = {}
    MaxWrites = 3
    MaxResyncs = 1
    PolicyOrder <- MCPolicyOrder
    WithInit = {"CgroupReconcile", "CPUBurst", "RdtResctrl"}
    GateOn = {"BECgroupReconcile", "CgroupReconcile", "BECPUSuppress", "CPUBurst", "BEMemoryEvict"}
    ThresholdPolicies = {"BECPUSuppress", "BEMemoryEvict"}
    EnableLeaf = l1
    EnableTrue = v2

SPECIFICATION RMSpec

CHECK_DEADLOCK FALSE

PROPERTY BootTerminates
