CONSTANTS
    Pods = {p1, p2}
    Callers = {memoryEvictor}
    Nil = Nil
    MaxCalls = 2

SPECIFICATION Spec

INVARIANT TypeOK
INVARIANT CacheOnlyEvicted
INVARIANT BatchAttemptsAll

PROPERTY NoEvictWhileCached
