CONSTANTS
    Pods = {p1, p2}
    Callers = {memoryEvictor}
    Nil = Nil
    MaxCalls = 2

SPECIFICATION Spec


PROPERTY NotFoundNotCached
