CONSTANT MaxContainers = 3

SPECIFICATION Spec

INVARIANT TypeOK
INVARIANT HandlerFailureIsolated
