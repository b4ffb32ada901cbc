CONSTANT MaxContainers = 3

SPECIFICATION Spec

INVARIANT EveryRunningContainerStopped
