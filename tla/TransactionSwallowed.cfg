SPECIFICATION Spec
CONSTANTS
    t1 = t1
    t2 = t2
    w1 = w1
    w2 = w2
    w3 = w3
    None = None
    Threads <- OneThread
    Writes <- ThreeWrites
    MaxDepth = 2
    FullMutex = FALSE
    RequireMutex = FALSE
    Faults = {"rolledBack"}
    Interruptible = FALSE
    Modes = {"deferred"}
    Swallow = {"rolledBack"}
INVARIANTS
    RefusedGone
