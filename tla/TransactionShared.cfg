SPECIFICATION FairSpec
CONSTANTS
    t1 = t1
    t2 = t2
    w1 = w1
    w2 = w2
    w3 = w3
    None = None
    Threads <- TwoThreads
    Writes <- ThreeWrites
    MaxDepth = 2
    FullMutex = TRUE
    RequireMutex = TRUE
    Faults = {"statement", "rolledBack"}
    Interruptible = FALSE
    Modes = {"deferred", "immediate"}
    Swallow = {"statement", "nested", "closed", "app"}
INVARIANTS
    TypeOK
    PromisedDurable
    RefusedGone
    NoOrphanTransaction
    Inductive
PROPERTIES
    OriginalErrorSurvives
    UnwindingEnds
    AtomicBlocksSpec
