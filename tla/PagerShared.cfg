SPECIFICATION Spec
CONSTANTS
    Conns = {c1, c2}
    PageOne = p1
    Pages = {p1, p2}
    Keys = {k1, k2}
    FirstKey = k1
    NoKey = NoKey
    NoPage = NoPage
    MaxTxns = 2
    MaxRekeys = 1
    MaxTroubles = 2
SYMMETRY Symmetry
INVARIANTS TypeOK LockTable ReadsCommitted Recoverable OneKeyUnlessMisled
PROPERTY ImplementsAtomicFile
CHECK_DEADLOCK FALSE
