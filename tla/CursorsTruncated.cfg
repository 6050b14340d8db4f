SPECIFICATION Spec
CONSTANTS
    i1 = i1
    None = None
    Iterators <- OneIterator
    RowCount = 3
    Platforms = {"kotlin"}
    Faults = {"step"}
    EarlyClose = FALSE
    MaxResults = 5
INVARIANTS
    CompleteOrFailed
CHECK_DEADLOCK FALSE
