SPECIFICATION FairReadSpec
CONSTANTS
    c = c
    s1 = s1
    i1 = i1
    i2 = i2
    None = None
    Handles <- TwoStatements
    Opened = c
    ParameterCount = 2
    MaxGiven = 3
    HelperArrays = {0, 1}
    RefusedIn = {"client"}
    Iterators <- TwoIterators
    RowCount = 2
    Platforms = {"swift", "kotlin"}
    Faults = {"step", "creator"}
    EarlyClose = TRUE
    MaxResults = 4
INVARIANTS
    ReadTypeOK
    NoLeak
    NeverAfterFinalize
    NoStaleBindings
    ConnectionOutlives
    ReaderReleased
    EndReleases
PROPERTIES
    ContextCloses
    StreamSpec
    LoopEnds
    NoRowAfterClose
CHECK_DEADLOCK FALSE
