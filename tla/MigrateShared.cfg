SPECIFICATION FairSpec
CONSTANTS
    m1 = m1
    m2 = m2
    None = None
    Migrators <- TwoProcesses
    N = 3
    Sizes = {1, 2, 3}
    Rerunnable = {1}
    Passive = {}
    Platforms = {"swift", "kotlin"}
    MaxLog = 4
    Faults = {"read", "migration", "setter", "rolledBack", "commit"}
INVARIANTS
    TypeOK
    VersionIsHistory
    NoneSkipped
    ReturnedIsCurrent
PROPERTIES
    RegressesOnlyByRepeating
    CallEnds
