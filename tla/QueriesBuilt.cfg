SPECIFICATION Spec
CONSTANTS
    Null = Null
    None = None
    Tables <- Family
    Atoms <- About
    MaxSize = 3
    KeyColumns <- TwoColumns
    KeyRows <- Grid
    MaxKeys = 3
INVARIANTS
    TypeOK
    ReturnsWhatIsAsked
    KeysReachTheirRows
CHECK_DEADLOCK FALSE
