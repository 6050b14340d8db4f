SPECIFICATION Spec
CONSTANTS
    Null = Null
    None = None
    Tables <- Family
    Atoms <- Ranges
    MaxSize = 3
    KeyColumns <- TwoColumns
    KeyRows <- Grid
    MaxKeys = 3
INVARIANTS
    ReturnsWhatIsAsked
CHECK_DEADLOCK FALSE
