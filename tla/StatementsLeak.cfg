SPECIFICATION Spec
CONSTANTS
    s1 = s1
    s2 = s2
    Handles <- TwoStatements
    ParameterCount = 2
    MaxGiven = 3
    HelperArrays = {1, 2}
    RefusedIn = {"helper"}
INVARIANTS
    NoLeak
CHECK_DEADLOCK FALSE
