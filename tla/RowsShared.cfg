SPECIFICATION Spec
CONSTANTS
    c1 = c1
    c2 = c2
    t = t
    None = None
    Null = Null
    Clients <- TwoClients
    Txts = {t}
    Dbls = {"pi"}
    DefaultDbl = "pi"
    Batches <- TwoBatches
    MaxId = 2
    MaxBirths = 3
INVARIANTS
    TypeOK
    IdentityKept
    NoPhantom
PROPERTIES
    ReturnedAsStored
