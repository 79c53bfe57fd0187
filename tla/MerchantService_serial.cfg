\* One request or frame at a time, no failure: the file is an atomic store, ids are
\* handed out once, and no acknowledged presentation is lost.
SPECIFICATION MSpec
CONSTANTS
    t1 = t1
    t2 = t2
    k1 = k1
    k2 = k2
    NoClient = NoClient
    Merchant = "shop"
    MaxId = 2
    Task = {t1}
    Key = {k1, k2}
    Client = {"ann", "bob"}
    Data <- MCGoodData
    MaxFrames = 4
    MaxFaults = 0
INVARIANTS
    AcknowledgedIsFound
    IssuedIdsUnique
PROPERTIES
    SerialCallsAreAtomic
CHECK_DEADLOCK FALSE
