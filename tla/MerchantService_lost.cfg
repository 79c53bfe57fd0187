\* The README on decrypting the data of a client that was acknowledged, against overlapping updates.
SPECIFICATION MSpec
CONSTANTS
    t1 = t1
    t2 = t2
    k1 = k1
    k2 = k2
    NoClient = NoClient
    Merchant = "shop"
    MaxId = 2
    Task = {t1, t2}
    Key = {k1, k2}
    Client = {"ann", "bob"}
    Data <- MCGoodData
    MaxFrames = 3
    MaxFaults = 0
INVARIANTS
    AcknowledgedIsFound
CHECK_DEADLOCK FALSE
