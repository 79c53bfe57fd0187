\* Overlapping handlers, two codes, data with and without a path, one failure,
\* one client that uses the shop's id.
SPECIFICATION MSpec
CONSTANTS
    t1 = t1
    t2 = t2
    k1 = k1
    k2 = k2
    NoClient = NoClient
    Merchant = "shop"
    MaxId = 2
    Task = {t1, t2}
    Key = {k1, k2}
    Client = {"ann", "shop"}
    Data <- MCPathData
    MaxFrames = 3
    MaxFaults = 1
SYMMETRY MCSymmetry
INVARIANTS
    MTypeOK
    PeersScannedTheCode
    RepliesWithinTheCode
CHECK_DEADLOCK FALSE
