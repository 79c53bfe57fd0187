\* Two overlapping requests, one failing file operation or restart.
SPECIFICATION Spec
CONSTANTS
    t1 = t1
    t2 = t2
    k1 = k1
    k2 = k2
    k3 = k3
    Key = {k1, k2, k3}
    NoClient = NoClient
    MaxId = 2
    Task = {t1, t2}
    Client = {"ann"}
    MaxFaults = 1
SYMMETRY MCSymmetry
INVARIANTS
    TypeOK
    IdsIncreasing
    StoredAsCreated
CHECK_DEADLOCK FALSE
