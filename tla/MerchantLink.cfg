\* A limit that the third doubling passes, and two sockets more than that
\* takes; the ratio of 30 in the code needs five doublings.
SPECIFICATION FairSpec
CONSTANTS
    InitialInterval = 1
    MaxInterval = 6
    MaxSockets = 5
    MaxFlaps = 2
INVARIANTS
    TypeOK
    CurrentIsAnnounced
    NeverSilentlyDisconnected
PROPERTIES
    ReconnectsWhenReachable
CHECK_DEADLOCK FALSE
