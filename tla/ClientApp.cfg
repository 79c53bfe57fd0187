\* One server scanned repeatedly; one doubling passes the limit.
SPECIFICATION FairSpec
CONSTANTS
    Server = {"relay"}
    InitialInterval = 1
    MaxInterval = 1
    MaxSockets = 4
    MaxBreaks = 3
    MaxSpv = 1
INVARIANTS
    TypeOK
    NeverStranded
    ServedOrConnecting
PROPERTIES
    ReconnectsOrEnds
CHECK_DEADLOCK FALSE
