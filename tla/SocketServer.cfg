\* Two sockets contend for two ids while frames queue, sockets break and the
\* process restarts: safety, refinement and liveness.
SPECIFICATION FairSpec
CONSTANTS
    c1 = c1
    c2 = c2
    Conn = {c1, c2}
    CallId = {"app", "other"}
    NoConn = NoConn
    MaxSent = 2
INVARIANTS
    TypeOK
    NoDanglingRegistration
    ForwardedInOrder
PROPERTIES
    OnlyHolderCloseEvicts
    ImplementsRelay
    StaleRegistrationPurged
CHECK_DEADLOCK FALSE
