\* The README on the relay, against a reconnection.
SPECIFICATION Spec
CONSTANTS
    Server = {"relay"}
    InitialInterval = 1
    MaxInterval = 1
    MaxSockets = 3
    MaxBreaks = 1
    MaxSpv = 0
INVARIANTS
    ConnectedIsPresented
CHECK_DEADLOCK FALSE
