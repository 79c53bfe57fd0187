\* The README on the encryption of the answer, against the two labels.
SPECIFICATION Spec
CONSTANTS
    Server = {"relay"}
    InitialInterval = 1
    MaxInterval = 1
    MaxSockets = 2
    MaxBreaks = 0
    MaxSpv = 1
PROPERTIES
    RepliesAreRead
CHECK_DEADLOCK FALSE
