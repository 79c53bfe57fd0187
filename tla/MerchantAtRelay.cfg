\* Two reconnections over an outage in which the relay may restart.
SPECIFICATION FairSpec
CONSTANTS
    InitialInterval = 1
    MaxInterval = 4
    MaxSockets = 3
    MaxFlaps = 3
    MaxDestroyed = 1
INVARIANTS
    CurrentIsRegistered
PROPERTIES
    ReachableAgain
\* The process may stop for good with every socket used.
CHECK_DEADLOCK FALSE
