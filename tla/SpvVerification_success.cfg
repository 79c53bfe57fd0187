\* What the README says of the success message, against promises nobody awaits.
SPECIFICATION Spec
CONSTANTS
    ChunkSize = 3
    MaxBytes = 4
    TxId <- MCTxId
    Session <- MCSession
    Chain <- MCChain
    applicationWebSocketCallId <- MCOwnCallId
INVARIANTS
    SuccessMeansSpv
CHECK_DEADLOCK FALSE
