\* One session: every setting, every library, chunks of three
\* units of which an encryption takes four bytes.
SPECIFICATION Spec
CONSTANTS
    ChunkSize = 3
    MaxBytes = 4
    TxId <- MCTxId
    Session <- MCSession
    Chain <- MCChain
    applicationWebSocketCallId <- MCOwnCallId
INVARIANTS
    TypeOK
    PresentedAsSent
    TrueMeansIncluded
    SuccessSpendsWhatWasSent
    HonestDataSucceeds
    BranchProvesInclusion
    
CHECK_DEADLOCK FALSE
