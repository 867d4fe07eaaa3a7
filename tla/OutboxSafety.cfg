SPECIFICATION Spec
CONSTANTS
    NumEvents = 2
    Proc = {p1, p2}
    Token = {t1, t2, t3}
    NoToken = NoToken
    BatchSize = 2
    MaxAttempts = 2
    LockTtl = 1
    HeartbeatInterval = 1
    RetryDelay <- MCRetryDelay
    HasTimeout = FALSE
    Timely = FALSE
    MaxLag = 1
    MaxFaults = 1
SYMMETRY MCSymmetry
INVARIANTS TypeOK OwnedSnapshotIsFresh FailedExactlyWhenExhausted ProcessedWasDelivered
PROPERTY ContractSpec
