SPECIFICATION Spec
CONSTANTS
    NumEvents = 2
    Proc = {p1, p2}
    Token = {t1, t2}
    NoToken = NoToken
    BatchSize = 2
    MaxAttempts = 1
    LockTtl = 4
    HeartbeatInterval = 2
    RetryDelay <- MCRetryDelay
    HasTimeout = FALSE
    Timely = TRUE
    MaxLag = 1
    MaxFaults = 0
SYMMETRY MCSymmetry
INVARIANT NoConcurrentHandlers
