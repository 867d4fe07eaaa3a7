SPECIFICATION Spec
CONSTANTS
    NumEvents = 2
    Proc = {p1, p2, p3}
    Token = {t1, t2, t3}
    NoToken = NoToken
    BatchSize = 1
    MaxAttempts = 2
    LockTtl = 4
    HeartbeatInterval = 2
    RetryDelay <- MCRetryDelay
    HasTimeout = TRUE
    Timely = TRUE
    MaxLag = 1
    MaxFaults = 0
SYMMETRY MCSymmetry
INVARIANT NoConcurrentHandlers
