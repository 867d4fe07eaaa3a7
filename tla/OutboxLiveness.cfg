SPECIFICATION FairSpec
CONSTANTS
    NumEvents = 2
    Proc = {p1, p2}
    Token = {t1, t2}
    NoToken = NoToken
    BatchSize = 2
    MaxAttempts = 2
    LockTtl = 1
    HeartbeatInterval = 1
    RetryDelay <- MCRetryDelay
    HasTimeout = FALSE
    Timely = TRUE
    MaxLag = 0
    MaxFaults = 1
PROPERTY AllSettled
