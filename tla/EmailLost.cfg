SPECIFICATION Spec
CONSTANTS
    Slot = {s1, s2}
    Token = {t1, t2, t3}
    None = None
    Attempts = 2
    MaxStalls = 1
    MaxEnqueues = 1
    MaxFaults = 1
INVARIANT CompletedJobSent
