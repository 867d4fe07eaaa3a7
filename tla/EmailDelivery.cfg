SPECIFICATION FairSpec
CONSTANTS
    Slot = {s1, s2}
    Token = {t1, t2, t3}
    None = None
    Attempts = 2
    MaxStalls = 1
    MaxEnqueues = 2
    MaxFaults = 2
INVARIANTS TypeOK MarkersMeanSent SentOnce
PROPERTIES MarkersStick JobEnds
