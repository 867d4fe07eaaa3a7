SPECIFICATION FairSpec
CONSTANTS
    Leader = {p1, p2}
    None = None
    Orphan = Orphan
    LockTtl = 4
    MaxLag = 1
    Attempts = 2
    MaxFaults = 2
INVARIANTS TypeOK HandlersExclude
PROPERTIES OnlyHolderLetsGo OutboxKeepsRunning
