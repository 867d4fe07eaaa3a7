SPECIFICATION Spec
CONSTANTS
    Call = {c1, c2, c3}
    Old = old
    None = None
    MaxActive = 2
    MaxFaults = 1
    Email = {e1, e2}
    Subject = {g1}
    Password = {p1, p2}
SYMMETRY Interchangeable
CHECK_DEADLOCK FALSE
INVARIANTS TypeOK AcceptedMeansCurrent EventsMatchUsers ResetTokenOnce SessionsIndexed RevocationReachesAll
