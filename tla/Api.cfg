SPECIFICATION Spec
CONSTANTS
    Deployment <- MCDeployment
    Req = {r1, r2}
    State = {s1, s2}
    MaxSent = 4
    MaxFaults = 1
SYMMETRY Interchangeable
CHECK_DEADLOCK FALSE
INVARIANTS ResponsesDocumented WindowHolds StateSpentOnce LeasesLeaveRoom
