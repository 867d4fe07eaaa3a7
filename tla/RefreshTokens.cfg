SPECIFICATION Spec
CONSTANTS
    Call = {c1, c2, c3, c4}
    Old = old
    None = None
    MaxActive = 2
    MaxFaults = 1
SYMMETRY Interchangeable
CHECK_DEADLOCK FALSE
INVARIANTS TypeOK OneLiveToken ExchangedOnce LoserEndsFamily FamiliesIndexed AcceptedAccessIsFresh
PROPERTIES NoStaleExchange ContractSpec
