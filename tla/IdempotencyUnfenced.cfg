SPECIFICATION Spec
CONSTANTS
    Req = {a, b}
    PlainReq = {a, b}
    PlainHash = h1
    OtherHash = h2
    Hash = {h1, h2}
    HashOf <- MCHashOf
    None = None
    MaxFaults = 0
INVARIANT HandlerRunsFenced
