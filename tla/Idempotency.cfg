SPECIFICATION FairSpec
CONSTANTS
    Req = {a, b, c}
    PlainReq = {a, b}
    PlainHash = h1
    OtherHash = h2
    Hash = {h1, h2}
    HashOf <- MCHashOf
    None = None
    MaxFaults = 1
INVARIANTS TypeOK AnswersWereExecuted ExecutedOnce NothingLeftBehind
PROPERTIES EveryCallEnds ContractSpec
