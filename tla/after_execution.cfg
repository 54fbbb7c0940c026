CONSTANTS
    F = 1
    K = 2
    CheckpointStep = 10
    MaxSeq = 0
    MaxView = 2
    NoReq = NoReq
    Req <- OneRequest
    Byzantine = {}
    Alive = {0, 1, 2, 3}
    ClientSends <- Nobody
    InitialBalance = 10
SPECIFICATION PreparingSpec
INVARIANTS
    ExecutedKnownToNewView
CHECK_DEADLOCK FALSE
