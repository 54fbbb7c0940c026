CONSTANTS
    F = 1
    K = 3
    CheckpointStep = 10
    MaxSeq = 2
    MaxView = 2
    NoReq = NoReq
    Req <- ThreeRequests
    Byzantine = {}
    Alive = {0, 1, 2, 3}
    ClientSends <- Nobody
    InitialBalance = 10
SPECIFICATION UnheldSpec
INVARIANTS
    CommitAgreed
CHECK_DEADLOCK FALSE
