CONSTANTS
    F = 1
    K = 2
    CheckpointStep = 10
    MaxSeq = 1
    MaxView = 2
    NoReq = NoReq
    Req <- TwoRequests
    Byzantine = {}
    Alive = {0, 2, 3}
    ClientSends <- BAToAll
    InitialBalance = 10
SPECIFICATION InDarkSpec
INVARIANTS
    ExecutionAgreement
