CONSTANTS
    F = 1
    K = 2
    CheckpointStep = 2
    MaxSeq = 2
    MaxView = 1
    NoReq = NoReq
    Req <- ThreeRequests
    Byzantine = {}
    Alive = {0, 1, 2, 3}
    ClientSends <- Nobody
    InitialBalance = 10
SPECIFICATION TruncationSpec
INVARIANTS
    TypeOK
    StableIsBacked
    StableAgreement
    CrashHasCause
CHECK_DEADLOCK FALSE
