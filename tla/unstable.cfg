CONSTANTS
    F = 1
    K = 2
    CheckpointStep = 2
    MaxSeq = 1
    MaxView = 1
    NoReq = NoReq
    Req <- TwoRequests
    Byzantine = {}
    Alive = {0, 1, 2, 3}
    ClientSends <- Nobody
    InitialBalance = 10
SPECIFICATION CertificatesSpec
INVARIANTS
    ReceivedCheckpointIsStable
CHECK_DEADLOCK FALSE
