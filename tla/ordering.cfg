CONSTANTS
    F = 1
    K = 2
    CheckpointStep = 10
    MaxSeq = 1
    MaxView = 1
    NoReq = NoReq
    Req <- TwoRequests
    Byzantine = {0}
    Alive = {0, 1, 2, 3}
    ClientSends <- ToLeader1And3
    InitialBalance = 10
SPECIFICATION Spec
INVARIANTS
    AgreementInView
    CommitCertificate
PROPERTIES
    EntriesOnlyAdvance
    ImplementsLog
CHECK_DEADLOCK FALSE
