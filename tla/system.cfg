CONSTANTS
    F = 1
    K = 2
    CheckpointStep = 10
    MaxSeq = 1
    MaxView = 1
    NoReq = NoReq
    Req <- Requests1
    Byzantine = {}
    Alive = {0, 1, 2}
    ClientSends <- Anywhere
    InitialBalance = 10
    Script <- Script1
    MaxBroadcasts = 1
    Client = {"A"}
SPECIFICATION FairSystemSpec
INVARIANTS
    AnswerIsExecution
    ExecutedOnce
    ClientTypeOK
PROPERTIES
    AllServed
    AllAnswered
CHECK_DEADLOCK FALSE
