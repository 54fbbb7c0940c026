CONSTANTS
    F = 1
    K = 3
    CheckpointStep = 10
    MaxSeq = 2
    MaxView = 2
    NoReq = NoReq
    Req <- ThreeRequests
    Byzantine = {}
    Alive = {0, 2, 3}
    ClientSends <- ABToLeader2
    InitialBalance = 10
SPECIFICATION LeaderGoneSpec
INVARIANTS
    AssignmentInv
    ExecutedReproposed
    CrashHasCause
PROPERTIES
    EntriesOnlyAdvance
    LeaderReplaced
CHECK_DEADLOCK FALSE
