CONSTANTS
    MaxSeq = 1
    Request <- Transfers
    InitialBalance = 10
    CheckpointStep = 2
SPECIFICATION Spec
INVARIANTS
    ExecutedWithoutGap
    NothingLeftBehind
    AloneIsAtomic
CHECK_DEADLOCK FALSE
