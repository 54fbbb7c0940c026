CONSTANTS
    MaxSeq = 1
    Request <- Transfers
    InitialBalance = 10
    CheckpointStep = 2
SPECIFICATION Spec
INVARIANTS
    AppliedInOrder
CHECK_DEADLOCK FALSE
