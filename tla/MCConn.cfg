CONSTANTS
    Owner = owner
    Runners = {r1}
    Canceler = owner
    DataKinds <- MCKinds
    Filters <- MCFilters
    TxBufLen = 1
    MaxCalls = 3
    CloseFails = TRUE
    IsParent = FALSE
SPECIFICATION FairSpec
INVARIANTS NoSendOnClosed RunsAccounted FinalFlushes KindsInOrder ConnInv
PROPERTIES EndsAfterCancel
