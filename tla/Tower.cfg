CONSTANTS
    MAX_LOCKOUT_HISTORY = 2
    SLOT_HISTORY_ENTRIES = 8
    MaxSlot = 5
    Parents <- AnyTree
    LedgerLoss = FALSE
SPECIFICATION MCSpec
CHECK_DEADLOCK FALSE
INVARIANTS
    TowerIsChain
    LastVoteHasBank
    RootsSafe
    RestoreSucceeds
PROPERTIES
    LockoutsKept
    KeptDespiteLoss
