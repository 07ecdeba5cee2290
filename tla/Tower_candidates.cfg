CONSTANTS
    MAX_LOCKOUT_HISTORY = 2
    SLOT_HISTORY_ENTRIES = 8
    MaxSlot = 4
    Parents <- AnyTree
    LedgerLoss = TRUE
SPECIFICATION Spec
CHECK_DEADLOCK FALSE
INVARIANT CandidatesAreNotAncestors
