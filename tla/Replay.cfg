CONSTANTS
    MAX_ENTRIES = 4
    AddedSlots <- FewSlots
    v0 = v0
    v1 = v1
    v2 = v2
    v3 = v3
    v4 = v4
    n2 = n2
    h = h
    h2 = h2
SPECIFICATION MCSpec
CHECK_DEADLOCK FALSE
INVARIANTS
    CheckIsExact
    RootsSafe
    LedgerExact
    PropagatedExactly
    TrackersExact
    AlarmsExact
PROPERTIES
    NoSignalLost
    KeptAboveRoot
