SPECIFICATION MCSpec
CONSTANTS
    MAX_LOCKOUT_HISTORY = 2
    k1 = k1
    k2 = k2
    Pubkeys = {k1, k2}
    NoKey = NoKey
    Commissions = {0}
    Timestamps = {}
    SLOTS_PER_EPOCH = 2
    LEADER_SCHEDULE_SLOT_OFFSET = 1
    MAX_EPOCH_CREDITS_HISTORY = 2
    MAX_ITEMS = 2
    MAX_SLOT_HASHES = 2
    RENT_EXEMPT = 1
    MaxSlot = 5
    MaxVoteSlots = 1
    MaxLamports = 1
SYMMETRY KeySymmetry
INVARIANTS
    TypeOK
    StackInv
    RecordedOnFork
    EpochRecordsChained
    VoterKnown
    LongRunsSound
    WalkAgrees
PROPERTIES
    AccountMonotone
    VoterFixed
CHECK_DEADLOCK FALSE
