SPECIFICATION Spec
CONSTANTS
    MAX_LOCKOUT_HISTORY = 3
    Pubkeys = {k1}
    NoKey = NoKey
    Commissions = {0}
    Timestamps = {}
    SLOTS_PER_EPOCH = 1
    LEADER_SCHEDULE_SLOT_OFFSET = 1
    MAX_EPOCH_CREDITS_HISTORY = 2
    MAX_ITEMS = 2
    MAX_SLOT_HASHES = 4
    RENT_EXEMPT = 1
    MaxSlot = 7
    MaxVoteSlots = 1
    MaxLamports = 1
PROPERTY
    ExpiredVotesPopped
CHECK_DEADLOCK FALSE
