CONSTANTS
    a = a
    b = b
    Voters <- TwoVoters
    SLOTS_PER_EPOCH = 3
    EpochStake <- Swapped
    MaxSlot = 5
SPECIFICATION Spec
CHECK_DEADLOCK FALSE
INVARIANTS
    StakesExact
    BestSlotIsHeaviest
