CONSTANTS
    a = a
    b = b
    Voters <- TwoVoters
    SLOTS_PER_EPOCH = 3
    EpochStake <- Swapped
    MaxSlot = 4
SPECIFICATION Spec
CHECK_DEADLOCK FALSE
PROPERTY MergeTakesNewerVotes
