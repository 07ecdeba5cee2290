SPECIFICATION Spec
CONSTANTS
    t1 = t1
    t2 = t2
    t3 = t3
    a = a
    b = b
    c = c
    Txs = {t1, t2, t3}
    Accounts = {a, b, c}
    Threads = {th1, th2}
    Blockhash <- MCBlockhash
    Writes <- MCWrites
    Reads <- MCReads
    Payer <- MCPayer
    MAX_PROCESSING_AGE = 1
    MAX_RECENT_BLOCKHASHES = 2
    MAX_CACHE_ENTRIES = 1
    AccountsHashInterval = 2
    SnapshotInterval = 2
    MaxSlot = 3
    MaxBatch = 1
    MayFail = {t3}
    LeaderSlots = {2}
    ForeignTxs = {t1, t2}
    NoSlot = NoSlot
SYMMETRY ThreadSymmetry
INVARIANTS
    NoLostUpdate
    NoPanic
    StatusExact
    ReplayAgrees
PROPERTIES
    ProcessedOnce
CHECK_DEADLOCK FALSE
