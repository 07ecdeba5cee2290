SPECIFICATION MCSpec
CONSTANTS
  g = g  a1 = a1  a2 = a2  v1 = v1  v2 = v2  k = k  c = c  boot = boot
  EPOCH_MAX = 99
  MAX_ENTRIES = 512
  Accounts = {g, a1, a2}
  InitialReserve = 10
  Voters = {v1, v2}
  Commission <- MCCommission
  ValidatorRewards = 20
  Scenarios <- MCScenarios
  v0 = v0
INVARIANTS
    StakeBacked
    CacheExact
    RecorderSound
    ServedExact
PROPERTIES
    LamportsKept
    NoMagicActivation
    FrozenBlockFixed
    ServedMonotone
    BankFinishes
    ServicesCatchUp
CHECK_DEADLOCK FALSE
