SPECIFICATION Spec
CONSTANTS
  g = g  a1 = a1  a2 = a2  v1 = v1  v2 = v2  k = k  c = c  boot = boot
  EPOCH_MAX = 99
  MAX_ENTRIES = 512
  Accounts = {g, a1, a2}
  InitialReserve = 10
  Voters = {v1, v2}
  Commission <- MCCommission
  ValidatorRewards = 20
  Scenarios <- CooldownOnly
INVARIANTS EffectiveWithinLamports
CHECK_DEADLOCK FALSE
