SPECIFICATION FairSpec
CONSTANTS
    u1 = u1
    u2 = u2
    Users <- OneUser
    LockAmounts = {1, 3}
    Durations = {1}
    SettleEpochs = 2
    PoolEpochs = 2
    PoolDust = 0
    Rewards = {0, 1}
    AdminActs = {}
    MaxEpoch = 5
    MaxLocks = 2
    MaxCalls = 1
INVARIANTS
    NoHiddenDeficit
PROPERTIES
    PriceNeverDrops
    UnbondingRunsOut
    ChainEnds
