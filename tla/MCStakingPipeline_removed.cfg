SPECIFICATION Spec
CONSTANTS
    u1 = u1
    u2 = u2
    Users <- OneUser
    LockAmounts = {1}
    Durations = {0}
    SettleEpochs = 1
    PoolEpochs = 1
    PoolDust = 0
    Rewards = {0}
    AdminActs = {"remove_validator"}
    MaxEpoch = 2
    MaxLocks = 1
    MaxCalls = 1
INVARIANT RemovedRowIsEmpty
