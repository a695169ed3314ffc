SPECIFICATION Spec
CONSTANTS
    u1 = u1
    u2 = u2
    Users <- TwoUsers
    LockAmounts = {2}
    Durations = {0}
    SettleEpochs = 1
    PoolEpochs = 1
    PoolDust = 1
    Rewards = {1}
    AdminActs = {"pause", "archive", "pause_validator", "remove_validator"}
    MaxEpoch = 4
    MaxLocks = 2
    MaxCalls = 1
SYMMETRY UserSymmetry
INVARIANTS
    TypeOK
    CacheNeverOverstates
    BusyIffInFlight
    OnePoolOpPerEpoch
    LiabilityCovered
    OwedIsTranches
    Solvent
    ShareLedger
    CallbacksFindTheirState
PROPERTIES
    ImplementsSettledCall
