SPECIFICATION LockupSpec
CONSTANTS
    Amounts = {1, 2}
    Deposits = {3}
    min_lockup_deposit = 1
    unlock_duration = 1
    Rewards = {1}
    NonceGap = 10
    MaxOwnerCalls = 3
    MaxPoolCalls = 3
    MaxTime = 3
CHECK_DEADLOCK FALSE
INVARIANTS
    BusyWhileCalling
    KnownDepositIsThere
PROPERTIES
    OnlyLockNearUnbacks
