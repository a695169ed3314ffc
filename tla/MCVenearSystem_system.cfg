SPECIFICATION Spec
CONSTANTS
    Amounts = {2}
    Deposits = {3}
    min_lockup_deposit = 1
    unlock_duration = 1
    Rewards = {}
    NonceGap = 10
    MaxOwnerCalls = 5
    MaxPoolCalls = 1
    MaxTime = 4
    ann = ann
    bob = bob
    cy = cy
    Accounts <- People
    Registered <- Earlier
    Owner <- ann
    LocalDeposits = {2, 3}
    MILLI = 2
    TICKS = 2
    Rate = 1
    MAX_BPS = 4
    DelegationChoices <- Choices
    MaxDelegations = {1, 2}
    MaxVersion = 2
    MaxCalls = 2
    MaxDeploys = 2
    CallWeight = 2
    MaxTotal = 5
CHECK_DEADLOCK FALSE
INVARIANTS
    SupplyIsBalances
    DelegatedIsContributions
    ViewAgrees
