SPECIFICATION Spec
CONSTANTS
    Users = {"u"}
    Tiers <- TwoTiers
    LOCK_FACTOR_DENOM = 10
    min_lock_amount = 2
    Amounts = {4, 6}
    Increases = {2}
    StakeChanges <- RewardsOrDust
    StartDay = 19722
    Jumps = {20}
    Horizon = 19852
    MaxCalls = 3
    MaxAdminCalls = 2
    MaxTicks = 3
    MaxFaults = 1
    MaxEvents = 6
INVARIANTS
    WindowFollowsCalendar
    SubscriptionIndexes
    RunningIsBacked
PROPERTIES
    ViewIsStable
