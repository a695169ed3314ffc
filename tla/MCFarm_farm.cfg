SPECIFICATION Spec
CONSTANTS
    u1 = u1
    u2 = u2
    Users <- TwoUsers
    min_storage_deposit = 1
    per_purchase_storage_stake = 1
    per_farm_position_storage_stake = 1
    min_lock_amount = 4
    RewardUnit = 3
    AccDenom = 4
    Rates = {1, 2}
    MaxAmounts = {6}
    Deposits = {1}
    InitialDeposit = 2
    MaxUserCalls = 3
    MaxAdminCalls = 3
    MaxTotal = 5
    StakeAmounts = {4}
    UnstakeAmounts = {0, 2}
    StakeChanges <- RewardsOrDust
SYMMETRY Symmetry
INVARIANTS
    FarmSharesAgree
    MoneyIsAccounted
    CatalogCoherent
    RecordsPaidFor
PROPERTIES
    EarnedByTime
