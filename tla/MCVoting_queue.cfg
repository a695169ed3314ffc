SPECIFICATION FairSpec
CONSTANTS
    a = a
    b = b
    NsPerDay = 1
    CetOffset = 0
    Flows = {"Classic"}
    ActionLists = {1}
    Voters <- OneVoter
    Weight <- OneVersion
    Options = {"For"}
    Supply <- AllVote
    proposal_expiration_ns <- NoExpiration
    voting_duration_ns <- OneDay
    timelock_duration_ns = 1
    sandbox_duration_ns = 1
    quorum_threshold_bps = 0
    quorum_floor = 0
    sandbox_threshold_bps = 0
    MajorityBps <- Majorities
    bond_amount = 1
    MaxActives <- OneOrTwoSlots
    Scope = {"set_max"}
    StartTime = 1
    MaxTime = 7
    LastApproval = 3
    MaxProposals = 3
    MaxFetches = 1
INVARIANTS
    QueueIndexes
    NoIdleSlot
    SlotSchedule
    FifoStarts
PROPERTIES
    QueuedStarts
