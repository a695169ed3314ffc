SPECIFICATION Spec
CONSTANTS
    a = a
    b = b
    NsPerDay = 1
    CetOffset = 0
    Flows = {"Classic"}
    ActionLists = {2}
    Voters <- OneVoter
    Weight <- OneVersion
    Options = {"For"}
    Supply <- AllVote
    proposal_expiration_ns <- NoExpiration
    voting_duration_ns <- OneDay
    timelock_duration_ns = 1
    sandbox_duration_ns = 1
    quorum_threshold_bps = 0
    quorum_floor = 0
    sandbox_threshold_bps = 0
    MajorityBps <- Majorities
    bond_amount = 1
    MaxActives <- OneSlot
    Scope = {}
    StartTime = 1
    MaxTime = 4
    LastApproval = 2
    MaxProposals = 1
    MaxFetches = 1
INVARIANTS
    SucceededMeansAll
