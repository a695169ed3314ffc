SPECIFICATION Spec
CONSTANTS
    a = a
    b = b
    NsPerDay = 1
    CetOffset = 0
    Flows = {"Classic", "FastTrack"}
    ActionLists = {1}
    Voters <- TwoVoters
    Weight <- TwoVersions
    Options = {"For", "Against"}
    Supply <- OneIdle
    proposal_expiration_ns <- Expiration
    voting_duration_ns <- OneDay
    timelock_duration_ns = 1
    sandbox_duration_ns = 1
    quorum_threshold_bps = 5000
    quorum_floor = 1
    sandbox_threshold_bps = 6000
    MajorityBps <- Majorities
    bond_amount = 1
    MaxActives <- OneSlot
    Scope = {"fetch_fails", "pause"}
    StartTime = 1
    MaxTime = 5
    LastApproval = 2
    MaxProposals = 1
    MaxFetches = 2
INVARIANTS
    TallyIsVotes
    OutcomeMatchesTally
    BondOnce
PROPERTIES
    TerminalStays
