\* Two proposals and two rows, one repetition of each request.
CONSTANTS
    ann = ann
    stk = stk
    k = k
    j = j
    v1 = v1
    v2 = v2
    l1 = l1
    l2 = l2
    Lists = {l1, l2}
    Accounts = {ann, stk}
    StakingContract = stk
    TokenAdmins = {stk}
    Minters = {stk}
    TokenAmounts = {1}
    ApproveAmounts = {}
    MinProposalBalance = 1
    VotingPeriodLedgers = 0
    QuorumBps = 1000
    Keys = {k, j}
    Values = {v1, v2}
    NoValue = NoValue
    Supplies = {}
    MaxLedger = 1
    MaxProposals = 2
    MaxSupply = 1
    Wallets = {ann}
    Requests <- MCRequests
    MaxRetries = 1
    Mapped = {k}
    Numeric = {v1, v2}
    MaxListed = 2
    MaxRows = 2
SPECIFICATION MirrorSpec
SYMMETRY ListSymmetry
INVARIANTS ActsOnApproval RowsFollowProposals ConfirmedIsOnChain
CHECK_DEADLOCK FALSE
