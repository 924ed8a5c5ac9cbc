\* Two proposals on one parameter, two sXLM to vote with, and a quorum of half of
\* the reference supply.
CONSTANTS
    ann = ann
    bob = bob
    stk = stk
    v1 = v1
    v2 = v2
    Accounts = {ann, bob, stk}
    StakingContract = stk
    TokenAdmins = {stk}
    Minters = {stk}
    TokenAmounts = {1}
    ApproveAmounts = {}
    MinProposalBalance = 1
    VotingPeriodLedgers = 1
    QuorumBps = 5000
    Keys = {k}
    Values = {v1, v2}
    NoValue = NoValue
    Supplies <- MCSupplies
    MaxLedger = 2
    MaxProposals = 2
    MaxSupply = 2
SPECIFICATION Spec
SYMMETRY Interchangeable
INVARIANTS OneBallotEach ExecutedStaysApproved ParamsWereDecided
