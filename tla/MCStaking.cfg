\* One cooldown.
CONSTANTS
    u1 = u1
    op = op
    stk = stk
    Accounts <- MCAccounts
    StakingContract = stk
    TokenAdmins = {op, u1}
    Minters = {stk, op}
    TokenAmounts = {0, 1, 2}
    ApproveAmounts = {0, 1}
    Admins = {op, u1}
    UserXlm = 2
    OpXlm = 1
    InitialXlm <- MCInitialXlm
    XlmAmounts = {0, 1, 2}
    RewardAmounts = {0, 10}
    FeeAmounts = {0, 1}
    SlashAmounts = {0, 2}
    LiquidityAmounts = {0, 1}
    Cooldowns = {1}
    MaxLedger = 1
    MaxRewarded = 10
    MaxSlashed = 2
    MaxTickets = 2
    MaxDonated = 1
    MaxForeignSupply = 2
    MaxScan = 2
    MinStake = 1
    MaxStake = 2
    RATE_PRECISION = 10
SPECIFICATION MCSpec
INVARIANTS TypeOK BooksBalance DueTicketIsClaimable QuotesHold SupplyIsSumOfBalances
PROPERTIES RateFallsOnlyBySlashOrClaim TicketsKeptAsPromised SuppliesMoveTogether
