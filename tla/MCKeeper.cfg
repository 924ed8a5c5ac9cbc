\* One failure or restart.
CONSTANTS
    s1 = s1
    s2 = s2
    r1 = r1
    r2 = r2
    Syncs = {s1, s2}
    Callers <- MCCallers
    MaxFaults = 1
    Refreshers = {r1, r2}
    RatePrecision = 10
    StakedAtStart = 3
    SupplyAtStart = 2
    Deposits = {2}
    MaxSupply = 3
    FeeBps = 5000
    BpsDenominator = 10000
    RecycleThreshold = 2
    TreasuryAtStart = 2
    MaxFees = 1
    MaxTouches = 1
    Mixes <- MCMixes
SPECIFICATION FairSpec
INVARIANTS NothingBookedTwice TypeOK
PROPERTIES RatesCatchUp
CHECK_DEADLOCK FALSE
