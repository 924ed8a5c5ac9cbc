\* Collateral factor 70%, threshold 80%, bonus 5%, as deployed; rates 0.5, 1 and 1.5.
CONSTANTS
    bob = bob
    liz = liz
    lend = lend
    Accounts <- MCAccounts
    LendingContract = lend
    InitialXlm <- MCInitialXlm
    InitialSxlm <- MCInitialSxlm
    BPS_DENOMINATOR = 20
    RATE_PRECISION = 2
    LiquidationBonusBps = 1
    InitialFactorBps = 14
    InitialThresholdBps = 16
    XlmAmounts = {0, 1, 2, 3}
    SxlmAmounts = {0, 1, 3}
    Rates = {0, 1, 2, 3}
    Factors = {14, 18}
    Thresholds = {0, 10, 16}
    BorrowRates = {1}
    EngineFactorBps = 14
    Principals = {1, 10}
    MaxLoops = 3
SPECIFICATION Spec
INVARIANTS TypeOK TotalsAreSums ContractHoldsWhatItOwes RoutesAgreeWithContract ProjectionsHold
PROPERTIES LiquidatableOnlyByRepricing
