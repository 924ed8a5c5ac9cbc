\* The deployed fee of 30 basis points; the protocol's cut at its default and at the
\* whole fee.
CONSTANTS
    ann = ann
    tom = tom
    pool = pool
    Accounts <- MCAccounts
    PoolContract = pool
    Admin = tom
    InitialXlm <- MCInitialXlm
    InitialSxlm <- MCInitialSxlm
    MaxRoot = 600
    FeeBps = 30
    PRICE_PRECISION = 100
    XlmAmounts = {2, 4}
    SxlmAmounts = {2, 3}
    LpAmounts = {1, 2}
    MinOuts = {1}
    ProtocolFees = {5, 30}
    SentXlm = {2}
    SentSxlm = {2}
    MaxShares = 6
SPECIFICATION Spec
INVARIANTS TypeOK ReservesAreHeld SharesAreBacked
PROPERTIES SwapWithinOneUnit OthersKeepTheirShare ShownFiguresHold
