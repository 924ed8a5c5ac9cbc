SPECIFICATION MCSpec
CONSTANTS
    v1 = v1
    v2 = v2
    v3 = v3
    t1 = t1
    t2 = t2
    w1 = w1
    Admin = admin
    Validators = {v1, v2, v3}
    Checks = {}
    Tasks = {t1, t2}
    Callers <- MCCallers
    Payouts = {w1}
    OwedAtStart <- MCOwed
    StakedAtStart = 9
    AdminSlashes = {4}
    AdminCommands = {"pause"}
    Findings <- MCFindings
    BufferPercent = 5
    SafetyTenths = 25
    LookbackDays = 7
    MinDelta = 1
    MaxAsked = 1
    MaxFetches = 1
    MaxFaults = 1
INVARIANTS StakeIsAccounted RowsFollowSlashes PlansStayWithin
SYMMETRY Alike
CHECK_DEADLOCK FALSE
