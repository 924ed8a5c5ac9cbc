SPECIFICATION MCSpec
CONSTANTS
    v1 = v1
    v2 = v2
    v3 = v3
    v4 = v4
    c1 = c1
    c2 = c2
    Admin = admin
    Validators = {v1, v2, v3, v4}
    Checks = {c1, c2}
    Tasks = {}
    Callers <- MCCallers
    Payouts = {}
    OwedAtStart <- MCOwed
    StakedAtStart = 0
    AdminSlashes = {}
    AdminCommands = {}
    MaxAsked = 2
    MaxFaults = 0
PROPERTY RecoveryUnpauses
CHECK_DEADLOCK TRUE
