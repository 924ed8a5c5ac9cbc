\* One poll, no failures, no restarts: only the rewards event is in the way.
CONSTANTS
    Wallets = {u}
    Amounts = {a}
    PlainKinds = {"rewards", "other"}
    MaxEvents = 2
    MaxLedger = 2
    MaxUnstaked = 0
    MaxRows = 0
    Polls = {p1}
    PageLimit = 100
    SavedAtStart = 1
    MaxFaults = 0
    MaxCrashes = 0
SPECIFICATION Spec
PROPERTY RetriesGetPast
