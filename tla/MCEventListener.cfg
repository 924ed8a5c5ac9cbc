\* A first boot, two polls that overlap, pages of two events, restarts and failing calls.
CONSTANTS
    Wallets = {u}
    Amounts = {a}
    PlainKinds = {"rewards", "other"}
    MaxEvents = 2
    MaxLedger = 3
    MaxUnstaked = 0
    MaxRows = 1
    Polls = {p1, p2}
    PageLimit = 2
    SavedAtStart = 0
    MaxFaults = 1
    MaxCrashes = 1
SPECIFICATION Spec
INVARIANT NothingLeftBehind
PROPERTY DelayedIsMirrored
