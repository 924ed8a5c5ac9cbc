\* One poll beside the processor; a row from the route, the rest from the listener.
CONSTANTS
    Wallets = {operator}
    Amounts = {a}
    PlainKinds = {}
    MaxEvents = 3
    MaxLedger = 2
    MaxUnstaked = 1
    MaxRows = 2
    Polls = {p1}
    PageLimit = 1
    SavedAtStart = 0
    MaxFaults = 1
    MaxCrashes = 1
    Operator = operator
    BatchLimit = 2
SPECIFICATION PipelineSpec
INVARIANTS PipelineTypeOK StrandsOneRowAtMost
PROPERTY ProcessingEnds
