\* An exit on each of two bars, no crash: the close of one position is recorded twice.
SPECIFICATION ManagedSpec
CONSTANTS
    Ids <- TwoExits
    MaxBar = 2
    InitialLots = 1
    MaxPartials = 2
    AbsenceGrace = 1
    MaxCrashes = 0
    NoId = NoId
INVARIANTS TradeRecordedOnce
CHECK_DEADLOCK FALSE
