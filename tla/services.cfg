\* One identity per kind of managed command, two workers on one outbox key,
\* two terminals with two accounts, a capture of three cycles and two deaths.
\* Bounded machines come to rest.
SPECIFICATION ServicesSpec
CONSTANTS
    Ids <- OneOfEach
    MaxBar = 2
    InitialLots = 2
    MaxPartials = 2
    AbsenceGrace = 2
    MaxCrashes = 1
    NoId = NoId
    Keys = {k1}
    Workers = {w1, w2}
    MaxVersion = 2
    RetryLimit = 2
    MaxDeaths = 1
    Terminals = {t1, t2}
    Accounts = {a1, a2}
    NoTerminal = NoTerminal
    LeaseSecs = 2
    MaxTime = 6
    MaxCycles = 3
    MaxKills = 2
INVARIANTS
    ServicesTypeOK
    RecordedMeansClosed
    PartialsNotOvercounted
    PartialsNotForgotten
    SettledForAReason
    OneConsumer
    PollFreshMeansHolderPolled
    PositionsOfTheSource
    CaptureExact
    RefusedForAReason
PROPERTIES
    ExitNotStuck
    ClosedExitRecorded
    OutboxSettles
    CycleResolved
CHECK_DEADLOCK FALSE
