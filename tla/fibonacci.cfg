CONSTANTS
    Duration = 1
    Grace = 0
    Schedule = "FOREX_WEEKLY"
    Week = 7
    WeekOpen = 6
    Authorized = TRUE
    K = 1
    RangeWindow = 3
    SearchWindow = 3
    MinImpulse <- Half
    Shapes <- Outside
    Horizon = 7
    MaxDelayed = 1
SPECIFICATION Spec
INVARIANTS
    ActiveImpulsesAreFound
    SwingsAreRunExtremes
    RecordsFollowEvidence
    GapsCloseAtSuccession
    RecordsAreUpToDate
PROPERTIES
    HistoryOnlyGrows
    StructureIsNotRepainted
CHECK_DEADLOCK FALSE
