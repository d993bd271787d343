\* Two scanners over one series of a source without a horizon.
SPECIFICATION Spec
CONSTANTS
    Nobody = nobody
    a = a
    b = b
    s1 = s1
    s2 = s2
    binance = binance
    kraken = kraken
    Duration = 2
    Grace = 1
    Values = {"first", "revised"}
    Scanners = {a, b}
    Sources = {kraken}
    Series = {s1}
    SourceOf <- AllKraken
    Targets <- OneTarget
    Providers = {kraken}
    RecentLimit = 2
    MaxPerRequest <- TwoPerRequest
    HistoryCandles <- NoHorizon
    CountsOpenCandle = {}
    MaxCatchup = 3
    CooldownTicks <- OneTick
    FailureCodes = {"TIMEOUT"}
    Omissions = FALSE
    StartTime = 3
    MaxTime = 10
    MaxFaults = 1
SYMMETRY ScannerSymmetry
INVARIANTS
    TypeOK
    NeverFetchedTogether
    RecordedSuccessCoversCandles
PROPERTIES
    SeriesAreLedgers
    AttemptsMoveForward
    SkippedOnlyWithCause
