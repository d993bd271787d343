\* One scanner over two series of a source with a horizon and a rate limit.
SPECIFICATION FairSpec
CONSTANTS
    Nobody = nobody
    a = a
    b = b
    s1 = s1
    s2 = s2
    binance = binance
    kraken = kraken
    Duration = 2
    Grace = 1
    Values = {"first"}
    Scanners = {a}
    Sources = {kraken}
    Series = {s1, s2}
    SourceOf <- AllKraken
    Targets <- TwoTargets
    Providers = {kraken}
    RecentLimit = 2
    MaxPerRequest <- OnePerRequest
    HistoryCandles <- TwoCandleHorizon
    CountsOpenCandle = {}
    MaxCatchup = 1
    CooldownTicks <- ThenTwoTicks
    FailureCodes = {"RATE_LIMITED", "TIMEOUT"}
    Omissions = TRUE
    StartTime = 3
    MaxTime = 9
    MaxFaults = 2
INVARIANTS
    QuietWhileCoolingDown
PROPERTIES
    EventuallyUpToDate
