\* One scanner, one series of a source whose limit counts the candle in progress,
\* no faults.
SPECIFICATION Spec
CONSTANTS
    Nobody = nobody
    a = a
    b = b
    s1 = s1
    s2 = s2
    binance = binance
    kraken = kraken
    Duration = 2
    Grace = 1
    Values = {"first"}
    Scanners = {a}
    Sources = {binance}
    Series = {s1}
    SourceOf <- AllBinance
    Targets <- OneTarget
    Providers = {binance}
    RecentLimit = 3
    MaxPerRequest <- ThreePerRequest
    HistoryCandles <- NoHorizon
    CountsOpenCandle = {binance}
    MaxCatchup = 3
    CooldownTicks <- OneTick
    FailureCodes = {"TIMEOUT"}
    Omissions = FALSE
    StartTime = 3
    MaxTime = 12
    MaxFaults = 0
PROPERTIES
    PromptAnswersLeaveNoHole
