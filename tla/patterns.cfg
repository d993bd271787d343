CONSTANTS
    Duration = 1
    Grace = 0
    Schedule = "CONTINUOUS_24_7"
    Week = 7
    WeekOpen = 5
    Authorized = TRUE
    K = 2
    TrendHistory = 12
    WindowSwings = 4
    Significance <- Tenth
    ReversalParams <- SmallReversal
    ContinuationParams <- SmallContinuation
    DiamondParams <- SmallDiamond
    Receipts = TRUE
    PriceTick = 2
    SingleParams <- DefaultSingle
    PairParams <- DefaultPair
    TripleParams <- DefaultTriple
    Market = "CRYPTO"
    LocationDistance <- Quarter
    Openings <- AllSeries
    Further = 3
    MaxMissing = 1
SPECIFICATION CandleSpec
INVARIANTS
    OnlyTwinsEndAReplay
    OperableWasReceived
    OperableWasOnRecord
    OperabilityIsSettled
PROPERTIES
    SupersededMeansOtherAnchors
    FiguresAreNeverRewritten
    ReadingsAreNotRevised
    CandleClaimsAreSettled
    TrendNeverFlips
CHECK_DEADLOCK FALSE
