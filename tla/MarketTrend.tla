---------------------------- MODULE MarketTrend -----------------------------
(***************************************************************************)
(* The structural trend of a series at an instant (domain/                 *)
(* market_trend.py), read from its last confirmed swings.  The evidence    *)
(* that goes with a state is wording and is left out.                      *)
(***************************************************************************)
EXTENDS MarketContext, MarketStructure

CONSTANTS
    TrendHistory,   \* candles that are read, and the fewest: min_history
    WindowSwings,   \* swings that are read: TrendParams.window_swings
    Significance    \* the least step, as a fraction <<num, den>> of the height

\* A threshold: a fraction strictly between 0 and 1.
IsFraction(f) == f \in (Nat \ {0}) \X (Nat \ {0}) /\ f[1] < f[2]

\* TrendParams: highs and lows are counted equally.
IsTrendParams(swings, significance) ==
    /\ swings \in Nat /\ swings >= 4 /\ swings % 2 = 0
    /\ IsFraction(significance)

ASSUME TrendAssumption ==
    /\ TrendHistory \in Nat \ {0}
    /\ IsTrendParams(WindowSwings, Significance)

TrendState ==
    {"UPTREND", "DOWNTREND", "RANGE", "TRANSITION", "INSUFFICIENT_DATA"}

-----------------------------------------------------------------------------

\* A difference of prices is a real one in a swing range of this height.
IsStep(difference, height) ==
    difference * Significance[2] > height * Significance[1]

\* The places of the swings of one kind, and whether two of them are a pair of
\* neighbours there.
SideOfSwings(swings, kind) == {n \in DOMAIN swings : swings[n].kind = kind}
AreNeighbours(side, m, n) == m < n /\ \A x \in side : x <= m \/ x >= n

\* _steps: how one side moves from swing to swing.
Steps(swings, kind, height) ==
    LET side == SideOfSwings(swings, kind)
        rises(sign) == \A m, n \in side :
                          AreNeighbours(side, m, n) =>
                             IsStep(sign * (swings[n].price - swings[m].price), height)
        prices == {swings[n].price : n \in side}
    IN  CASE rises(1) -> "RISING"
          [] ~rises(1) /\ rises(-1) -> "FALLING"
          [] ~rises(1) /\ ~rises(-1) /\ ~IsStep(Max(prices) - Min(prices), height) ->
                "LEVEL"
          [] OTHER -> "IRREGULAR"

BothSides(swings, step, height) ==
    \A kind \in PivotKind : Steps(swings, kind, height) = step

\* The highest high and the lowest low of some swings.
UpperLimit(swings) == Max({swings[n].price : n \in SideOfSwings(swings, "HIGH")})
LowerLimit(swings) == Min({swings[n].price : n \in SideOfSwings(swings, "LOW")})

\* _first_close_beyond: some candle of the window after "after" closes beyond
\* the price, above it or below it.
ClosesBeyond(window, after, kind, price) ==
    \E i \in DOMAIN window :
        i > after /\ Beyond(kind, window[i].close, price)

\* Some candle closed beyond the last swing of a kind.
LastIsBroken(swings, window, kind) ==
    LET last == swings[Max(SideOfSwings(swings, kind))]
    IN  ClosesBeyond(window, last.at, kind, last.price)

\* Mistake: a broken structure is read as its reversal.
ReadStructureReversing(swings, window) ==
    LET height == UpperLimit(swings) - LowerLimit(swings)
    IN  CASE height > 0 /\ BothSides(swings, "RISING", height) ->
                IF LastIsBroken(swings, window, "LOW") THEN "DOWNTREND" ELSE "UPTREND"
          [] height > 0 /\ BothSides(swings, "FALLING", height) ->
                IF LastIsBroken(swings, window, "HIGH") THEN "UPTREND" ELSE "DOWNTREND"
          [] OTHER -> "TRANSITION"

\* _read_structure: both sides must agree, and no close may have gone beyond
\* the swing a trend depends on or a limit of the range.
ReadStructure(swings, window) ==
    LET height == UpperLimit(swings) - LowerLimit(swings)
        both(step) == height > 0 /\ BothSides(swings, step, height)
        first == Head(swings).at
    IN  CASE both("RISING") /\ ~LastIsBroken(swings, window, "LOW") -> "UPTREND"
          [] both("FALLING") /\ ~LastIsBroken(swings, window, "HIGH") -> "DOWNTREND"
          [] /\ both("LEVEL")
             /\ ~ClosesBeyond(window, first, "HIGH", UpperLimit(swings))
             /\ ~ClosesBeyond(window, first, "LOW", LowerLimit(swings)) -> "RANGE"
          [] OTHER -> "TRANSITION"

\* The newest candles, TrendHistory of them, and their swings.
TrendWindow(candles) ==
    [i \in Newest(DOMAIN candles, TrendHistory) |-> candles[i]]

TrendSwings(candles) == SwingPoints(DetectPivots(TrendWindow(candles)))

\* classify_trend at t, from the candles known by then; no state is ever a
\* default.
ClassifyTrend(candles, t) ==
    LET swings == TrendSwings(candles)
        used == SubSeq(swings, Len(swings) - WindowSwings + 1, Len(swings))
    IN  IF MissingDataReasons(DOMAIN candles, t, TrendHistory) # {}
        THEN "INSUFFICIENT_DATA"
        ELSE IF Len(swings) < WindowSwings
        THEN "INSUFFICIENT_DATA"
        ELSE ReadStructure(used, TrendWindow(candles))

=============================================================================
