--------------------------- MODULE CandlePatterns ----------------------------
(***************************************************************************)
(* The candle patterns a series shows (domain/candlestick_single.py,       *)
(* candlestick_multi.py) and what is recorded of each one                  *)
(* (candlestick_pattern.py).  The detectors read every closed candle each  *)
(* time and record a pattern with one evaluation, at the close of its last *)
(* candle; nothing in the program adds another.                            *)
(*                                                                         *)
(* A candle has an index, an open, a low, a high and a close.  A bearish   *)
(* shape is its bullish one with the prices upside down.                   *)
(***************************************************************************)
EXTENDS PatternDetection

CONSTANTS
    SingleParams,   \* thresholds of the patterns of one candle
    PairParams,     \* of two
    TripleParams,   \* of three
    Market          \* the market of the instrument

\* A wick is not short and long at once.
IsSingleParams(p) ==
    /\ \A f \in {p.doji_max_body_ratio, p.short_wick_max_ratio, p.long_wick_min_ratio,
                 p.small_body_max_ratio, p.pin_bar_max_body_ratio,
                 p.pin_bar_min_wick_ratio} : IsFraction(f)
    /\ p.short_wick_max_ratio[1] * p.long_wick_min_ratio[2]
          < p.long_wick_min_ratio[1] * p.short_wick_max_ratio[2]

IsPairParams(p) ==
    \A f \in {p.harami_outer_min_body_ratio, p.harami_inner_max_body_ratio,
              p.tweezer_tolerance} : IsFraction(f)

\* The empty policy lets the market decide.
IsTripleParams(p) ==
    /\ \A f \in {p.harami_outer_min_body_ratio, p.harami_inner_max_body_ratio,
                 p.min_body_ratio, p.gap_min_fraction,
                 p.three_soldiers_upper_wick_max_ratio} : IsFraction(f)
    /\ \/ p.gap_policy = <<>>
       \/ p.gap_policy \in {<<"GAP_REQUIRED">>, <<"GAP_OPTIONAL">>, <<"GAP_NOT_APPLICABLE">>}

ASSUME CandleAssumption ==
    /\ IsSingleParams(SingleParams)
    /\ IsPairParams(PairParams)
    /\ IsTripleParams(TripleParams)

-----------------------------------------------------------------------------
(* The catalogue *)

Bias == {"BULLISH", "BEARISH"}

\* The name of a shape and of the same shape upside down.
NameOf(shape, side) ==
    LET n == IF side = "BULLISH" THEN 1 ELSE 2
    IN  CASE shape = "TAIL_DOJI" -> <<"DRAGONFLY_DOJI", "GRAVESTONE_DOJI">>[n]
          [] shape = "PIN_BAR" -> <<"BULLISH_PIN_BAR", "BEARISH_PIN_BAR">>[n]
          [] shape = "ENGULFING" -> <<"BULLISH_ENGULFING", "BEARISH_ENGULFING">>[n]
          [] shape = "HARAMI" -> <<"BULLISH_HARAMI", "BEARISH_HARAMI">>[n]
          [] shape = "TWEEZER" -> <<"TWEEZER_BOTTOM", "TWEEZER_TOP">>[n]
          [] shape = "PIERCING" -> <<"PIERCING_PATTERN", "DARK_CLOUD_COVER">>[n]
          [] shape = "STAR" -> <<"MORNING_STAR", "EVENING_STAR">>[n]
          [] shape = "SOLDIERS" -> <<"THREE_WHITE_SOLDIERS", "THREE_BLACK_CROWS">>[n]
          [] shape = "INSIDE" -> <<"THREE_INSIDE_UP", "THREE_INSIDE_DOWN">>[n]

\* One geometry, two names, and the trend before decides which.
HammerName(side, trend) ==
    CASE side = "BULLISH" /\ trend = "DOWNTREND" -> <<"HAMMER">>
      [] side = "BULLISH" /\ trend = "UPTREND" -> <<"HANGING_MAN">>
      [] side = "BEARISH" /\ trend = "DOWNTREND" -> <<"INVERTED_HAMMER">>
      [] side = "BEARISH" /\ trend = "UPTREND" -> <<"SHOOTING_STAR">>
      [] OTHER -> <<>>

NamedShape == {"TAIL_DOJI", "PIN_BAR", "ENGULFING", "HARAMI", "TWEEZER", "PIERCING",
          "STAR", "SOLDIERS", "INSIDE"}

CandlePatternType ==
    {"DOJI", "HAMMER", "HANGING_MAN", "INVERTED_HAMMER", "SHOOTING_STAR"}
      \cup {NameOf(shape, side) : shape \in NamedShape, side \in Bias}

\* traditional_bias, where the catalogue fixes one.
FixedBias(type) ==
    {side \in Bias :
        type \in {NameOf(shape, side) :
                     shape \in {"ENGULFING", "PIERCING", "STAR", "SOLDIERS", "INSIDE"}}}

\* _REQUIRED_TREND and _REQUIRED_TREND_TRIPLE: the trend a pattern goes against.
Against(side) == IF side = "BULLISH" THEN "DOWNTREND" ELSE "UPTREND"

-----------------------------------------------------------------------------
(* Proportions of a candle *)

Facing(side, c) ==
    IF side = "BULLISH" THEN c
    ELSE [c EXCEPT !.open = -c.open, !.low = -c.high, !.high = -c.low,
                   !.close = -c.close]

Body(c) == Abs(c.close - c.open)
Span(c) == c.high - c.low
UpperWick(c) == c.high - Max({c.open, c.close})
LowerWick(c) == Min({c.open, c.close}) - c.low
Rises(c) == c.close > c.open
Falls(c) == c.close < c.open

-----------------------------------------------------------------------------
(* One candle *)

\* A small body at the top of a long lower wick.
Tailed(c, body) ==
    /\ AtMostShare(Body(c), body, Span(c))
    /\ AtMostShare(UpperWick(c), SingleParams.short_wick_max_ratio, Span(c))
    /\ AtLeastShare(LowerWick(c), SingleParams.long_wick_min_ratio, Span(c))

SingleShapes(c) ==
    {shape \in {"TAIL_DOJI", "PIN_BAR", "HAMMER"} :
        \/ shape = "TAIL_DOJI" /\ Tailed(c, SingleParams.doji_max_body_ratio)
        \/ shape = "HAMMER" /\ Tailed(c, SingleParams.small_body_max_ratio)
        \/ /\ shape = "PIN_BAR"
           /\ AtMostShare(Body(c), SingleParams.pin_bar_max_body_ratio, Span(c))
           /\ AtLeastShare(LowerWick(c), SingleParams.pin_bar_min_wick_ratio, Span(c))}

-----------------------------------------------------------------------------
(* Two candles *)

\* is_bullish_harami, with the thresholds of either family.
Harami(a, b, params) ==
    /\ Falls(a) /\ Rises(b)
    /\ AtLeastShare(Body(a), params.harami_outer_min_body_ratio, Span(a))
    /\ AtMostShare(Body(b), params.harami_inner_max_body_ratio, Body(a))
    /\ a.close < b.open /\ b.close < a.open

PairShapes(a, b) ==
    {shape \in {"ENGULFING", "HARAMI", "TWEEZER", "PIERCING"} :
        \/ /\ shape = "ENGULFING"
           /\ Falls(a) /\ Rises(b) /\ b.open <= a.close /\ b.close >= a.open
        \/ shape = "HARAMI" /\ Harami(a, b, PairParams)
        \/ /\ shape = "TWEEZER"
           /\ AtMostShare(2 * Abs(a.low - b.low), PairParams.tweezer_tolerance,
                          Span(a) + Span(b))
        \/ /\ shape = "PIERCING"
           /\ Falls(a) /\ Rises(b) /\ b.open <= a.close
           /\ a.open + a.close < 2 * b.close /\ b.close < a.open}

-----------------------------------------------------------------------------
(* Three candles *)

\* _gap_policy_for_market, unless the parameters say one.
GapPolicy ==
    IF TripleParams.gap_policy # <<>> THEN TripleParams.gap_policy[1]
    ELSE IF Market = "CRYPTO" THEN "GAP_NOT_APPLICABLE" ELSE "GAP_OPTIONAL"

\* _star_gap: the gap between the first two bodies, where one is asked for.
GapIsMet(a, b) ==
    GapPolicy = "GAP_REQUIRED" =>
       AtLeastShare(Min({a.open, a.close}) - Max({b.open, b.close}),
                    TripleParams.gap_min_fraction, Body(a))

Star(a, b, c) ==
    /\ AtMostShare(Body(b), TripleParams.min_body_ratio, Span(b))
    /\ Falls(a) /\ Rises(c)
    /\ AtLeastShare(Body(a), TripleParams.harami_outer_min_body_ratio, Span(a))
    /\ 2 * c.close >= a.open + a.close
    /\ GapIsMet(a, b)

\* Three rising candles, each opening inside the body before and closing above
\* it, none with much of a wick on top.
Soldiers(a, b, c) ==
    /\ Rises(a) /\ Rises(b) /\ Rises(c)
    /\ b.close > a.close /\ c.close > b.close
    /\ a.open < b.open /\ b.open < a.close
    /\ b.open < c.open /\ c.open < b.close
    /\ \A x \in {a, b, c} :
          AtMostShare(UpperWick(x), TripleParams.three_soldiers_upper_wick_max_ratio,
                      Span(x))

TripleShapes(a, b, c) ==
    {shape \in {"STAR", "SOLDIERS", "INSIDE"} :
        \/ shape = "STAR" /\ Star(a, b, c)
        \/ shape = "SOLDIERS" /\ Soldiers(a, b, c)
        \/ shape = "INSIDE" /\ Harami(a, b, TripleParams) /\ c.close > a.high}

-----------------------------------------------------------------------------
(* What is recorded *)

\* _instance: the pattern that some candles are, confirmed if the trend before
\* them is the one it needs; a pattern that needs none is always confirmed.
Recorded(type, candles, needs, observed) ==
    LET confirmed == needs = {} \/ observed \in needs
    IN  [type |-> type, start |-> Head(candles).at,
         at |-> CloseTime(Last(candles).at), anchors |-> candles,
         state |-> IF confirmed THEN "CONFIRMED" ELSE "MORPHOLOGICALLY_VALID",
         context |-> IF confirmed THEN <<observed>> ELSE <<>>,
         gap |-> /\ confirmed
                 /\ \E side \in Bias : type = NameOf("STAR", side)
                 /\ GapPolicy # "GAP_NOT_APPLICABLE"]

\* derive_candle_pattern_instance_id: one series and one version of the detectors.
PatternId(p) == [type |-> p.type, start |-> p.start]

\* Mistake: the trend is read with everything that is known by now.
TrendBeforeOfAll(closed, n) ==
    LET series == SeriesOf(closed)
    IN  ClassifyTrend(series, CloseTime(Last(closed).at))

\* _prior_trend: when the first candle opens, from the candles before it.
TrendBefore(closed, n) ==
    ClassifyTrend(SeriesOf(SubSeq(closed, 1, n - 1)), OpenTime(closed[n].at))

\* _instances_for_candle: a doji needs no trend, a hammer is one by its trend.
SinglePatterns(c, observed) ==
    LET record(type, needs) == Recorded(type, <<c>>, needs, observed)
    IN  (IF AtMostShare(Body(c), SingleParams.doji_max_body_ratio, Span(c))
         THEN {record("DOJI", {})} ELSE {})
        \cup (UNION {{record(NameOf(shape, side), {Against(side)}) :
                         shape \in SingleShapes(Facing(side, c)) \ {"HAMMER"}} :
                       side \in Bias})
        \cup (UNION {{record(name, {observed}) : name \in ToSet(HammerName(side, observed))} :
                       side \in {s \in Bias : "HAMMER" \in SingleShapes(Facing(s, c))}})

\* AmbiguousGeometry: a hammer's geometry that no trend gives a name.
Ambiguous(c, observed) ==
    {[geometry |-> side, at |-> CloseTime(c.at), trend |-> observed] :
        side \in {s \in Bias : /\ "HAMMER" \in SingleShapes(Facing(s, c))
                               /\ HammerName(s, observed) = <<>>}}

\* _instances_for_pair: of two candles that follow each other in what was received.
PairPatterns(closed, n) ==
    LET first == closed[n - 1]
        second == closed[n]
    IN  UNION {{Recorded(NameOf(shape, side), <<first, second>>, {Against(side)},
                         TrendBefore(closed, n - 1)) :
                   shape \in PairShapes(Facing(side, first), Facing(side, second))} :
                 side \in Bias}

\* _instances_for_triple: soldiers and crows need no trend.
TriplePatterns(closed, n) ==
    LET candles == SubSeq(closed, n - 2, n)
        shapes(side) == TripleShapes(Facing(side, candles[1]), Facing(side, candles[2]),
                                     Facing(side, candles[3]))
    IN  UNION {{Recorded(NameOf(shape, side), candles,
                         IF shape = "SOLDIERS" THEN {} ELSE {Against(side)},
                         TrendBefore(closed, n - 2)) : shape \in shapes(side)} :
                 side \in Bias}

\* Candles without a range are no part of any pattern.
HaveRange(closed, from, to) == \A n \in from .. to : Span(closed[n]) > 0

\* detect_single_candle_patterns and detect_multi_candle_patterns.
CandlePatternsOf(closed) ==
    IF ~Authorized THEN {}
    ELSE UNION
           {(IF HaveRange(closed, n, n)
             THEN SinglePatterns(closed[n], TrendBefore(closed, n)) ELSE {})
            \cup (IF n > 1 /\ HaveRange(closed, n - 1, n)
                  THEN PairPatterns(closed, n) ELSE {})
            \cup (IF n > 2 /\ HaveRange(closed, n - 2, n)
                  THEN TriplePatterns(closed, n) ELSE {}) : n \in DOMAIN closed}

AmbiguousOf(closed) ==
    IF ~Authorized THEN {}
    ELSE UNION {Ambiguous(closed[n], TrendBefore(closed, n)) :
                   n \in {x \in DOMAIN closed : HaveRange(closed, x, x)}}

=============================================================================
