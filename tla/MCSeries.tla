------------------------------ MODULE MCSeries ------------------------------
EXTENDS CandleReplay

-----------------------------------------------------------------------------
(* Thresholds *)

\* Thresholds under which figures fit into twenty candles.

Quarter == <<1, 4>>
Tenth == <<1, 10>>

SmallReversal ==
    [min_history |-> TrendHistory, range_window_candles |-> 8,
     failure_window_candles |-> 3, max_age_candles |-> 18,
     breakout_margin |-> Quarter, min_height_fraction |-> Quarter,
     level_tolerance |-> Quarter, exceed_margin |-> Quarter,
     head_prominence |-> Tenth, shoulder_tolerance |-> <<1, 3>>,
     arc_fit_min |-> <<1, 2>>, min_top_dwell |-> <<2, 5>>,
     apex_position_band |-> <<1, 5>>, min_arc_candles |-> 5, max_arc_candles |-> 9]

SmallContinuation ==
    [min_history |-> TrendHistory, range_window_candles |-> 8,
     failure_window_candles |-> 3, max_age_candles |-> 18,
     breakout_margin |-> Quarter, min_height_fraction |-> Quarter,
     contact_tolerance |-> Quarter, flat_tolerance |-> Tenth, slope_min |-> <<3, 20>>,
     min_channel_candles |-> 6, mast_max_candles |-> 4,
     mast_min_height_fraction |-> Quarter, max_retrace |-> <<1, 2>>,
     flag_max_height_fraction |-> <<1, 2>>, min_flag_candles |-> 6,
     max_flag_candles |-> 12, parallel_tolerance |-> <<1, 5>>,
     pennant_convergence_min |-> <<3, 10>>, wedge_convergence_min |-> <<3, 10>>]

SmallDiamond ==
    [min_history |-> TrendHistory, range_window_candles |-> 8,
     failure_window_candles |-> 3, max_age_candles |-> 16,
     breakout_margin |-> Quarter, min_height_fraction |-> Quarter,
     contact_tolerance |-> Quarter, slope_min |-> <<3, 20>>,
     min_channel_candles |-> 4]

\* Those of the code, for the candle patterns.

DefaultSingle ==
    [doji_max_body_ratio |-> Tenth, short_wick_max_ratio |-> Tenth,
     long_wick_min_ratio |-> <<3, 5>>, small_body_max_ratio |-> <<3, 10>>,
     pin_bar_max_body_ratio |-> Quarter, pin_bar_min_wick_ratio |-> <<33, 50>>]

DefaultPair ==
    [harami_outer_min_body_ratio |-> <<1, 2>>, harami_inner_max_body_ratio |-> <<1, 2>>,
     tweezer_tolerance |-> Tenth]

DefaultTriple ==
    [harami_outer_min_body_ratio |-> <<1, 2>>, harami_inner_max_body_ratio |-> <<1, 2>>,
     min_body_ratio |-> <<3, 10>>, gap_min_fraction |-> Tenth, gap_policy |-> <<>>,
     three_soldiers_upper_wick_max_ratio |-> <<1, 5>>]

-----------------------------------------------------------------------------
(* How a series begins, what may follow, and what is looked for in it.  Prices *)
(* are in half ticks, so that lines pass between them.                         *)

Bar(open, low, high, close) ==
    [open |-> 2 * open, low |-> 2 * low, high |-> 2 * high, close |-> 2 * close]

\* From one level to the next by way of the price between them: a level of its
\* own is then a pivot of two candles on either side.
Legs(levels) ==
    [n \in 1 .. (2 * Len(levels) - 1) |->
        levels[(n + 1) \div 2] + levels[(n + 2) \div 2]]

\* A candle that is received as it closes.
Prompt(shape) == [shape |-> shape, delay |-> <<0>>]

OnTime(shapes) == [n \in DOMAIN shapes |-> Prompt(shapes[n])]

-----------------------------------------------------------------------------
(* Figures *)

\* A candle that closes at a price, with a wick of some ticks on either side.
At(price, wick) ==
    [open |-> price, low |-> price - 2 * wick, high |-> price + 2 * wick, close |-> price]

\* A series through given prices, and one whose levels are joined by legs.
Through(types, wick, prices, further) ==
    [watched |-> types, candles |-> OnTime([n \in DOMAIN prices |-> At(prices[n], wick)]),
     further |-> {Prompt(At(2 * n, wick)) : n \in further}, spotted |-> {}]

Figures(types, wick, levels, further) == Through(types, wick, Legs(levels), further)

\* The same with one candle that is received late, or nobody knows when, and with
\* any of those that follow unrecorded.
Delayed(series, n, delay) == [series EXCEPT !.candles[n].delay = delay]
Patchy(series) ==
    [series EXCEPT !.further = @ \cup {[c EXCEPT !.delay = <<>>] : c \in @}]

Tops == {"DOUBLE_TOP", "TRIPLE_TOP", "HEAD_AND_SHOULDERS_TOP"}
Bottoms == {"DOUBLE_BOTTOM", "TRIPLE_BOTTOM", "HEAD_AND_SHOULDERS_BOTTOM"}

FigureSeries ==
    {Patchy(Figures(Tops \cup {"DOUBLE_BOTTOM"}, 1, <<2, 5, 3, 7, 5, 10>>, {3, 6, 10})),
     Through({"HEAD_AND_SHOULDERS_TOP"}, 1,
             <<4, 7, 10, 8, 6, 10, 14, 12, 10, 15, 20, 12, 6>>, {3, 10}),
     Figures(Tops, 1, <<2, 7, 4, 7, 3, 7>>, {2, 4, 7}),
     Figures(Tops, 1, <<2, 7, 4, 10, 4, 6>>, {2, 4, 7}),
     Figures(Bottoms, 1, <<12, 7, 10, 7, 10, 6>>, {7, 10, 13}),
     Figures(Bottoms, 1, <<12, 7, 10, 4, 10, 8>>, {7, 10, 13}),
     Patchy(Figures({"DIAMOND"}, 3, <<10, 12, 9, 15, 6, 13, 9, 12>>, {4, 10, 14})),
     Figures({"DIAMOND"}, 3, <<20, 22, 18, 24, 16, 26, 14, 24, 17, 20>>, {13, 20, 27}),
     Patchy(Figures({"RECTANGLE", "DOUBLE_TOP"}, 2, <<8, 12, 6, 12, 6, 11>>, {3, 9, 14})),
     Figures({"SYMMETRICAL_TRIANGLE"}, 2, <<8, 14, 4, 12, 6, 10, 9>>, {4, 9, 14}),
     Figures({"ASCENDING_TRIANGLE"}, 2, <<8, 12, 4, 12, 7, 12>>, {4, 10, 16}),
     Figures({"RISING_WEDGE"}, 3, <<9, 12, 4, 14, 10, 13>>, {6, 14, 20}),
     Figures({"BROADENING_FORMATION", "RISING_WEDGE"}, 2, <<9, 11, 8, 13, 6, 15>>, {4, 10, 18}),
     [Figures({"BROADENING_FORMATION"}, 1, <<29, 31, 23, 33, 20, 35, 16, 40>>, {30})
        EXCEPT !.further = @ \cup {Prompt(At(80, 0))}],
     Figures({"DOUBLE_TOP", "RECTANGLE"}, 1,
             <<2, 5, 3, 7, 5, 9, 7, 11, 9, 11>>, {7, 9, 13}),
     Figures({"BULL_FLAG", "BULL_PENNANT", "RECTANGLE"}, 1, <<4, 2, 16, 13, 16, 13, 15>>, {8, 14, 20}),
     Through({"ROUNDING_TOP", "DOUBLE_TOP"}, 1,
             <<12, 10, 12, 10, 12, 8, 4, 10, 14, 16, 14, 10>>, {0, 2, 5}),
     Through({"ROUNDING_TOP"}, 1,
             <<12, 14, 12, 10, 4, 12, 22, 24, 26, 20, 22, 24>>, {3, 9}),
     Through({"ROUNDING_BOTTOM"}, 1,
             <<16, 18, 16, 18, 16, 20, 24, 18, 14, 12, 14, 18>>, {9, 12, 14}),
     Figures({"DESCENDING_TRIANGLE"}, 2, <<8, 4, 12, 4, 9, 4>>, {0, 6, 12}),
     Figures({"BEAR_FLAG", "BEAR_PENNANT"}, 1, <<20, 22, 8, 11, 8, 11, 9>>, {4, 10, 16}),
     Patchy(Delayed(Figures({"DOUBLE_TOP"}, 1, <<2, 5, 3, 7, 5, 7, 4>>, {1, 2}), 7, <<7>>)),
     Delayed(Figures({"DOUBLE_TOP"}, 1, <<2, 5, 3, 7, 5, 7, 4>>, {1, 2}), 7, <<>>)}

\* A swing above a rectangle, before the breakout and confirmed after it: the
\* lines it moves may leave no breakout behind.
LateContactSeries ==
    [Through({"RECTANGLE"}, 2, <<16, 20, 24, 18, 12, 18, 24, 18, 12, 18, 22>>, {10, 20})
        EXCEPT !.candles = @ \o OnTime(<<[At(24, 2) EXCEPT !.low = 20, !.high = 30],
                                        [At(29, 0) EXCEPT !.low = 24, !.high = 30]>>),
               !.further = @ \cup {Prompt([At(29, 0) EXCEPT !.low = 24, !.high = 30])}]

\* A diamond with a slow leg and a candle in the middle of it, of no pivot, that
\* comes when all is over.
LateHoleSeries ==
    Delayed(Through({"DIAMOND"}, 3,
                    <<20, 22, 24, 23, 22, 21, 20, 19, 18, 24, 30, 21, 12, 19, 26, 22,
                      18, 21, 24>>, {10, 14, 18}), 6, <<60>>)

-----------------------------------------------------------------------------
(* Candle patterns *)

\* A candle that closes at a price, after falling a little.
Sagging(price) ==
    [open |-> price + 16, low |-> price - 10, high |-> price + 26, close |-> price]

Patterns(levels, types, spotted, shapes) ==
    [watched |-> types,
     candles |-> OnTime([n \in DOMAIN Legs(levels) |-> Sagging(Legs(levels)[n])]),
     further |-> {Prompt(shape) : shape \in shapes}, spotted |-> spotted]

Downtrend == <<170, 200, 140, 170, 110, 140, 120>>
Uptrend == <<130, 100, 160, 130, 190, 160, 180>>
Ranging == <<130, 160, 120, 160, 120, 160, 140>>
DoubleTop == <<120, 150, 130, 170, 150, 170, 155>>

\* Long lower and upper tails, a doji, and bodies that swallow, or rest inside,
\* the one before.
Hammer == Bar(112, 90, 114, 113)
Shooting == Bar(190, 189, 214, 188)
Doji(level) == Bar(level, level - 10, level + 10, level)
Down(level) == Bar(level + 20, level - 2, level + 22, level)
Up(level) == Bar(level, level - 2, level + 22, level + 20)

CandleSeries ==
    {Patterns(Downtrend, {}, {"HAMMER", "BULLISH_ENGULFING"},
              {Hammer, Down(110), Bar(108, 106, 134, 132)}),
     Patterns(Downtrend, {}, {"MORNING_STAR", "THREE_INSIDE_UP"},
              {Down(100), Bar(106, 102, 112, 108), Up(104)}),
     Patterns(Uptrend, {}, {"SHOOTING_STAR", "EVENING_STAR"}, {Up(185), Down(180), Shooting}),
     Patterns(Ranging, {}, {"THREE_WHITE_SOLDIERS"}, {Hammer, Up(130), Up(140), Up(150)}),
     Patchy(Patterns(DoubleTop, {"DOUBLE_TOP"}, {"DOJI"}, {Doji(150), Down(110)}))}

AllSeries == FigureSeries \cup {LateContactSeries, LateHoleSeries} \cup CandleSeries

=============================================================================
