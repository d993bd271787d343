-------------------------- MODULE PatternChannel ----------------------------
(***************************************************************************)
(* The figures between two lines: triangles, the rectangle, wedges and the *)
(* broadening formation (domain/pattern_channel.py, pattern_wedge.py,      *)
(* pattern_broadening.py), and flags and pennants, where such a channel    *)
(* follows a mast (pattern_flag.py).  The price may leave through either   *)
(* line.                                                                   *)
(***************************************************************************)
EXTENDS PatternReversal

-----------------------------------------------------------------------------
(* A channel: a run of swings and the two lines that bound it *)

Flat(rise, height, params) == AtMostShare(Abs(rise), params.flat_tolerance, height)
Rising(rise, height, params) == AtLeastShare(rise, params.slope_min, height)
Falling(rise, height, params) == AtLeastShare(-rise, params.slope_min, height)

StrictlyHigher(contacts) ==
    \A n \in 1 .. (Len(contacts) - 1) : contacts[n].price < contacts[n + 1].price
StrictlyLower(contacts) ==
    \A n \in 1 .. (Len(contacts) - 1) : contacts[n].price > contacts[n + 1].price

\* The height ends at most at a part of what it began at: 1 - fraction.
ClosesIn(fit, fraction) ==
    AtMostShare(fit.gap, <<fraction[2] - fraction[1], fraction[2]>>, fit.height)

Inside(fit, candle) ==
    /\ candle.close <= PriceAt(fit.upper, CloseTime(candle.at))
    /\ candle.close >= PriceAt(fit.lower, CloseTime(candle.at))

\* _expires_after: the last candle that closes before converging lines meet, 0
\* while no candle has closed at or after that moment.
ExpiresAfter(closed, last, end, height, gap, span) ==
    LET past == Earliest({n \in (last + 1) .. Len(closed) :
                   (CloseTime(closed[n].at) - end) * (height - gap) >= span * gap})
    IN  IF gap >= height \/ past = 0 THEN 0 ELSE past - 1

\* The two lines of a run, measured; whether they are a channel is told apart.
MeasuredChannel(closed, window) ==
    LET highs == OfKind(window, "HIGH")
        lows == OfKind(window, "LOW")
        upper == LineThrough(Head(highs), Last(highs))
        lower == LineThrough(Head(lows), Last(lows))
        start == OpenTime(Head(window).at)
        end == OpenTime(Last(window).at)
        height == PriceAt(upper, start) - PriceAt(lower, start)
        gap == PriceAt(upper, end) - PriceAt(lower, end)
        last == PositionOf(closed, Last(window).at)
    IN  [window |-> window, upper |-> upper, lower |-> lower,
         highs |-> highs, lows |-> lows, height |-> height, gap |-> gap,
         upperRise |-> PriceAt(upper, end) - PriceAt(upper, start),
         lowerRise |-> PriceAt(lower, end) - PriceAt(lower, start),
         first |-> PositionOf(closed, Head(window).at), last |-> last,
         expires |-> ExpiresAfter(closed, last, end, height, gap, end - start)]

\* The contacts are near the lines and every close is inside them.
IsChannel(closed, params, fit, least, checkHeight) ==
    LET near(contacts, line) ==
            \A n \in 2 .. (Len(contacts) - 1) :
               AtMostShare(Abs(contacts[n].price
                                 - PriceAt(line, OpenTime(contacts[n].at))),
                           params.contact_tolerance, fit.height)
        reference == ReferenceRange(closed, fit.first, params.range_window_candles)
    IN  /\ fit.height > 0 /\ fit.gap > 0
        /\ fit.last - fit.first >= least
        /\ reference > 0
        /\ checkHeight => AtLeastShare(fit.height, params.min_height_fraction, reference)
        /\ near(fit.highs, fit.upper) /\ near(fit.lows, fit.lower)
        /\ \A n \in fit.first .. fit.last : Inside(fit, closed[n])

\* fit_channel: the channel of a run that has both sides; nothing if it is none.
FitChannel(closed, params, window, least, checkHeight) ==
    LET fit == MeasuredChannel(closed, window)
    IN  IF /\ Len(OfKind(window, "HIGH")) >= 2 /\ Len(OfKind(window, "LOW")) >= 2
           /\ IsChannel(closed, params, fit, least, checkHeight)
        THEN <<fit>> ELSE <<>>

\* The channel, if there is one and it is as it should be.
Accepted(fit, accepts(_)) == IF fit # <<>> /\ accepts(fit[1]) THEN fit ELSE <<>>

\* left_the_lines: a close up to a position is beyond a line of the channel.
LeftTheLines(fit, closed, until) ==
    \E n \in (fit.last + 1) .. until : ~Inside(fit, closed[n])

\* grow_channel: the longest run from a swing that is a figure at every size,
\* and whose lines no close had left when they moved.  Of each size there is the
\* channel that was accepted, if any.
GrowChannel(closed, swings, position, fits) ==
    LET good == {n \in DOMAIN fits :
                    /\ fits[n] # <<>>
                    /\ n - 1 \in DOMAIN fits =>
                          \A f \in ToSet(fits[n - 1]) :
                             ~LeftTheLines(f, closed,
                                  PositionOf(closed, swings[position + n - 1].at))}
        whole == {n \in good : \A m \in DOMAIN fits : m <= n => m \in good}
    IN  IF whole = {} THEN <<>> ELSE fits[Max(whole)]

\* The runs from a swing that are no shorter than "fewest".
RunsFrom(swings, position, fewest) ==
    [size \in fewest .. (Len(swings) - position + 1) |->
        SubSeq(swings, position, position + size - 1)]

-----------------------------------------------------------------------------
(* What the price does with the two lines *)

\* first_breakout: the line the price went through first decides, once both are
\* judged.
FirstBreakout(upward, downward) ==
    [n \in DOMAIN upward \cap DOMAIN downward |->
        IF /\ downward[n].first # 0
           /\ upward[n].first = 0 \/ downward[n].first <= upward[n].first
        THEN downward[n] ELSE upward[n]]

Watch(closed, params, side, fit, start) ==
    Judge(closed,
      [side |-> side, params |-> params, start |-> start, exceedFrom |-> 0,
       extreme |-> 0, breakoutFrom |-> fit.last + 1, complete |-> TRUE,
       forming |-> FALSE,
       line |-> IF side = "BOTTOM" THEN fit.upper ELSE fit.lower,
       height |-> fit.height, expires |-> fit.expires,
       role |-> IF side = "BOTTOM" THEN "UPPER" ELSE "LOWER"])

\* Both lines are watched; the age counts from a position.
JudgeChannel(closed, params, fit, start) ==
    FirstBreakout(Watch(closed, params, "BOTTOM", fit, start),
                  Watch(closed, params, "TOP", fit, start))

\* boundaries_of
BoundariesOf(fit) ==
    {[role |-> side.role,
      points |-> <<Point(Head(side.contacts).at, Head(side.contacts).price),
                  Point(Last(side.contacts).at, Last(side.contacts).price)>>,
      contacts |-> {p.at : p \in ToSet(side.contacts)}] :
        side \in {[role |-> "UPPER", contacts |-> fit.highs],
                  [role |-> "LOWER", contacts |-> fit.lows]}}

ChannelEvaluation(closed, fit, t) ==
    Candidate(closed, fit.first, JudgeChannel(closed, ContinuationParams, fit, fit.first),
              Anchors(fit.window), BoundariesOf(fit), {"CHANNEL"}, t)

-----------------------------------------------------------------------------
(* Triangles, rectangle, wedges, broadening formation: only slopes differ *)

AcceptsSlopes(type, fit) ==
    LET p == ContinuationParams
        up == fit.upperRise
        low == fit.lowerRise
        h == fit.height
    IN  CASE type = "RECTANGLE" -> Flat(up, h, p) /\ Flat(low, h, p)
          [] type = "ASCENDING_TRIANGLE" -> Flat(up, h, p) /\ Rising(low, h, p)
          [] type = "DESCENDING_TRIANGLE" -> Falling(up, h, p) /\ Flat(low, h, p)
          [] type = "SYMMETRICAL_TRIANGLE" -> Falling(up, h, p) /\ Rising(low, h, p)
          [] type = "RISING_WEDGE" ->
                /\ Rising(up, h, p) /\ Rising(low, h, p)
                /\ ClosesIn(fit, p.wedge_convergence_min)
          [] type = "FALLING_WEDGE" ->
                /\ Falling(up, h, p) /\ Falling(low, h, p)
                /\ ClosesIn(fit, p.wedge_convergence_min)
          [] type = "BROADENING_FORMATION" ->
                /\ Rising(up, h, p) /\ Falling(low, h, p)
                /\ StrictlyHigher(fit.highs) /\ StrictlyLower(fit.lows)

\* ChannelDetector.find: a piece of a figure that began earlier is not another.
ChannelFigures(closed, swings, type, t) ==
    LET fewest == IF type = "BROADENING_FORMATION" THEN 5 ELSE 4
        accepted(run) == Accepted(FitChannel(closed, ContinuationParams, run,
                                             ContinuationParams.min_channel_candles, TRUE),
                                  LAMBDA fit : AcceptsSlopes(type, fit))
        fits(n) == LET runs == RunsFrom(swings, n, fewest)
                   IN  [size \in DOMAIN runs |-> accepted(runs[size])]
        grown == [n \in DOMAIN swings |-> GrowChannel(closed, swings, n, fits(n))]
        end(n) == n + Len(grown[n][1].window) - 1
        isNew(n) == /\ grown[n] # <<>>
                    /\ \A m \in 1 .. (n - 1) : grown[m] # <<>> => end(m) < end(n)
    IN  FlattenSeq([n \in DOMAIN swings |->
                       IF isNew(n) THEN ChannelEvaluation(closed, grown[n][1], t)
                       ELSE <<>>])

-----------------------------------------------------------------------------
(* Flags and pennants: a mast and a pause against it *)

Thrust(type) == IF type \in {"BULL_FLAG", "BULL_PENNANT"} THEN "BULL" ELSE "BEAR"
Sign(thrust) == IF thrust = "BULL" THEN 1 ELSE -1
MastEndKind(thrust) == IF thrust = "BULL" THEN "HIGH" ELSE "LOW"

\* retracement: how far the contacts gave the mast back.
Retracement(thrust, fit, end) ==
    LET counter == IF thrust = "BULL" THEN fit.lows ELSE fit.highs
    IN  Max({Sign(thrust) * (end.price - p.price) : p \in ToSet(counter)})

AcceptsPause(type, fit, end, mast) ==
    LET p == ContinuationParams
        thrust == Thrust(type)
    IN  /\ fit.last - fit.first <= p.max_flag_candles
        /\ AtMostShare(fit.height, p.flag_max_height_fraction, mast)
        /\ AtMostShare(Retracement(thrust, fit, end), p.max_retrace, mast)
        /\ AtMostShare(Sign(thrust) * (fit.upperRise + fit.lowerRise),
                       p.flat_tolerance, 2 * mast)
        /\ IF type \in {"BULL_PENNANT", "BEAR_PENNANT"}
           THEN /\ fit.upperRise < 0 /\ 0 < fit.lowerRise
                /\ ClosesIn(fit, p.pennant_convergence_min)
           ELSE AtMostShare(Abs(fit.gap - fit.height), p.parallel_tolerance, fit.height)

PauseEvaluation(closed, start, pause, t) ==
    Candidate(closed, PositionOf(closed, start.at),
              JudgeChannel(closed, ContinuationParams, pause, pause.first),
              Anchors(<<start>> \o pause.window), BoundariesOf(pause),
              {"FLAGPOLE", "FLAG_VOLUME", "CHANNEL"}, t)

MastFigure(closed, swings, type, position, t) ==
    LET p == ContinuationParams
        thrust == Thrust(type)
        start == swings[position]
        end == swings[position + 1]
        from == PositionOf(closed, start.at)
        mast == Sign(thrust) * (end.price - start.price)
        reference == ReferenceRange(closed, from, p.range_window_candles)
        runs == RunsFrom(swings, position + 1, 4)
        accepted(run) == Accepted(FitChannel(closed, p, run, p.min_flag_candles, FALSE),
                                  LAMBDA fit : AcceptsPause(type, fit, end, mast))
        grown == GrowChannel(closed, swings, position + 1,
                             [size \in DOMAIN runs |-> accepted(runs[size])])
        isMast == /\ end.kind = MastEndKind(thrust)
                  /\ PositionOf(closed, end.at) - from <= p.mast_max_candles
                  /\ reference > 0
                  /\ AtLeastShare(mast, p.mast_min_height_fraction, reference)
    IN  IF ~isMast THEN <<>>
        ELSE FlattenSeq([n \in DOMAIN grown |->
                            PauseEvaluation(closed, start, grown[n], t)])

MastFigures(closed, swings, type, t) ==
    FlattenSeq([n \in 1 .. (Len(swings) - 4) |->
                   MastFigure(closed, swings, type, n, t)])

=============================================================================
