-------------------------- MODULE PatternDetection --------------------------
(***************************************************************************)
(* What every detector of chart figures shares and how figures are carried *)
(* from one instant to the next (domain/pattern_detection.py).             *)
(*                                                                         *)
(* The closed candles are a sequence, oldest first, of records with the    *)
(* index of the candle, its low, high and close, and when it was received  *)
(* (empty when nobody recorded it).  Positions count from 1 and 0 stands   *)
(* for None.  Prices are whole multiples of the step the code rounds to.   *)
(* The facts inside a piece of evidence are wording and are left out, but  *)
(* for those a hypothesis reads: the prior trend and the timing.           *)
(***************************************************************************)
EXTENDS PatternInstance, MarketTrend

CONSTANTS
    ReversalParams,       \* thresholds of the reversal detectors
    ContinuationParams,   \* of triangles, rectangles, wedges, flags
    DiamondParams,        \* of the diamond
    Receipts              \* context.received_at was given

\* What the three sets of parameters have in common, with the fractions and the
\* numbers of candles each has of its own.  A figure, a trend and the history
\* both need are judged from as many candles.
AreThresholds(p, fractions, counts) ==
    /\ \A f \in {p.breakout_margin, p.min_height_fraction} \cup fractions : IsFraction(f)
    /\ {p.range_window_candles, p.failure_window_candles, p.max_age_candles}
          \cup counts \subseteq Nat \ {0}
    /\ p.min_history = TrendHistory

\* An arc cannot be required longer than it may be.
IsReversalParams(p) ==
    /\ AreThresholds(p,
          {p.level_tolerance, p.exceed_margin, p.head_prominence, p.shoulder_tolerance,
           p.arc_fit_min, p.min_top_dwell, p.apex_position_band},
          {p.min_arc_candles, p.max_arc_candles})
    /\ p.min_arc_candles <= p.max_arc_candles

\* A boundary is not flat and sloping at once, and a flag or a wedge not parallel
\* and converging; a flag cannot be required longer than it may be.
IsContinuationParams(p) ==
    LET below(f, g) == f[1] * g[2] < g[1] * f[2]
    IN  /\ AreThresholds(p,
              {p.contact_tolerance, p.flat_tolerance, p.slope_min,
               p.mast_min_height_fraction, p.max_retrace, p.flag_max_height_fraction,
               p.parallel_tolerance, p.pennant_convergence_min, p.wedge_convergence_min},
              {p.min_channel_candles, p.mast_max_candles, p.min_flag_candles,
               p.max_flag_candles})
        /\ below(p.flat_tolerance, p.slope_min)
        /\ below(p.parallel_tolerance, p.pennant_convergence_min)
        /\ below(p.parallel_tolerance, p.wedge_convergence_min)
        /\ p.min_flag_candles <= p.max_flag_candles

IsDiamondParams(p) ==
    AreThresholds(p, {p.contact_tolerance, p.slope_min}, {p.min_channel_candles})

ASSUME DetectionAssumption ==
    /\ Receipts \in BOOLEAN
    /\ IsReversalParams(ReversalParams)
    /\ IsContinuationParams(ContinuationParams)
    /\ IsDiamondParams(DiamondParams)

-----------------------------------------------------------------------------
(* Prices, lines and the two ends of a trend *)

\* A number is at least, or at most, a fraction of another.
AtLeastShare(x, fraction, y) == x * fraction[2] >= fraction[1] * y
AtMostShare(x, fraction, y) == x * fraction[2] <= fraction[1] * y

Abs(x) == IF x < 0 THEN -x ELSE x

\* Decimal.quantize: to the nearest step, to the even one on a tie.
RoundHalfEven(n, d) ==
    LET floor == n \div d
        twice == 2 * (n % d)
    IN  IF twice > d \/ (twice = d /\ floor % 2 = 1) THEN floor + 1 ELSE floor

\* line_through: a line through two instants, and its price at any other.
Line(t1, p1, t2, p2) == [t1 |-> t1, p1 |-> p1, t2 |-> t2, p2 |-> p2]
Level(price) == Line(0, price, 1, price)

PriceAt(line, t) ==
    LET span == line.t2 - line.t1
    IN  RoundHalfEven(line.p1 * span + (line.p2 - line.p1) * (t - line.t1), span)

LineThrough(p, q) == Line(OpenTime(p.at), p.price, OpenTime(q.at), q.price)

\* Side: mirror figures share everything but this.
Signed(side, price) == IF side = "TOP" THEN price ELSE -price
ExtremeKind(side) == IF side = "TOP" THEN "HIGH" ELSE "LOW"
OppositeKind(side) == IF side = "TOP" THEN "LOW" ELSE "HIGH"
BreakoutDirection(side) == IF side = "TOP" THEN "DOWN" ELSE "UP"
ConfirmedState(side) == IF side = "TOP" THEN "CONFIRMED_DOWN" ELSE "CONFIRMED_UP"
SignedExtreme(side, candle) == Signed(side, Extreme(ExtremeKind(side), candle))

Earliest(positions) == IF positions = {} THEN 0 ELSE Min(positions)

PositionOf(closed, i) == CHOOSE n \in DOMAIN closed : closed[n].at = i

SeriesOf(closed) ==
    [i \in {closed[n].at : n \in DOMAIN closed} |-> closed[PositionOf(closed, i)]]

\* reference_range: of the candles that end at a position.
ReferenceRange(closed, end, window) ==
    LET span == {closed[n] : n \in Max({1, end - window + 1}) .. end}
    IN  Max({c.high : c \in span}) - Min({c.low : c \in span})

-----------------------------------------------------------------------------
(* judge *)

Breakout(candle, side, confirmed, role) ==
    [direction |-> BreakoutDirection(side), boundary |-> role,
     candle |-> candle.at, close |-> candle.close, confirmed |-> confirmed]

Judgement(state) ==
    [state |-> state, breakout |-> <<>>, reasons |-> {}, first |-> 0,
     start |-> 0, retest |-> 0]

Invalid(reason) == [Judgement("INVALIDATED") EXCEPT !.reasons = {reason}]

\* Where the line of a figure runs as a candle closes, on the figure's side, and
\* how far beyond it each candle closes.
LineAt(closed, f, k) == Signed(f.side, PriceAt(f.line, CloseTime(closed[k].at)))
Depths(closed, f) ==
    [k \in DOMAIN closed |-> LineAt(closed, f, k) - Signed(f.side, closed[k].close)]

\* The first close through the other side.
FirstExceed(closed, f) ==
    IF f.exceedFrom = 0 THEN 0
    ELSE Earliest({k \in f.exceedFrom .. Len(closed) :
            ~AtMostShare(Signed(f.side, closed[k].close) - Signed(f.side, f.extreme),
                         f.params.exceed_margin, f.height)})

\* The first close beyond the line, until the figure expires.
FirstBeyond(closed, f, depth) ==
    LET until == IF f.expires = 0 THEN Len(closed)
                 ELSE Min({Len(closed), f.expires})
    IN  IF f.complete
        THEN Earliest({k \in f.breakoutFrom .. until : depth[k] > 0})
        ELSE 0

\* A figure nothing happened to for too long.
IsStale(closed, f, first) ==
    \/ Len(closed) - f.start > f.params.max_age_candles
    \/ first = 0 /\ f.expires # 0 /\ Len(closed) > f.expires

\* A breakout unfolds from its first close beyond the line: it fails if a close
\* comes back within the window, and else it is confirmed by a close that is far
\* enough beyond.
Unfold(closed, f, first, depth) ==
    LET last == Len(closed)
        failed == Earliest({k \in (first + 1) .. last :
                       k - first <= f.params.failure_window_candles /\ depth[k] <= 0})
        confirmed == Earliest({k \in first .. (IF failed = 0 THEN last ELSE failed - 1) :
                                  AtLeastShare(depth[k], f.params.breakout_margin, f.height)})
        at(k, sure) == <<Breakout(closed[k], f.side, sure, f.role)>>
        broken == [Judgement("BREAKOUT_PENDING_CONFIRMATION") EXCEPT
                      !.breakout = at(first, FALSE), !.first = first,
                      !.start = f.start]
    IN  CASE failed # 0 ->
                [broken EXCEPT
                    !.state = "FAILED_BREAKOUT",
                    !.breakout = IF confirmed # 0 THEN at(confirmed, TRUE)
                                 ELSE at(first, FALSE)]
          [] failed = 0 /\ confirmed # 0 ->
                [broken EXCEPT
                    !.state = ConfirmedState(f.side),
                    !.breakout = at(confirmed, TRUE),
                    !.retest = Earliest({k \in (confirmed + 1) .. last :
                                 SignedExtreme(f.side, closed[k]) >= LineAt(closed, f, k)})]
          [] failed = 0 /\ confirmed = 0 /\ IsStale(closed, f, first) -> Invalid("TOO_LONG")
          [] OTHER -> broken

\* What happened first wins; a wick is not a breakout.  A figure is a record of
\* the named arguments of the code; the answer is a sequence of at most one.
Judge(closed, f) ==
    LET depth == Depths(closed, f)
        exceed == FirstExceed(closed, f)
        first == FirstBeyond(closed, f, depth)
        stale == IsStale(closed, f, first)
    IN  CASE exceed # 0 /\ (first = 0 \/ exceed < first) ->
                <<Invalid("CLOSED_THROUGH_AGAINST_BIAS")>>
          [] first # 0 /\ (exceed = 0 \/ first <= exceed) ->
                <<Unfold(closed, f, first, depth)>>
          [] first = 0 /\ exceed = 0 /\ stale -> <<Invalid("TOO_LONG")>>
          [] first = 0 /\ exceed = 0 /\ ~stale /\ f.complete ->
                <<Judgement("GEOMETRICALLY_VALID")>>
          [] first = 0 /\ exceed = 0 /\ ~stale /\ ~f.complete /\ f.forming ->
                <<Judgement("FORMING")>>
          [] OTHER -> <<>>

\* breakout_evidence and _volume_evidence: which kinds of evidence there are.
BreakoutEvidence(j) ==
    {code \in {"BREAKOUT_SCAN", "RETEST", "BREAKOUT_VOLUME"} :
        \/ code = "BREAKOUT_SCAN" /\ j.first # 0
        \/ code = "RETEST" /\ j.retest # 0
        \/ code = "BREAKOUT_VOLUME" /\ j.first > j.start}

-----------------------------------------------------------------------------
(* What Freyja knew, kept apart from what happened *)

Anchor(p) ==
    [at |-> p.at, kind |-> p.kind, price |-> p.price,
     confirmed |-> CloseTime(p.at + K)]

Point(i, price) == [at |-> i, price |-> price]

FormedAt(window) == Max({window[n].confirmed : n \in DOMAIN window})

\* known_at_of: the last arrival among the candles the figure depends on; nobody
\* can say if one of them was not recorded.
KnownAtOf(closed, window) ==
    LET needed == {c \in ToSet(closed) :
                      window[1].at <= c.at /\ CloseTime(c.at) <= FormedAt(window)}
    IN  IF /\ Receipts
           /\ \E c \in needed : c.at = window[1].at
           /\ \E c \in needed : CloseTime(c.at) = FormedAt(window)
           /\ \A c \in needed : c.seen # <<>>
        THEN <<Max({Head(c.seen) : c \in needed})>>
        ELSE <<>>

\* seen_at: when Freyja could act on a candle.
SeenAt(candle) ==
    IF Receipts /\ candle.seen # <<>>
    THEN Max({CloseTime(candle.at), Head(candle.seen)})
    ELSE CloseTime(candle.at)

\* Mistake: what is known by now counts as known when the breakout opened.
ProvenanceOfKnown(opened, formed, known, published) ==
    IF known # <<>> THEN "LIVE"
    ELSE IF opened >= formed THEN "AFTER_MARKET_FORMATION"
    ELSE "RETROSPECTIVE"

\* provenance_of: published is given only when an overlap held the figure back.
ProvenanceOf(opened, formed, known, published) ==
    IF published # <<>>
    THEN IF opened < Head(published) THEN "RETROSPECTIVE"
         ELSE IF known # <<>> THEN "LIVE" ELSE "AFTER_MARKET_FORMATION"
    ELSE IF known # <<>> /\ opened >= Head(known \o <<0>>) THEN "LIVE"
    ELSE IF opened >= formed THEN "AFTER_MARKET_FORMATION"
    ELSE "RETROSPECTIVE"

\* timing_evidence, with the facts of the diamond's own timing: held is how long
\* an overlap kept the figure back.
Timing(closed, window, j, held) ==
    LET known == KnownAtOf(closed, window)
    IN  [known |-> known,
         published |-> held,
         opened |-> IF j.first = 0 THEN <<>> ELSE <<OpenTime(closed[j.first].at)>>,
         provenance |->
            IF j.first = 0 THEN <<>>
            ELSE <<ProvenanceOf(OpenTime(closed[j.first].at), FormedAt(window),
                                known, held)>>]

\* prior_trend_state: at the instant of the first pivot, from what closed by then.
PriorTrend(closed, first) ==
    LET series == SeriesOf(closed)
        before == {i \in DOMAIN series : CloseTime(i) <= OpenTime(first.at)}
    IN  ClassifyTrend([i \in before |-> series[i]], OpenTime(first.at))

\* The evaluation of a figure at the instant its last candle closed.
Evaluation(closed, start, j, anchors, boundaries, codes, timing, t) ==
    [at |-> t,
     asOf |-> <<CloseTime(Last(closed).at)>>,
     count |-> Len(closed) - start + 1,
     state |-> j.state,
     anchors |-> anchors,
     boundaries |-> boundaries,
     breakout |-> j.breakout,
     reasons |-> j.reasons,
     missing |-> {},
     evidence |-> codes \cup BreakoutEvidence(j) \cup {"TIMING", "PRIOR_TREND"},
     timing |-> timing,
     prior |-> PriorTrend(closed, anchors[1])]

-----------------------------------------------------------------------------
(* From one instant to the next *)

\* _same_content: new numbers inside old evidence are not news.
SameContent(before, after) ==
    /\ before.state = after.state
    /\ before.anchors = after.anchors
    /\ before.breakout = after.breakout
    /\ before.reasons = after.reasons
    /\ before.missing = after.missing
    /\ before.evidence = after.evidence

\* _closing_evaluation: what was known, with another state and no breakout.
ClosingEvaluation(latest, t, asOf, state, reasons, missing) ==
    [latest EXCEPT
        !.at = t,
        !.asOf = IF asOf # <<>> THEN asOf ELSE latest.asOf,
        !.state = state,
        !.breakout = <<>>,
        !.reasons = reasons,
        !.missing = missing]

\* It is built, then taken by advance: an error of either is a FALSE guard.
CanClose(id, evaluations, e) == ValidEvaluation(e) /\ CanAdvance(id, evaluations, e)

WithEvaluation(figures, id, e) ==
    [x \in DOMAIN figures \cup {id} |->
        IF x # id THEN figures[x]
        ELSE IF id \in DOMAIN figures THEN Append(figures[id], e) ELSE <<e>>]

Raised(acc) == [figures |-> acc.figures, raised |-> TRUE]

\* Mistake: a figure whose anchors changed is continued as if they had not.
TakeCandidateRewriting(acc, type, e, t, asOf) ==
    LET id == InstanceId(type, e)
        known == acc.figures[id]
    IN  CASE acc.raised -> acc
          [] ~acc.raised /\ id \notin DOMAIN acc.figures ->
                IF e.state = "INVALIDATED" THEN acc
                ELSE [acc EXCEPT !.figures = WithEvaluation(@, id, e)]
          [] OTHER ->
                IF IsTerminal(known) \/ SameContent(Last(known), e) THEN acc
                ELSE [acc EXCEPT !.figures = WithEvaluation(@, id, e)]

\* One candidate of update_instances: a new figure, the continuation of one, or
\* another figure in the place of one, which ends that one.
TakeCandidate(acc, type, e, t, asOf) ==
    LET id == InstanceId(type, e)
        known == acc.figures[id]
        closing == ClosingEvaluation(Last(known), t, asOf, "INVALIDATED",
                                     {"SUPERSEDED"}, {})
    IN  CASE acc.raised -> acc
          [] ~acc.raised /\ id \notin DOMAIN acc.figures ->
                IF e.state = "INVALIDATED" THEN acc
                ELSE IF ~EnoughAnchors(type, e) THEN Raised(acc)
                ELSE [acc EXCEPT !.figures = WithEvaluation(@, id, e)]
          [] OTHER ->
                IF IsTerminal(known) \/ SameContent(Last(known), e) THEN acc
                ELSE IF CanAdvance(id, known, e)
                THEN [acc EXCEPT !.figures = WithEvaluation(@, id, e)]
                ELSE IF CanClose(id, known, closing)
                THEN [acc EXCEPT !.figures = WithEvaluation(@, id, closing)]
                ELSE Raised(acc)

\* A figure the detector does not see at t: data that is not fit pauses it, a
\* confirmed one stays, another is over.
Unseen(evaluations, unfit, t, asOf) ==
    LET latest == Last(evaluations)
    IN  CASE \/ IsTerminal(evaluations)
             \/ unfit # {} /\ latest.missing = unfit
             \/ unfit = {} /\ latest.state \in ConfirmedStates ->
                <<>>
          [] unfit # {} /\ ~IsTerminal(evaluations) /\ latest.missing # unfit ->
                <<ClosingEvaluation(latest, t, asOf, "INSUFFICIENT_DATA", {}, unfit)>>
          [] OTHER ->
                <<ClosingEvaluation(latest, t, asOf, "INVALIDATED",
                                    {"GEOMETRY_BROKEN"}, {})>>

\* The first loop of update_instances, candidate by candidate.
TakeCandidates(figures, type, result, t) ==
    LET after[n \in 0 .. Len(result.candidates)] ==
          IF n = 0 THEN [figures |-> figures, raised |-> FALSE]
          ELSE TakeCandidate(after[n - 1], type, result.candidates[n], t, result.asOf)
    IN  after[Len(result.candidates)]

\* update_instances: a detector's figures, and what it saw at t.
UpdateInstances(figures, type, result, t) ==
    LET taken == TakeCandidates(figures, type, result, t)
        seen == {InstanceId(type, e) : e \in ToSet(result.candidates)}
        closing == [id \in DOMAIN taken.figures \ seen |->
                       Unseen(taken.figures[id], result.unfit, t, result.asOf)]
    IN  [figures |->
            [id \in DOMAIN taken.figures |->
                IF id \in DOMAIN closing
                THEN taken.figures[id] \o closing[id] ELSE taken.figures[id]],
         raised |->
            \/ taken.raised
            \/ \E id \in DOMAIN closing :
                  \E e \in ToSet(closing[id]) :
                     ~CanClose(id, taken.figures[id], e)]

=============================================================================
