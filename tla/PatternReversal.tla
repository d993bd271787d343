-------------------------- MODULE PatternReversal ---------------------------
(***************************************************************************)
(* The detectors of the reversal figures: doubles, triples, head and       *)
(* shoulders and rounded ones (domain/pattern_double.py, pattern_triple.py,*)
(* pattern_head_shoulders.py, pattern_rounding.py).  Each answers with the *)
(* evaluations of the figures it sees; top and bottom are mirrors.         *)
(***************************************************************************)
EXTENDS PatternDetection

CONSTANT PriceTick   \* in a series where rounded figures are looked for, every
                     \* close is a multiple of it

ASSUME ReversalAssumption == PriceTick \in Nat \ {0}

-----------------------------------------------------------------------------
(* What the four share *)

OfKind(window, kind) ==
    FlattenSeq([n \in DOMAIN window |->
                   IF window[n].kind = kind THEN <<window[n]>> ELSE <<>>])

\* The mean level of some swings, as a price of the top; exact when the tick is
\* a multiple of how many they can be.
MeanLevel(side, pivots) ==
    FoldLeft(LAMBDA sum, p : sum + Signed(side, p.price), 0, pivots) \div Len(pivots)

\* The price of the swing that goes furthest.
FurthestPrice(side, pivots) ==
    Signed(side, Max({Signed(side, p.price) : p \in ToSet(pivots)}))

\* The figure is tall enough to matter where it began.
TallEnough(height, reference, params) ==
    /\ reference > 0
    /\ height > 0
    /\ AtLeastShare(height, params.min_height_fraction, reference)

\* Some candle after a position comes back to a level, give or take a share of
\* the height.
ComesBack(closed, side, after, level, tolerance, height) ==
    \E n \in (after + 1) .. Len(closed) :
        AtMostShare(level - SignedExtreme(side, closed[n]), tolerance, height)

\* A figure may begin at an extreme that "least" swings go on from, itself
\* included; it is read from "most" of them, or as many as there are.
MayBegin(swings, n, side, least) ==
    n + least - 1 <= Len(swings) /\ swings[n].kind = ExtremeKind(side)

Window(swings, n, most) == SubSeq(swings, n, Min({n + most - 1, Len(swings)}))

Neckline(from, to, contacts) ==
    [role |-> "NECKLINE",
     points |-> <<Point(from.at, from.price), Point(to.at, to.price)>>,
     contacts |-> {p.at : p \in contacts}]

\* horizontal_neckline
LevelNeckline(from, to, price, contacts) ==
    Neckline([from EXCEPT !.price = price], [to EXCEPT !.price = price], contacts)

\* candidate: what is told of a judged figure, if it was judged to be one.
Candidate(closed, start, judged, points, boundaries, codes, t) ==
    [n \in DOMAIN judged |->
        Evaluation(closed, start, judged[n], points, boundaries, codes,
                   Timing(closed, points, judged[n], <<>>), t)]

Anchors(window) == [n \in DOMAIN window |-> Anchor(window[n])]

-----------------------------------------------------------------------------
(* Doubles: peak, trough and a comparable peak *)

DoubleFigure(closed, side, window, t) ==
    LET params == ReversalParams
        at(n) == PositionOf(closed, window[n].at)
        peaks == OfKind(window, ExtremeKind(side))
        height == MeanLevel(side, peaks) - Signed(side, window[2].price)
        rise == Signed(side, Last(peaks).price) - Signed(side, Head(peaks).price)
        whole == Len(window) = 3
        complete == whole /\ AtMostShare(Abs(rise), params.level_tolerance, height)
        judged ==
          IF whole /\ ~complete
          THEN <<Invalid(IF rise > 0 THEN "ANCHOR_EXCEEDED" ELSE "GEOMETRY_BROKEN")>>
          ELSE Judge(closed,
                 [side |-> side, params |-> params, start |-> at(1),
                  exceedFrom |-> at(2) + 1, extreme |-> FurthestPrice(side, peaks),
                  breakoutFrom |-> (IF complete THEN at(3) ELSE Len(closed)) + 1,
                  complete |-> complete,
                  forming |-> ~whole /\ ComesBack(closed, side, at(2),
                                 Signed(side, window[1].price),
                                 params.level_tolerance, height),
                  line |-> Level(window[2].price), height |-> height,
                  expires |-> 0, role |-> "NECKLINE"])
        reference == ReferenceRange(closed, at(1), params.range_window_candles)
    IN  IF TallEnough(height, reference, params)
        THEN Candidate(closed, at(1), judged, Anchors(window),
               IF complete THEN {LevelNeckline(window[2], Last(window), window[2].price,
                                               {window[2]})}
               ELSE {}, {"EXTREME_LEVELS"}, t)
        ELSE <<>>

DoubleFigures(closed, swings, side, t) ==
    FlattenSeq([n \in DOMAIN swings |->
                   IF MayBegin(swings, n, side, 2)
                   THEN DoubleFigure(closed, side, Window(swings, n, 3), t) ELSE <<>>])

-----------------------------------------------------------------------------
(* Triples: three peaks that agree and two troughs that do *)

TripleFigure(closed, side, window, t) ==
    LET params == ReversalParams
        at(n) == PositionOf(closed, window[n].at)
        level(n) == Signed(side, window[n].price)
        peaks == OfKind(window, ExtremeKind(side))
        mean == MeanLevel(side, peaks)
        height == mean - MeanLevel(side, OfKind(window, OppositeKind(side)))
        near(gap) == AtMostShare(Abs(gap), params.level_tolerance, height)
        agree == near(level(1) - mean) /\ near(level(3) - mean) /\ near(level(2) - level(4))
        whole == Len(window) = 5
        complete == whole /\ near(level(5) - mean)
        neckline == Signed(side, Min({level(2), level(4)}))
        judged ==
          IF whole /\ ~complete
          THEN <<Invalid(IF level(5) > Max({level(1), level(3)})
                         THEN "ANCHOR_EXCEEDED" ELSE "GEOMETRY_BROKEN")>>
          ELSE Judge(closed,
                 [side |-> side, params |-> params, start |-> at(1),
                  exceedFrom |-> at(2) + 1, extreme |-> FurthestPrice(side, peaks),
                  breakoutFrom |-> (IF complete THEN at(5) ELSE Len(closed)) + 1,
                  complete |-> complete,
                  forming |-> ~whole /\ ComesBack(closed, side, at(4), mean,
                                                  params.level_tolerance, height),
                  line |-> Level(neckline), height |-> height,
                  expires |-> 0, role |-> "NECKLINE"])
        reference == ReferenceRange(closed, at(1), params.range_window_candles)
    IN  IF TallEnough(height, reference, params) /\ agree
        THEN Candidate(closed, at(1), judged, Anchors(window),
               IF complete THEN {LevelNeckline(window[2], window[5], neckline,
                                               {window[2], window[4]})}
               ELSE {}, {"EXTREME_LEVELS"}, t)
        ELSE <<>>

TripleFigures(closed, swings, side, t) ==
    FlattenSeq([n \in DOMAIN swings |->
                   IF MayBegin(swings, n, side, 4)
                   THEN TripleFigure(closed, side, Window(swings, n, 5), t) ELSE <<>>])

-----------------------------------------------------------------------------
(* Head and shoulders: a head that stands out over a neckline that may slope *)

ShouldersFigure(closed, side, window, t) ==
    LET params == ReversalParams
        at(n) == PositionOf(closed, window[n].at)
        level(n) == Signed(side, window[n].price)
        neckline == LineThrough(window[2], window[4])
        height == level(3) - Signed(side, PriceAt(neckline, OpenTime(window[3].at)))
        whole == Len(window) = 5
        shoulder == IF whole THEN Max({level(1), level(5)}) ELSE level(1)
        belowHead == whole => level(5) < level(3)
        standsOut == AtLeastShare(level(3) - shoulder, params.head_prominence, height)
        complete == /\ whole
                    /\ AtMostShare(Abs(level(1) - level(5)),
                                   params.shoulder_tolerance, height)
                    /\ level(5) < level(3)
        judged ==
          IF whole /\ ~complete
          THEN <<Invalid(IF level(5) >= level(3)
                         THEN "ANCHOR_EXCEEDED" ELSE "GEOMETRY_BROKEN")>>
          ELSE Judge(closed,
                 [side |-> side, params |-> params, start |-> at(1),
                  exceedFrom |-> at(3) + 1, extreme |-> window[3].price,
                  breakoutFrom |-> (IF complete THEN at(5) ELSE Len(closed)) + 1,
                  complete |-> complete,
                  forming |-> ~whole /\ ComesBack(closed, side, at(4), level(1),
                                                  params.shoulder_tolerance, height),
                  line |-> neckline, height |-> height,
                  expires |-> 0, role |-> "NECKLINE"])
        reference == ReferenceRange(closed, at(1), params.range_window_candles)
    IN  IF TallEnough(height, reference, params) /\ (belowHead => standsOut)
        THEN Candidate(closed, at(1), judged, Anchors(window),
               IF complete THEN {Neckline(window[2], window[4],
                                          {window[2], window[4]})}
               ELSE {}, {"HEAD_AND_SHOULDERS"}, t)
        ELSE <<>>

ShouldersFigures(closed, swings, side, t) ==
    FlattenSeq([n \in DOMAIN swings |->
                   IF MayBegin(swings, n, side, 4)
                   THEN ShouldersFigure(closed, side, Window(swings, n, 5), t) ELSE <<>>])

-----------------------------------------------------------------------------
(* The parabola of the rounded figures *)

SumOver(n, f(_)) == FoldFunction(+, 0, [x \in 0 .. (n - 1) |-> f(x)])

\* The two polynomials that, over n points, are orthogonal to each other and to
\* a constant, in small whole numbers.
Tilt(n, x) == 2 * x - (n - 1)
Bend(n, x) ==
    IF n % 3 = 0 THEN 3 * x * (x - n + 1) + ((n - 1) * (n - 2)) \div 2
    ELSE x * (x - n + 1) + ((n - 1) * (n - 2)) \div 6

\* quadratic_fit: the parabola through some levels, as the sign of its curvature
\* and the share of their variance that it explains, a fraction; nothing if
\* there is nothing to fit.  It does not depend on the unit of the levels.
QuadraticFit(levels) ==
    LET n == Len(levels)
        y(x) == (levels[x + 1] - levels[1]) \div PriceTick
        mean == SumOver(n, y)
        tilt == SumOver(n, LAMBDA x : Tilt(n, x) * y(x))
        bend == SumOver(n, LAMBDA x : Bend(n, x) * y(x))
        tilts == SumOver(n, LAMBDA x : Tilt(n, x) * Tilt(n, x))
        bends == SumOver(n, LAMBDA x : Bend(n, x) * Bend(n, x))
        total == n * SumOver(n, LAMBDA x : y(x) * y(x)) - mean * mean
    IN  IF n < 3 \/ ToSet(levels) = {levels[1]} THEN <<>>
        ELSE <<[curvature |-> bend,
                explained |-> n * (tilt * tilt * bends + bend * bend * tilts),
                of |-> total * tilts * bends]>>

FollowsParabola(fit) ==
    \A f \in ToSet(fit) : AtLeastShare(f.explained, ReversalParams.arc_fit_min, f.of)

\* The share of candles that close in the top quarter of the height.
DwellsOnTop(closed, side, from, to, apex, height) ==
    AtLeastShare(
        Cardinality({n \in from .. to :
                        4 * (apex - Signed(side, closed[n].close)) <= height}),
        ReversalParams.min_top_dwell, to - from + 1)

-----------------------------------------------------------------------------
(* Rounded tops and bottoms *)

ArcFit(closed, side, from, to) ==
    QuadraticFit([n \in 1 .. (to - from + 1) |->
                     Signed(side, closed[from + n - 1].close)])

\* A swing the climb to the apex may have begun at.
BeginsArc(closed, side, left, apex) ==
    LET params == ReversalParams
        from == PositionOf(closed, left.at)
        to == PositionOf(closed, apex.at)
        rise == Signed(side, apex.price) - Signed(side, left.price)
        fit == ArcFit(closed, side, from, to)
    IN  /\ to - from <= params.max_arc_candles
        /\ to - from >= params.min_arc_candles \div 2
        /\ TallEnough(rise, ReferenceRange(closed, from, params.range_window_candles),
                      params)
        /\ fit # <<>> /\ Head(fit).curvature < 0 /\ FollowsParabola(fit)
        /\ DwellsOnTop(closed, side, from, to, Signed(side, apex.price), rise)

\* The right end: the first close back at the level of the left end; none if the
\* price goes above the apex first.  A position, 0 for not yet, or -1 for never.
RightEnd(closed, side, from, apexAt, left, apex, height) ==
    LET params == ReversalParams
        reach == (apexAt + 1) .. Min({Len(closed), from + params.max_arc_candles})
        above == Earliest({n \in reach :
                    SignedExtreme(side, closed[n]) > Signed(side, apex.price)})
        back == Earliest({n \in reach :
                    AtMostShare(Signed(side, closed[n].close) - Signed(side, left.price),
                                params.level_tolerance, height)})
    IN  CASE above # 0 /\ (back = 0 \/ above <= back) -> -1
          [] back # 0 /\ (above = 0 \/ back < above) -> back
          [] OTHER -> IF Len(closed) - from >= params.max_arc_candles THEN -1 ELSE 0

\* The arc from its left end to its right end is one.
IsArc(closed, side, from, apexAt, right, left, apex, height) ==
    LET params == ReversalParams
        fit == ArcFit(closed, side, from, right)
    IN  /\ AtMostShare(Signed(side, left.price) - Signed(side, closed[right].close),
                       params.level_tolerance, height)
        /\ right - from + 1 >= params.min_arc_candles
        /\ AtLeastShare(apexAt - from, params.apex_position_band, right - from)
        /\ AtLeastShare(right - apexAt, params.apex_position_band, right - from)
        /\ fit # <<>> /\ FollowsParabola(fit)
        /\ DwellsOnTop(closed, side, from, right, Signed(side, apex.price), height)

RoundingEvaluation(closed, side, left, apex, right, t) ==
    LET from == PositionOf(closed, left.at)
        complete == right # 0
        end == [at |-> closed[right].at, kind |-> OppositeKind(side),
                price |-> Extreme(OppositeKind(side), closed[right]),
                confirmed |-> CloseTime(closed[right].at)]
        points == <<Anchor(left), Anchor(apex)>> \o (IF complete THEN <<end>> ELSE <<>>)
        judged ==
          Judge(closed,
            [side |-> side, params |-> ReversalParams,
             start |-> IF complete THEN right ELSE PositionOf(closed, apex.at),
             exceedFrom |-> PositionOf(closed, apex.at) + 1, extreme |-> apex.price,
             breakoutFrom |-> (IF complete THEN right ELSE Len(closed)) + 1,
             complete |-> complete, forming |-> ~complete,
             line |-> Level(left.price),
             height |-> Signed(side, apex.price) - Signed(side, left.price),
             expires |-> 0, role |-> "BASE"])
    IN  Candidate(closed, from, judged, points,
          IF complete
          THEN {[role |-> "BASE", points |-> <<Point(left.at, left.price), Point(end.at, left.price)>>,
                 contacts |-> {left.at, end.at}],
                [role |-> "ARC", points |-> <<Point(left.at, left.price), Point(apex.at, apex.price),
                                            Point(end.at, end.price)>>,
                 contacts |-> {apex.at}]}
          ELSE {}, {"ROUNDING_ARC"}, t)

\* A candidate once its right end is known, if it will have one and is an arc.
RoundingArc(closed, side, left, apex, t) ==
    LET from == PositionOf(closed, left.at)
        apexAt == PositionOf(closed, apex.at)
        height == Signed(side, apex.price) - Signed(side, left.price)
        right == RightEnd(closed, side, from, apexAt, left, apex, height)
    IN  IF \/ right = -1
           \/ right > 0 /\ ~IsArc(closed, side, from, apexAt, right, left, apex, height)
        THEN <<>>
        ELSE RoundingEvaluation(closed, side, left, apex, right, t)

\* The arc begins at the oldest swing it can begin at, so the figure keeps its
\* identity when its right side appears.
RoundingFigure(closed, side, swings, position, t) ==
    LET apex == swings[position]
        lefts == {n \in 1 .. (position - 1) :
                     /\ swings[n].kind = OppositeKind(side)
                     /\ BeginsArc(closed, side, swings[n], apex)}
    IN  IF lefts = {} THEN <<>>
        ELSE RoundingArc(closed, side, swings[Min(lefts)], apex, t)

RoundingFigures(closed, swings, side, t) ==
    FlattenSeq([n \in DOMAIN swings |->
                   IF swings[n].kind = ExtremeKind(side)
                   THEN RoundingFigure(closed, side, swings, n, t) ELSE <<>>])

=============================================================================
