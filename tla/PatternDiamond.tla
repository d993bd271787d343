-------------------------- MODULE PatternDiamond ----------------------------
(***************************************************************************)
(* The diamond (domain/pattern_diamond.py): an expansion and a contraction *)
(* that share their two vertices.  A diamond that is still one covers the  *)
(* smaller ones inside it; when it goes stale they are let go, and from    *)
(* which instant on is kept apart from when they were known.               *)
(***************************************************************************)
EXTENDS PatternChannel

-----------------------------------------------------------------------------
(* The shape *)

PhaseAccepts(fit, expanding) ==
    LET p == DiamondParams
        up == fit.upperRise
        low == fit.lowerRise
        h == fit.height
    IN  IF expanding
        THEN /\ Rising(up, h, p) /\ Falling(low, h, p)
             /\ StrictlyHigher(fit.highs) /\ StrictlyLower(fit.lows)
        ELSE /\ Falling(up, h, p) /\ Rising(low, h, p)
             /\ StrictlyLower(fit.highs) /\ StrictlyHigher(fit.lows)

Phase(closed, window, expanding) ==
    Accepted(FitChannel(closed, DiamondParams, window,
                        DiamondParams.min_channel_candles, FALSE),
             LAMBDA fit : PhaseAccepts(fit, expanding))

ShapeAt(closed, swings, start, transition) ==
    [window |-> SubSeq(swings, start, transition + 3),
     expansion |-> Phase(closed, SubSeq(swings, start, transition + 1), TRUE),
     contraction |-> Phase(closed, SubSeq(swings, transition, transition + 3), FALSE),
     top |-> Max({swings[transition].price, swings[transition + 1].price}),
     bottom |-> Min({swings[transition].price, swings[transition + 1].price})]

\* _shape: the shortest valid diamond from a swing; the vertices are consecutive
\* swings.
Shape(closed, swings, start) ==
    LET reference == ReferenceRange(closed, PositionOf(closed, swings[start].at),
                                    DiamondParams.range_window_candles)
        isValid(s) == /\ s.expansion # <<>> /\ s.contraction # <<>>
                      /\ TallEnough(s.top - s.bottom, reference, DiamondParams)
        vertices == {n \in (start + 2) .. (Len(swings) - 3) :
                        isValid(ShapeAt(closed, swings, start, n))}
    IN  IF vertices = {} THEN <<>>
        ELSE <<[ShapeAt(closed, swings, start, Min(vertices)) EXCEPT
                   !.expansion = @[1], !.contraction = @[1]]>>

-----------------------------------------------------------------------------
(* Who covers whom, and until when *)

\* When the geometry could first be known: at the last arrival it needs, or when
\* the market had it if arrivals are not recorded.
GeometryKnown(closed, points) ==
    LET known == KnownAtOf(closed, points)
    IN  IF known # <<>> THEN Head(known) ELSE FormedAt(points)

\* covering_until and published_at_of: until when a window up to a swing was
\* covered by diamonds that have gone stale, if that is after it was known.
HeldUntil(closed, released, end, points) ==
    LET covering == {r.freed : r \in {x \in released : x.last >= end}}
    IN  IF covering = {} THEN <<>>
        ELSE IF Max(covering) > GeometryKnown(closed, points) THEN <<Max(covering)>>
        ELSE <<>>

\* _released_at: when a diamond that is over stopped being one; nothing if it
\* never was one for Freyja.
ReleasedAt(closed, shape, j) ==
    LET exit == shape.contraction
        old == shape.expansion.first + DiamondParams.max_age_candles + 1
        stale == IF j.first = 0 /\ exit.expires # 0 THEN Min({old, exit.expires + 1})
                 ELSE old
    IN  IF stale > Len(closed) THEN {}
        ELSE {x \in {SeenAt(closed[stale])} :
                 x > GeometryKnown(closed, Anchors(shape.window))}

-----------------------------------------------------------------------------
(* What is told of it *)

\* _wicks: a wick beyond an exit line before any breakout, or a later swing
\* beyond a vertex.
HasWicks(closed, swings, shape, j) ==
    LET exit == shape.contraction
        stop == IF j.first = 0 THEN Len(closed) ELSE j.first - 1
        until == IF exit.expires = 0 THEN stop ELSE Min({stop, exit.expires})
    IN  \/ \E n \in (exit.last + 1) .. until :
              \/ closed[n].high > PriceAt(exit.upper, CloseTime(closed[n].at))
              \/ closed[n].low < PriceAt(exit.lower, CloseTime(closed[n].at))
        \/ \E p \in ToSet(swings) :
              /\ p.at > Last(shape.window).at
              /\ \/ p.kind = "HIGH" /\ p.price > shape.top
                 \/ p.kind = "LOW" /\ p.price < shape.bottom

\* _additional_contacts: a later swing that goes on contracting and touches an
\* exit line, with every close since the last anchor inside.
HasAdditionalContacts(closed, swings, shape) ==
    LET exit == shape.contraction
        touches(p, line) == AtMostShare(Abs(p.price - PriceAt(line, OpenTime(p.at))),
                                        DiamondParams.contact_tolerance, exit.height)
    IN  \E p \in ToSet(swings) :
           /\ p.at > Last(shape.window).at
           /\ ~LeftTheLines(exit, closed, PositionOf(closed, p.at))
           /\ \/ /\ p.kind = "HIGH" /\ touches(p, exit.upper)
                 /\ p.price < Last(exit.highs).price
              \/ /\ p.kind = "LOW" /\ touches(p, exit.lower)
                 /\ p.price > Last(exit.lows).price

DiamondEvaluation(closed, swings, shape, j, held, t) ==
    LET points == Anchors(shape.window)
    IN  Evaluation(closed, shape.expansion.first, j, points,
          BoundariesOf(shape.expansion) \cup BoundariesOf(shape.contraction),
          {"DIAMOND_PHASES"}
            \cup (IF HasWicks(closed, swings, shape, j)
                  THEN {"WICK_PENETRATIONS"} ELSE {})
            \cup (IF HasAdditionalContacts(closed, swings, shape)
                  THEN {"ADDITIONAL_CONTACTS"} ELSE {}),
          Timing(closed, points, j, held), t)

-----------------------------------------------------------------------------
(* DiamondDetector.find *)

\* A diamond that is not covered and was judged; it covers while it is still one.
TakeJudged(acc, closed, swings, shape, end, j, t) ==
    LET held == HeldUntil(closed, acc.released, end, Anchors(shape.window))
        over == j.state = "INVALIDATED"
    IN  [found |-> Append(acc.found, DiamondEvaluation(closed, swings, shape, j, held, t)),
         covered |-> IF over THEN acc.covered ELSE end,
         released |-> IF ~over THEN acc.released
                      ELSE acc.released \cup
                             {[last |-> end, freed |-> x] : x \in ReleasedAt(closed, shape, j)}]

\* A diamond that was found, unless one that began earlier covers it or it was not
\* judged.
TakeShape(acc, closed, swings, shape, end, t) ==
    LET judged == JudgeChannel(closed, DiamondParams, shape.contraction,
                               shape.expansion.first)
    IN  IF end <= acc.covered \/ judged = <<>> THEN acc
        ELSE TakeJudged(acc, closed, swings, shape, end, judged[1], t)

\* The diamond that begins at a swing, if one does.
TakeStart(acc, closed, swings, start, shape, t) ==
    IF shape = <<>> THEN acc
    ELSE TakeShape(acc, closed, swings, shape[1], start + Len(shape[1].window) - 1, t)

DiamondFigures(closed, swings, t) ==
    LET after[n \in 0 .. Len(swings)] ==
          IF n = 0 THEN [found |-> <<>>, covered |-> 0, released |-> {}]
          ELSE TakeStart(after[n - 1], closed, swings, n, Shape(closed, swings, n), t)
    IN  after[Len(swings)].found

=============================================================================
