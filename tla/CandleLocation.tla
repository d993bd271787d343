--------------------------- MODULE CandleLocation ----------------------------
(***************************************************************************)
(* Where a candle pattern stands relative to the levels Freyja could know  *)
(* (domain/candlestick_location.py), and the claim a confirmed pattern     *)
(* gives rise to (domain/candlestick_hypothesis.py).  A location is the    *)
(* sequence of its evaluations.                                            *)
(***************************************************************************)
EXTENDS CandlePatterns, PatternHypothesis

CONSTANT LocationDistance   \* LocationParams.max_distance_fraction

ASSUME LocationAssumption == IsFraction(LocationDistance)

-----------------------------------------------------------------------------
(* Levels and when they were known *)

\* worst_operability
Worst(operabilities) ==
    CASE "UNPROVEN" \in operabilities -> "UNPROVEN"
      [] "UNPROVEN" \notin operabilities /\ "RETROSPECTIVE" \in operabilities ->
            "RETROSPECTIVE"
      [] OTHER -> "OPERABLE"

\* _pivot_candidates: "of" tells levels of one price apart.
PivotLevels(closed, cutoff) ==
    {[of |-> [pivot |-> p.kind, at |-> p.at], price |-> p.price, known |-> CloseTime(p.at + K),
      published |-> <<>>, provenance |-> <<>>, operability |-> "OPERABLE"] :
        p \in {x \in Confirmed(DetectPivots(SeriesOf(closed))) :
                  CloseTime(x.at + K) <= cutoff}}

\* _boundary_price_at: the line through its ends; an arc is no line.
BoundaryPrice(b, t) ==
    LET from == Head(b.points)
        to == Last(b.points)
    IN  IF b.role = "ARC" \/ from.at = to.at THEN <<>>
        ELSE <<PriceAt(Line(OpenTime(from.at), from.price, OpenTime(to.at), to.price), t)>>

\* _figure_candidates: the boundaries a figure has now, if it was known, and
\* offered, by the cutoff.
FigureLevels(figures, at, cutoff) ==
    UNION {LET e == Last(figures[id])
           IN  {[of |-> [figure |-> id, boundary |-> b], price |-> BoundaryPrice(b, at)[1],
                 known |-> e.timing.known[1], published |-> e.timing.published,
                 provenance |-> e.timing.provenance,
                 operability |-> OperabilityOf(EvidenceProvenance(e))] :
                   b \in {x \in e.boundaries : BoundaryPrice(x, at) # <<>>}} :
             id \in {x \in DOMAIN figures :
                        LET timing == Last(figures[x]).timing
                        IN  /\ timing.known # <<>>
                            /\ timing.known[1] <= cutoff
                            /\ \A p \in ToSet(timing.published) : p <= cutoff}}

-----------------------------------------------------------------------------
(* One evaluation *)

ReferencePrice(p) == Last(p.anchors).close
AnchorSpan(p) == Max({c.high : c \in ToSet(p.anchors)}) - Min({c.low : c \in ToSet(p.anchors)})

EarlierOf(asOf, t) == [n \in DOMAIN asOf |-> Min({asOf[n], t})]

\* _build_evaluation: dated when the last of the levels it counts was known.
Placed(closed, figures, p, cutoff, asOf, t) ==
    LET levels == PivotLevels(closed, cutoff) \cup FigureLevels(figures, p.at, cutoff)
        distance(l) == Abs(l.price - ReferencePrice(p))
        near == {l \in levels : AtMostShare(distance(l), LocationDistance, AnchorSpan(p))}
        at == Max({p.at} \cup {l.known : l \in levels}
                    \cup UNION {ToSet(l.published) : l \in levels})
    IN  [at |-> at, asOf |-> EarlierOf(asOf, at), computed |-> t, missing |-> {},
         state |-> IF near # {} THEN "NEAR_LEVEL" ELSE "NOT_NEAR_LEVEL", levels |-> near,
         checked |-> IF near # {} THEN <<>>
                     ELSE <<Cardinality(levels), {distance(l) : l \in levels}>>,
         operability |-> IF near # {} THEN Worst({l.operability : l \in near})
                         ELSE "OPERABLE"]

Unplaced(missing, cutoff, asOf, t) ==
    [at |-> cutoff, asOf |-> EarlierOf(asOf, cutoff), computed |-> t,
     missing |-> missing, state |-> "INSUFFICIENT_DATA", levels |-> {},
     checked |-> <<>>, operability |-> "OPERABLE"]

\* _same_content; of the levels that were checked only their number and the
\* closest are told.
SamePlace(before, after) ==
    LET closest(e) == IF e.checked = <<>> \/ e.checked[2] = {} THEN <<>>
                      ELSE <<Min(e.checked[2])>>
        count(e) == IF e.checked = <<>> THEN 0 ELSE e.checked[1]
    IN  /\ before.state = after.state
        /\ before.missing = after.missing
        /\ before.levels = after.levels
        /\ count(before) = count(after) /\ closest(before) = closest(after)

\* evaluate_location at t: the first evaluation reads what was known at the
\* pattern's own instant, a later one what is known by now.
LocationEvaluation(closed, figures, p, previous, t) ==
    LET cutoff == IF previous = <<>> THEN p.at ELSE t
        asOf == <<CloseTime(Last(closed).at)>>
        missing == MissingDataReasons({c.at : c \in ToSet(closed)}, t, TrendHistory)
    IN  IF missing # {} THEN Unplaced(missing, cutoff, asOf, t)
        ELSE Placed(closed, figures, p, cutoff, asOf, t)

\* _advance: what says nothing new is dropped; what is new must be later than the
\* last, or the location cannot be built.  Empty when the code raises.
AdvanceLocation(previous, e) ==
    IF previous = <<>> THEN <<<<e>>>>
    ELSE IF SamePlace(Last(previous), e) THEN <<previous>>
    ELSE IF e.at > Last(previous).at THEN <<Append(previous, e)>>
    ELSE <<>>

-----------------------------------------------------------------------------
(* The claim of a confirmed pattern *)

\* _related_candles: the other patterns with a fixed bias, confirmed by then.
RelatedCandles(p, pool) ==
    {q \in pool : /\ PatternId(q) # PatternId(p)
                  /\ q.at <= p.at
                  /\ q.state = "CONFIRMED" /\ FixedBias(q.type) # {}}

\* Mistake: a claim reads the location that was told last.
LocationOfNow(location, t) == IF location = <<>> THEN <<>> ELSE <<Last(location)>>

\* _location_as_of
LocationAsOf(location, t) ==
    LET known == {n \in DOMAIN location : location[n].at <= t}
    IN  IF known = {} THEN <<>> ELSE <<location[Max(known)]>>

\* hypothesis_for: a pattern has one evaluation, and if it is confirmed one claim.
\* Nothing proves when Freyja had its candles, so it is never operable.
CandleHypothesisFor(p, pool, location) ==
    LET bias == FixedBias(p.type)
        related == IF bias = {} THEN {} ELSE RelatedCandles(p, pool)
        place == LocationAsOf(location, p.at)
    IN  IF p.state # "CONFIRMED" THEN <<>>
        ELSE <<[at |-> p.at, bias |-> bias,
                supporting |-> {PatternId(q) : q \in {x \in related : FixedBias(x.type) = bias}},
                conflicting |-> {PatternId(q) : q \in {x \in related : FixedBias(x.type) # bias}},
                location |-> [n \in DOMAIN place |->
                                 [state |-> place[n].state, at |-> place[n].at,
                                  operability |-> place[n].operability]],
                operability |-> Worst({"UNPROVEN"} \cup {e.operability : e \in ToSet(place)})]>>

=============================================================================
