---------------------------- MODULE CandleReplay -----------------------------
(***************************************************************************)
(* The candle patterns of a series as its candles close, beside its        *)
(* figures.  Where a pattern stands may be asked at any close, for the     *)
(* first time or again; what was told before goes with the question.       *)
(***************************************************************************)
EXTENDS PatternReplay, CandleLocation

ASSUME SpottedAssumption == \A o \in Openings : o.spotted \subseteq CandlePatternType

VARIABLES
    places,    \* the location of the patterns that were asked for, by identity
    misplaced  \* a location could not be told

candleVars == <<opening, now, closed, figures, raised, places, misplaced>>

-----------------------------------------------------------------------------

CandleInit ==
    /\ Init
    /\ places = <<>>
    /\ misplaced = FALSE

NextClose == (CandleCloses \/ CandleIsMissing) /\ ~misplaced /\ UNCHANGED <<places, misplaced>>

\* The patterns that are watched, in what has closed.
Spotted(candles) == {p \in CandlePatternsOf(candles) : p.type \in opening.spotted}

\* The location of a pattern is asked for now.
Locate ==
    /\ ~raised /\ ~misplaced /\ closed # <<>>
    /\ \E p \in Spotted(closed) :
          LET id == PatternId(p)
              previous == IF id \in DOMAIN places THEN places[id] ELSE <<>>
              t == CloseTime(now - 1)
              after == AdvanceLocation(previous,
                         LocationEvaluation(closed, figures, p, previous, t))
          IN  /\ after # <<previous>>
              /\ misplaced' = (after = <<>>)
              /\ places' = IF after = <<>> THEN places
                           ELSE [x \in DOMAIN places \cup {id} |->
                                    IF x = id THEN after[1] ELSE places[x]]
    /\ UNCHANGED <<opening, now, closed, figures, raised>>

CandleNext == NextClose \/ Locate

CandleSpec == CandleInit /\ [][CandleNext]_candleVars

-----------------------------------------------------------------------------
(* Properties *)

\* detect_single_candle_patterns: what was read off a candle stays as more
\* candles close, names, states and ambiguous geometries alike.
ReadingsAreNotRevised ==
    [][/\ Spotted(closed) \subseteq Spotted(closed')
       /\ AmbiguousOf(closed) \subseteq AmbiguousOf(closed')]_candleVars

\* The claim of a pattern as it stands.
ClaimOf(p, pool, located) ==
    CandleHypothesisFor(p, pool,
        IF PatternId(p) \in DOMAIN located THEN located[PatternId(p)] ELSE <<>>)

\* hypothesis_for: once its location was told, the claim of a pattern is what it
\* will be: later patterns, levels and data do not reach back into it.
CandleClaimsAreSettled ==
    [][\A p \in Spotted(closed) :
          PatternId(p) \in DOMAIN places =>
             ClaimOf(p, CandlePatternsOf(closed'), places')
               = ClaimOf(p, CandlePatternsOf(closed), places)]_candleVars

\* classify_trend: one more candle never turns an uptrend into a downtrend, nor
\* back: a trend ends through a transition, a range or a lack of data.
TrendOf(candles) ==
    IF candles = <<>> THEN "INSUFFICIENT_DATA"
    ELSE ClassifyTrend(SeriesOf(candles), CloseTime(Last(candles).at))

TrendNeverFlips ==
    [][{TrendOf(closed), TrendOf(closed')} # {"UPTREND", "DOWNTREND"}]_candleVars

=============================================================================
