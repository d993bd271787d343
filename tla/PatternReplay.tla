--------------------------- MODULE PatternReplay ----------------------------
(***************************************************************************)
(* The figures of one series as its candles close, one by one              *)
(* (pattern_detection.py: PatternDetector.detect and replay_detector), for *)
(* several detectors at once.  A candle may be missing for good, and may   *)
(* reach Freyja after it closed.                                           *)
(***************************************************************************)
EXTENDS PatternHypothesis

CONSTANTS
    Openings,     \* how a series may begin, what it may go on with and the
                  \* figures that are looked for in it
    Further,      \* bound: intervals that pass after its beginning
    MaxMissing    \* bound: candles that never come

\* A candle but for its place: its prices, and how long after its close it is
\* received, if that is recorded.
PlannedCandle ==
    [shape : [open : Int, low : Int, high : Int, close : Int], delay : Seq(Nat)]

ASSUME ReplayAssumption ==
    /\ \A o \in Openings : /\ o.watched \subseteq PatternType
                           /\ o.candles \in Seq(PlannedCandle)
                           /\ o.further \subseteq PlannedCandle
    /\ Further \in Nat /\ MaxMissing \in Nat

VARIABLES
    opening,   \* how this series begins, may go on and is looked at
    now,       \* intervals that have passed: the index of the next candle
    closed,    \* the candles that closed and came, oldest first
    figures,   \* the figures, by identity: the sequence of their evaluations
    raised     \* the replay ended in an error

vars == <<opening, now, closed, figures, raised>>

-----------------------------------------------------------------------------

SideOf(type) == IF type \in {"DOUBLE_TOP", "TRIPLE_TOP", "HEAD_AND_SHOULDERS_TOP",
                            "ROUNDING_TOP"} THEN "TOP" ELSE "BOTTOM"

\* The figures of a kind that some candles and their swings show.
Find(type, seen, swings, t) ==
    CASE type \in {"DOUBLE_TOP", "DOUBLE_BOTTOM"} ->
            DoubleFigures(seen, swings, SideOf(type), t)
      [] type \in {"TRIPLE_TOP", "TRIPLE_BOTTOM"} ->
            TripleFigures(seen, swings, SideOf(type), t)
      [] type \in {"HEAD_AND_SHOULDERS_TOP", "HEAD_AND_SHOULDERS_BOTTOM"} ->
            ShouldersFigures(seen, swings, SideOf(type), t)
      [] type \in {"ROUNDING_TOP", "ROUNDING_BOTTOM"} ->
            RoundingFigures(seen, swings, SideOf(type), t)
      [] type \in Masts -> MastFigures(seen, swings, type, t)
      [] type = "DIAMOND" -> DiamondFigures(seen, swings, t)
      [] OTHER -> ChannelFigures(seen, swings, type, t)

\* DiamondDetector.detect reads only what had been received.
MayRead(type, c, t) ==
    \/ type # "DIAMOND" \/ ~Receipts
    \/ \E s \in ToSet(c.seen) : s <= t

Seen(type, candles, t) ==
    IF type = "DIAMOND" /\ Receipts
    THEN FlattenSeq([n \in DOMAIN candles |->
                        IF \E s \in ToSet(candles[n].seen) : s <= t
                        THEN <<candles[n]>> ELSE <<>>])
    ELSE candles

\* PatternDetector.detect: candidates only from data that is fit to judge.
Detect(type, candles, t) ==
    LET seen == Seen(type, candles, t)
        unfit == MissingDataReasons({c.at : c \in ToSet(seen)}, t, TrendHistory)
    IN  [candidates |->
            IF unfit # {} THEN <<>>
            ELSE Find(type, seen, SwingPoints(DetectPivots(SeriesOf(seen))), t),
         unfit |-> unfit,
         asOf |-> IF seen = <<>> THEN <<>> ELSE <<CloseTime(Last(seen).at)>>]

\* What a detector saw carries its own figures to t.  An evaluation that is not
\* valid cannot be built.
Carry(type, result, t) ==
    LET own == [id \in {x \in DOMAIN figures : x.type = type} |-> figures[id]]
        after == UpdateInstances(own, type, result, t)
    IN  [figures |-> after.figures,
         raised |-> \/ after.raised
                    \/ \E e \in ToSet(result.candidates) : ~ValidEvaluation(e)]

\* The figures of all detectors.
Joined(carried) ==
    LET known == UNION {DOMAIN carried[type].figures : type \in DOMAIN carried}
    IN  [figures |-> [id \in known |-> carried[id.type].figures[id]],
         raised |-> \E type \in DOMAIN carried : carried[type].raised]

Evaluate(candles, t) ==
    Joined([type \in opening.watched |-> Carry(type, Detect(type, candles, t), t)])

-----------------------------------------------------------------------------

Init ==
    /\ opening \in Openings
    /\ now = 0
    /\ closed = <<>>
    /\ figures = <<>>
    /\ raised = FALSE

\* The next candle, but for its place, and when it is received if that is
\* recorded.
NextCandles ==
    LET n == now + 1
        next == IF n <= Len(opening.candles) THEN {opening.candles[n]} ELSE opening.further
        arrives(delay) == IF Receipts
                          THEN [k \in DOMAIN delay |-> CloseTime(now) + delay[k]]
                          ELSE <<>>
    IN  {[at |-> now, open |-> c.shape.open, low |-> c.shape.low, high |-> c.shape.high,
          close |-> c.shape.close, seen |-> arrives(c.delay)] : c \in next}

\* A candle closes and comes; the detectors look once there is enough history.
CandleCloses ==
    /\ ~raised /\ now < Len(opening.candles) + Further
    /\ \E candle \in NextCandles :
          LET candles == Append(closed, candle)
          IN  \E after \in {IF Len(candles) < TrendHistory
                            THEN [figures |-> figures, raised |-> FALSE]
                            ELSE Evaluate(candles, CloseTime(now))} :
                 /\ closed' = candles
                 /\ figures' = after.figures
                 /\ raised' = after.raised
    /\ now' = now + 1
    /\ UNCHANGED opening

\* A candle never comes; nothing looks until the next one does.
CandleIsMissing ==
    /\ ~raised /\ now < Len(opening.candles) + Further
    /\ now >= Len(opening.candles)
    /\ now - Len(closed) < MaxMissing
    /\ now' = now + 1
    /\ UNCHANGED <<opening, closed, figures, raised>>

-----------------------------------------------------------------------------
(* Properties *)

\* A detector saw two figures of one identity at once: two apexes over one left
\* end.
AreTwins(type, found) ==
    \E m, n \in DOMAIN found :
       m < n /\ InstanceId(type, found[m]) = InstanceId(type, found[n])

Twins ==
    \E type \in opening.watched :
       AreTwins(type, Detect(type, closed, CloseTime(now - 1)).candidates)

\* update_instances and PatternEvaluation: carrying figures forward never fails,
\* but for two candidates of one identity at one instant.
OnlyTwinsEndAReplay == raised => Twins

\* What a detector sees of a figure at this instant.
SeenNow(id, t) ==
    {e \in ToSet(Detect(id.type, closed', t).candidates) : InstanceId(id.type, e) = id}

\* left_the_lines reads the closes up to the last contact and no further.  A swing
\* from before a breakout that is confirmed after it, as only one of K > 1 candles
\* can be, may so become a contact after all, and the breakout be read again.
TouchedLate(evaluations, candles) ==
    \E swing \in Confirmed(DetectPivots(SeriesOf(candles))) :
    \E broke \in {e \in ToSet(evaluations) : e.state \in BreakoutStates} :
       /\ Last(broke.anchors).at < swing.at
       /\ \E opened \in ToSet(broke.timing.opened) : OpenTime(swing.at) < opened
       /\ broke.at < CloseTime(swing.at + K)
       /\ CloseTime(swing.at + K) <= Last(evaluations).at

\* update_instances takes the refusal of an evaluation for a change of anchors: no
\* figure is superseded for any other reason but that its breakout is gone with
\* a late contact.
SupersededMeansOtherAnchors ==
    [][\A id \in DOMAIN figures :
          LET before == Last(figures[id])
              after == Last(figures'[id])
          IN  after # before /\ after.reasons = {"SUPERSEDED"} =>
                 \/ \E e \in SeenNow(id, after.at) : ~IsPrefix(before.anchors, e.anchors)
                 \/ TouchedLate(figures'[id], closed')
      ]_vars

\* The detectors looked for the first time once there was enough history.
FirstLook == CloseTime(closed[TrendHistory].at)

\* What a figure is made of, up to what confirms its last anchor, of the candles
\* that its detector could read.  A candle of a diamond that came too late for that
\* is a hole nobody looks for once it is older than min_history.
MadeOf(type, e) ==
    {c \in ToSet(closed) : /\ MayRead(type, c, e.at)
                           /\ Head(e.anchors).at <= c.at
                           /\ CloseTime(c.at) <= Last(e.anchors).confirmed}

\* hypothesis_for and known_at_of: a claim is operable only if every candle of the
\* figure had been received before the candle that broke out opened.
OperableWasReceived ==
    \A id \in DOMAIN figures :
       \A claim \in ToSet(HypothesisFor(id, figures)) :
          claim.operability = "OPERABLE" =>
             \E broke \in ToSet(figures[id]) :
                /\ broke.at <= claim.at
                /\ \E opened \in ToSet(broke.timing.opened) :
                   \A c \in MadeOf(id.type, broke) :
                      \E received \in ToSet(c.seen) : received <= opened

\* A claim is operable only if the figure was on record with the anchors it broke
\* out with before the candle that broke out opened, if the detectors were looking
\* by then.
OperableWasOnRecord ==
    \A id \in DOMAIN figures :
       \A claim \in ToSet(HypothesisFor(id, figures)) :
          claim.operability = "OPERABLE" =>
             \E m \in DOMAIN figures[id] :
                LET broke == figures[id][m]
                IN  /\ broke.at <= claim.at
                    /\ \E opened \in ToSet(broke.timing.opened) :
                          opened >= FirstLook =>
                             \E n \in 1 .. (m - 1) :
                                /\ figures[id][n].at <= opened
                                /\ figures[id][n].state = "GEOMETRICALLY_VALID"
                                /\ figures[id][n].anchors = broke.anchors

\* A claim that was made does not become operable, and does not stop being so
\* unless its figure was touched late.
OperabilityIsSettled ==
    \A id \in DOMAIN figures :
       \A a, b \in ToSet(HypothesisFor(id, figures)) :
          a.at < b.at /\ a.operability # b.operability =>
             b.operability # "OPERABLE" /\ TouchedLate(figures[id], closed)

\* PatternInstance: what was said of a figure stays said.  Evaluations are only
\* added, later than the last, with the anchors it had and perhaps more, and none
\* after one that ends the figure.
FiguresAreNeverRewritten ==
    [][\A id \in DOMAIN figures :
          LET before == figures[id]
              after == figures'[id]
          IN  /\ IsPrefix(before, after)
              /\ IsTerminal(before) => after = before
              /\ \A n \in (Len(before) + 1) .. Len(after) :
                    /\ after[n].at > after[n - 1].at
                    /\ IsPrefix(after[n - 1].anchors, after[n].anchors)]_vars

Next == CandleCloses \/ CandleIsMissing

Spec == Init /\ [][Next]_vars

=============================================================================
