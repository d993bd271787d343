------------------------- MODULE CandleReplayProofs --------------------------
(***************************************************************************)
(* What holds of every series, however its candles go on: the past of a    *)
(* figure is never rewritten, what candles were read as is not revised, a  *)
(* claim whose location was told stays as it is, a claim that is operable  *)
(* rests on what had been received, a trend does not flip, and nothing that*)
(* a detector finds ends the replay in an error but two candidates of one  *)
(* identity.  First what each detector finds, from the swings up, then the *)
(* histories of figures, then the replay.                                  *)
(***************************************************************************)
EXTENDS CandleReplay, MarketStructureProofs, SequenceTheorems

-----------------------------------------------------------------------------
(* Candles that closed and their swings *)

ClosedCandle ==
    [at : Nat, open : Int, low : Int, high : Int, close : Int, seen : Seq(Int)]

LEMMA CandlesAre ==
    /\ \A c \in ClosedCandle : /\ c.at \in Nat /\ c.open \in Int /\ c.low \in Int
                               /\ c.high \in Int /\ c.close \in Int /\ c.seen \in Seq(Int)
    /\ \A candles \in Seq(ClosedCandle) :
          /\ \A n \in DOMAIN candles : candles[n] \in ClosedCandle
          /\ ToSet(candles) \subseteq ClosedCandle
<1>1. \A c \in ClosedCandle : /\ c.at \in Nat /\ c.open \in Int /\ c.low \in Int
                               /\ c.high \in Int /\ c.close \in Int /\ c.seen \in Seq(Int)
    BY DEF ClosedCandle
<1>2. ASSUME NEW candles \in Seq(ClosedCandle)
      PROVE  /\ \A n \in DOMAIN candles : candles[n] \in ClosedCandle
             /\ ToSet(candles) \subseteq ClosedCandle
    BY DEF ToSet
<1> QED
    BY <1>1, <1>2

Ats(candles) == {candles[n].at : n \in DOMAIN candles}

LEMMA SeriesAre ==
    ASSUME NEW candles \in Seq(ClosedCandle)
    PROVE  /\ DOMAIN SeriesOf(candles) = Ats(candles)
           /\ IsSeries(SeriesOf(candles))
           /\ \A i \in Ats(candles) : /\ PositionOf(candles, i) \in DOMAIN candles
                                      /\ candles[PositionOf(candles, i)].at = i
<1>1. DOMAIN SeriesOf(candles) = Ats(candles)
    BY DEF SeriesOf, Ats
<1>2. ASSUME NEW i \in Ats(candles)
      PROVE  /\ PositionOf(candles, i) \in DOMAIN candles
             /\ candles[PositionOf(candles, i)].at = i
    <2>1. \E n \in DOMAIN candles : candles[n].at = i
        BY DEF Ats
    <2> QED
        BY <2>1 DEF PositionOf
<1>3. Ats(candles) \in SUBSET Nat
    BY CandlesAre DEF Ats
<1>4. IsFiniteSet(Ats(candles))
    <2> DEFINE f == [n \in DOMAIN candles |-> candles[n].at]
    <2>1. IsFiniteSet(DOMAIN f)
        BY FS_Interval, Len(candles) \in Int, DOMAIN f = 1 .. Len(candles)
    <2>2. Ats(candles) = {f[x] : x \in DOMAIN f}
        BY DEF Ats
    <2>3. f = [x \in DOMAIN f |-> f[x]]
        OBVIOUS
    <2> HIDE DEF f
    <2> QED
        BY <2>1, <2>2, <2>3, FiniteElements
<1>5. \E n \in Nat : Ats(candles) \subseteq 0 .. n
    <2>1. CASE Ats(candles) = {}
        BY <2>1
    <2>2. CASE Ats(candles) # {}
        <3>1. Max(Ats(candles)) \in Nat /\ \A x \in Ats(candles) : x <= Max(Ats(candles))
            BY <1>3, <1>4, <2>2, FiniteIsBounded
        <3> QED
            BY <1>3, <3>1
    <2> QED
        BY <2>1, <2>2
<1>6. ASSUME NEW i \in Ats(candles)
      PROVE  SeriesOf(candles)[i].low \in Int /\ SeriesOf(candles)[i].high \in Int
    <2>1. SeriesOf(candles)[i] = candles[PositionOf(candles, i)]
        BY DEF SeriesOf, Ats
    <2> QED
        BY <1>2, <2>1, CandlesAre
<1> QED
    BY <1>1, <1>2, <1>5, <1>6 DEF IsSeries

\* A later candle closes later, and each opens before it closes.
LEMMA TicksPass ==
    ASSUME NEW i \in Int, NEW j \in Int
    PROVE  /\ CloseTime(i) \in Int
           /\ i < j => CloseTime(i) < CloseTime(j)
<1>1. \A x, y \in Int : x * y \in Int
    OBVIOUS
<1>2. Duration \in Int /\ Duration >= 1
    BY PeriodAssumption
<1>3. CloseTime(i) \in Int /\ CloseTime(j) \in Int
    BY <1>1, <1>2 DEF CloseTime
<1>4. ASSUME i < j
      PROVE  CloseTime(i) < CloseTime(j)
    <2>1. (j + 1) * Duration = (i + 1) * Duration + (j - i) * Duration
        BY <1>2
    <2>2. (j - i) * Duration >= 1
        BY <1>2, <1>4
    <2>3. (j - i) * Duration \in Int
        BY <1>1, <1>2
    <2> QED
        BY <1>3, <2>1, <2>2, <2>3 DEF CloseTime
<1> QED
    BY <1>3, <1>4

\* The candles are in the order they closed in.
AreInOrder(candles) ==
    \A m, n \in DOMAIN candles : m < n => candles[m].at < candles[n].at

\* Candles that had closed by an instant.
HaveClosed(candles, t) ==
    /\ candles \in Seq(ClosedCandle)
    /\ AreInOrder(candles)
    /\ \A n \in DOMAIN candles : CloseTime(candles[n].at) <= t

LEMMA ClosedByThen ==
    ASSUME NEW t \in Int, NEW candles, HaveClosed(candles, t), NEW i \in Ats(candles)
    PROVE  /\ i \in Nat /\ CloseTime(i) <= t /\ OpenTime(i) <= t
<1>1. PICK n \in DOMAIN candles : i = candles[n].at
    BY DEF Ats
<1>2. i \in Nat /\ CloseTime(i) <= t
    BY <1>1, CandlesAre DEF HaveClosed
<1>3. OpenTime(i) = CloseTime(i - 1) /\ CloseTime(i - 1) < CloseTime(i)
      /\ CloseTime(i - 1) \in Int /\ CloseTime(i) \in Int
    <2>1. i - 1 \in Int /\ i \in Int /\ i - 1 < i /\ (i - 1) + 1 = i
        BY <1>2
    <2>2. OpenTime(i) = CloseTime(i - 1)
        BY <2>1 DEF OpenTime, CloseTime
    <2> QED
        BY <2>1, <2>2, TicksPass
<1> QED
    BY <1>2, <1>3

LEMMA CandlesArePast ==
    ASSUME NEW t \in Int, NEW candles, HaveClosed(candles, t), NEW i \in Ats(candles)
    PROVE  CloseTime(i) \in Int /\ OpenTime(i) \in Int
<1>1. i \in Int /\ i - 1 \in Int /\ (i - 1) + 1 = i
    BY ClosedByThen
<1>2. OpenTime(i) = CloseTime(i - 1)
    BY <1>1 DEF OpenTime, CloseTime
<1> QED
    BY <1>1, <1>2, TicksPass

\* Swings that a detector is given: in order, and each confirmed by a candle.
AreSwings(swings, candles) ==
    /\ IsSequence(swings)
    /\ \A n \in DOMAIN swings : /\ swings[n].at \in Ats(candles)
                                /\ swings[n].at + K \in Ats(candles)
                                /\ "at" \in DOMAIN swings[n]
    /\ \A m, n \in DOMAIN swings : m < n => swings[m].at < swings[n].at

LEMMA SwingsOfCandles ==
    ASSUME NEW candles \in Seq(ClosedCandle)
    PROVE  AreSwings(SwingPoints(DetectPivots(SeriesOf(candles))), candles)
<1> DEFINE series == SeriesOf(candles)
           swings == SwingsOf(series)
<1>1. IsSeries(series) /\ DOMAIN series = Ats(candles)
    BY SeriesAre
<1>2. /\ swings \in Seq(Singles(series))
      /\ \A m, n \in DOMAIN swings : m < n => swings[m].at < swings[n].at
    <2> HIDE DEF series
    <2> QED
        BY <1>1, SwingsAreBuilt DEF Built
<1>3. \A p \in Singles(series) : /\ p.at \in DOMAIN series /\ p.at + K \in DOMAIN series
                                 /\ "at" \in DOMAIN p
    <2> HIDE DEF series
    <2>1. \A p \in Singles(series) : /\ p.at \in DOMAIN series
                                     /\ p.at + K \in DOMAIN series
                                     /\ p \in ConfirmedPivots(series)
        BY <1>1, SinglesAre
    <2>2. \A p \in ConfirmedPivots(series) : p = Pivot(series, p.at, p.kind)
        BY <1>1, ConfirmedPivotsAre
    <2>3. \A i, kind : "at" \in DOMAIN Pivot(series, i, kind)
        BY DEF Pivot
    <2> QED
        BY <2>1, <2>2, <2>3
<1> HIDE DEF series
<1>4. \A n \in DOMAIN swings : /\ swings[n].at \in Ats(candles)
                               /\ swings[n].at + K \in Ats(candles)
                               /\ "at" \in DOMAIN swings[n]
    BY <1>1, <1>2, <1>3
<1>5. IsSequence(swings)
    BY <1>2, SequenceOf
<1>6. swings = SwingPoints(DetectPivots(series))
    BY DEF SwingsOf
<1> QED
    BY <1>2, <1>4, <1>5, <1>6 DEF AreSwings, series

-----------------------------------------------------------------------------
(* What an evaluation tells *)

IsTiming(timing) == timing.known \in Seq(Int) /\ timing.published \in Seq(Int)

EvaluationFields ==
    {"at", "asOf", "count", "state", "anchors", "boundaries", "breakout", "reasons",
     "missing", "evidence", "timing", "prior"}

\* An instant that is over at t.
IsPast(x, t) == x \in Int /\ x <= t

\* What an evaluation refers to has dates.
HasDates(e) ==
    /\ \A n \in DOMAIN e.anchors : e.anchors[n].confirmed \in Int
    /\ \A b \in e.boundaries : \A p \in ToSet(b.points) : OpenTime(p.at) \in Int

\* An evaluation, as far as its history depends on it, and one made at t.
IsTold(e) ==
    /\ e = [field \in EvaluationFields |-> e[field]]
    /\ e.state \in PatternState
    /\ e.count \in Int
    /\ e.asOf = <<>> \/ \E x \in Int : e.asOf = <<x>>
    /\ IsSequence(e.anchors)
    /\ IsTiming(e.timing)
    /\ HasDates(e)

IsMadeAt(e, t) == IsTold(e) /\ e.at = t

\* A breakout is called LIVE only if all the candles of its figure had been received
\* before the one that broke out opened.
WasReceived(timing, anchors, candles) ==
    /\ timing.known # <<>>
    /\ timing.provenance # <<>>
    /\ timing.provenance[1] = "LIVE"
    => \E opened \in ToSet(timing.opened) :
          \A c \in ToSet(candles) :
             Head(anchors).at <= c.at /\ CloseTime(c.at) <= Last(anchors).confirmed =>
                \E r \in ToSet(c.seen) : r <= opened

\* What a detector finds at t: an evaluation of the last candle it sees that may
\* be built, with the anchors a figure of its kind needs.
IsFound(e, type, candles, t) ==
    /\ IsMadeAt(e, t)
    /\ e.asOf = <<CloseTime(Last(candles).at)>>
    /\ ValidEvaluation(e)
    /\ EnoughAnchors(type, e)
    /\ WasReceived(e.timing, e.anchors, candles)

AllFound(found, type, candles, t) ==
    IsSequence(found) /\ \A e \in ToSet(found) : IsFound(e, type, candles, t)

LEMMA NothingIsFound == ASSUME NEW type, NEW candles, NEW t PROVE AllFound(<<>>, type, candles, t)
<1>1. IsSequence(<<>>)
    BY <<>> \in Seq({}), SequenceOf
<1>2. ToSet(<<>>) = {}
    BY DEF ToSet
<1> QED
    BY <1>1, <1>2 DEF AllFound

LEMMA FlattenedAreFound ==
    ASSUME NEW type, NEW candles, NEW t, NEW n \in Nat, NEW seqs, DOMAIN seqs = 1 .. n,
           seqs = [i \in 1 .. n |-> seqs[i]],
           \A i \in 1 .. n : AllFound(seqs[i], type, candles, t)
    PROVE  AllFound(FlattenSeq(seqs), type, candles, t)
BY FlattenedFrom DEF AllFound

\* known_at_of: an instant, if any, by which all that is needed had been received.
LEMMA KnownIs ==
    ASSUME NEW candles \in Seq(ClosedCandle), NEW window, KnownAtOf(candles, window) # <<>>
    PROVE  \E x \in Int :
              /\ KnownAtOf(candles, window) = <<x>>
              /\ \A c \in ToSet(candles) :
                    window[1].at <= c.at /\ CloseTime(c.at) <= FormedAt(window) =>
                       \E r \in ToSet(c.seen) : r <= x
<1> DEFINE needed == {c \in ToSet(candles) :
                         window[1].at <= c.at /\ CloseTime(c.at) <= FormedAt(window)}
           heads == {Head(c.seen) : c \in needed}
<1>1. /\ KnownAtOf(candles, window) = <<Max(heads)>>
      /\ \A c \in needed : c.seen # <<>>
      /\ needed # {}
    BY DEF KnownAtOf
<1>2. IsFiniteSet(heads)
    <2>1. IsFiniteSet(ToSet(candles))
        <3>1. IsFiniteSet(DOMAIN candles)
            BY FS_Interval, Len(candles) \in Int, DOMAIN candles = 1 .. Len(candles)
        <3>2. candles = [x \in DOMAIN candles |-> candles[x]]
            OBVIOUS
        <3> QED
            BY <3>1, <3>2, FiniteElements DEF ToSet
    <2>2. IsFiniteSet(needed)
        BY <2>1, FS_Subset, needed \in SUBSET ToSet(candles)
    <2> DEFINE f == [c \in needed |-> Head(c.seen)]
    <2>3. heads = {f[c] : c \in DOMAIN f} /\ f = [c \in DOMAIN f |-> f[c]] /\ DOMAIN f = needed
        OBVIOUS
    <2> HIDE DEF f, heads, needed
    <2> QED
        BY <2>2, <2>3, FiniteElements
<1>3. ASSUME NEW c \in needed
      PROVE  Head(c.seen) \in Int /\ Head(c.seen) \in ToSet(c.seen)
    <2>1. c.seen \in Seq(Int) /\ c.seen # <<>>
        BY <1>1, CandlesAre
    <2>2. 1 \in DOMAIN c.seen /\ Head(c.seen) = c.seen[1] /\ c.seen[1] \in Int
        BY <2>1
    <2> QED
        BY <2>2 DEF ToSet
<1>4. heads \in SUBSET Int /\ heads # {}
    BY <1>1, <1>3
<1>5. \A c \in needed : Head(c.seen) \in heads
    OBVIOUS
<1> HIDE DEF heads
<1>6. Max(heads) \in Int /\ \A x \in heads : x <= Max(heads)
    BY <1>2, <1>4, FiniteIsBounded
<1>7. \A c \in needed : \E r \in ToSet(c.seen) : r <= Max(heads)
    BY <1>3, <1>5, <1>6
<1> QED
    BY <1>1, <1>6, <1>7

LEMMA KnownIsInstant ==
    ASSUME NEW candles \in Seq(ClosedCandle), NEW window
    PROVE  KnownAtOf(candles, window) \in Seq(Int)
<1>1. <<>> \in Seq(Int) /\ \A x \in Int : <<x>> \in Seq(Int)
    OBVIOUS
<1> QED
    BY <1>1, KnownIs

LEMMA TimingIsOne ==
    ASSUME NEW candles \in Seq(ClosedCandle), NEW window, NEW j, NEW held \in Seq(Int)
    PROVE  IsTiming(Timing(candles, window, j, held))
BY KnownIsInstant DEF IsTiming, Timing

-----------------------------------------------------------------------------
(* judge: what is told of a figure goes with its state *)

\* A breakout and the state it gives a figure.
GoesWith(b, state) ==
    /\ state = "BREAKOUT_PENDING_CONFIRMATION" => ~b.confirmed
    /\ state = "CONFIRMED_UP" => b.confirmed /\ b.direction = "UP"
    /\ state = "CONFIRMED_DOWN" => b.confirmed /\ b.direction = "DOWN"

\* Of a figure that is complete or not, between boundaries of some roles.
IsJudgement(j, candles, complete, roles) ==
    /\ j.state \in {"FORMING", "GEOMETRICALLY_VALID", "INVALIDATED"} \cup BreakoutStates
    /\ (j.reasons # {}) <=> (j.state = "INVALIDATED")
    /\ j.state \in BreakoutStates \cup {"GEOMETRICALLY_VALID"} => complete
    /\ j.state \notin BreakoutStates => j.breakout = <<>>
    /\ j.state \in BreakoutStates =>
          \E b : /\ j.breakout = <<b>> /\ b.candle \in Ats(candles)
                 /\ b.boundary \in roles /\ GoesWith(b, j.state)
    /\ j.first # 0 => j.first \in DOMAIN candles

\* One judgement, if any.
IsShort(s) == DOMAIN s = {} \/ DOMAIN s = {1}

AreJudged(judged, candles, complete, roles) ==
    IsShort(judged) /\ \A n \in DOMAIN judged : IsJudgement(judged[n], candles, complete, roles)

LEMMA EarliestIs ==
    ASSUME NEW S, \A x \in S : x \in Int /\ x >= 1
    PROVE  Earliest(S) # 0 => Earliest(S) \in S
<1>1. S # {} => Min(S) \in S
    BY LeastFrom, 1 \in Nat
<1> QED
    BY <1>1 DEF Earliest

LEMMA InvalidIsJudgement ==
    ASSUME NEW reason, NEW candles, NEW complete, NEW roles
    PROVE  IsJudgement(Invalid(reason), candles, complete, roles)
<1>1. /\ Invalid(reason).state = "INVALIDATED" /\ Invalid(reason).reasons = {reason}
      /\ Invalid(reason).breakout = <<>> /\ Invalid(reason).first = 0
    BY DEF Invalid, Judgement
<1>2. "INVALIDATED" \notin BreakoutStates \cup {"GEOMETRICALLY_VALID"}
    BY DEF BreakoutStates, ConfirmedStates
<1> QED
    BY <1>1, <1>2 DEF IsJudgement

LEMMA InvalidIsJudged ==
    ASSUME NEW reason, NEW candles, NEW complete, NEW roles
    PROVE  AreJudged(<<Invalid(reason)>>, candles, complete, roles)
<1> DEFINE j == Invalid(reason)
<1>1. IsJudgement(j, candles, complete, roles)
    BY InvalidIsJudgement
<1> HIDE DEF j
<1>2. DOMAIN <<j>> = {1} /\ <<j>>[1] = j
    OBVIOUS
<1>3. AreJudged(<<j>>, candles, complete, roles)
    BY <1>1, <1>2 DEF AreJudged, IsShort
<1> QED
    BY <1>3 DEF j

LEMMA UnfoldIs ==
    ASSUME NEW candles \in Seq(ClosedCandle), NEW f, NEW first \in DOMAIN candles, NEW depth
    PROVE  IsJudgement(Unfold(candles, f, first, depth), candles, TRUE, {f.role})
<1> DEFINE last == Len(candles)
           failures == {k \in (first + 1) .. last :
                           k - first <= f.params.failure_window_candles /\ depth[k] <= 0}
           failed == Earliest(failures)
           until == IF failed = 0 THEN last ELSE failed - 1
           confirmations == {k \in first .. until :
                                AtLeastShare(depth[k], f.params.breakout_margin, f.height)}
           confirmed == Earliest(confirmations)
           began == <<Breakout(candles[first], f.side, FALSE, f.role)>>
           ended == <<Breakout(candles[confirmed], f.side, TRUE, f.role)>>
           j == Unfold(candles, f, first, depth)
<1>1. last \in Nat /\ DOMAIN candles = 1 .. last /\ first \in 1 .. last
    OBVIOUS
<1>2. failed # 0 => failed \in (first + 1) .. last
    <2>1. \A x \in failures : x \in Int /\ x >= 1 /\ x \in (first + 1) .. last
        BY <1>1
    <2> HIDE DEF failures
    <2> QED
        BY <2>1, EarliestIs
<1>3. confirmed # 0 => confirmed \in DOMAIN candles
    <2>1. \A x \in confirmations : x \in Int /\ x >= 1 /\ x \in 1 .. last
        <3> HIDE DEF failed
        <3> QED
            BY <1>1, <1>2
    <2> HIDE DEF confirmations
    <2> QED
        BY <1>1, <2>1, EarliestIs
<1>4. /\ \E b : /\ began = <<b>> /\ b.candle \in Ats(candles) /\ b.boundary \in {f.role}
                /\ b.confirmed = FALSE
      /\ confirmed # 0 =>
            \E b : /\ ended = <<b>> /\ b.candle \in Ats(candles) /\ b.boundary \in {f.role}
                  /\ b.confirmed = TRUE /\ b.direction = BreakoutDirection(f.side)
    <2> HIDE DEF confirmed
    <2>1. ASSUME NEW k \in DOMAIN candles
          PROVE  /\ \A sure : /\ Breakout(candles[k], f.side, sure, f.role).candle \in Ats(candles)
                             /\ Breakout(candles[k], f.side, sure, f.role).boundary \in {f.role}
                             /\ Breakout(candles[k], f.side, sure, f.role).direction
                                   = BreakoutDirection(f.side)
                 /\ Breakout(candles[k], f.side, FALSE, f.role).confirmed = FALSE
                 /\ Breakout(candles[k], f.side, TRUE, f.role).confirmed = TRUE
        BY DEF Breakout, Ats
    <2>2. \E b : /\ began = <<b>> /\ b.candle \in Ats(candles) /\ b.boundary \in {f.role}
                /\ b.confirmed = FALSE
        BY <2>1
    <2>3. confirmed # 0 =>
            \E b : /\ ended = <<b>> /\ b.candle \in Ats(candles) /\ b.boundary \in {f.role}
                  /\ b.confirmed = TRUE /\ b.direction = BreakoutDirection(f.side)
        <3> DEFINE b == Breakout(candles[confirmed], f.side, TRUE, f.role)
        <3>1. confirmed # 0 => /\ b.candle \in Ats(candles) /\ b.boundary \in {f.role}
                               /\ b.confirmed = TRUE /\ b.direction = BreakoutDirection(f.side)
            BY <1>3, <2>1
        <3>2. ended = <<b>>
            OBVIOUS
        <3> HIDE DEF b, ended
        <3> QED
            BY <3>1, <3>2
    <2> QED
        BY <2>2, <2>3
<1>5. \/ /\ j.state = "FAILED_BREAKOUT" /\ j.reasons = {}
         /\ (j.breakout = began) \/ (confirmed # 0 /\ j.breakout = ended)
      \/ /\ j.state = ConfirmedState(f.side) /\ j.reasons = {}
         /\ confirmed # 0 /\ j.breakout = ended
      \/ j = Invalid("TOO_LONG")
      \/ /\ j.state = "BREAKOUT_PENDING_CONFIRMATION" /\ j.reasons = {}
         /\ j.breakout = began
    <2> DEFINE broken == [Judgement("BREAKOUT_PENDING_CONFIRMATION") EXCEPT
                             !.breakout = began, !.first = first,
                             !.start = f.start]
               failing == [broken EXCEPT
                             !.state = "FAILED_BREAKOUT",
                             !.breakout = IF confirmed # 0 THEN ended
                                          ELSE began]
    <2>1. \E retest :
             \/ j = failing
             \/ confirmed # 0 /\ j = [broken EXCEPT !.state = ConfirmedState(f.side),
                                                    !.breakout = ended,
                                                    !.retest = retest]
             \/ j = Invalid("TOO_LONG")
             \/ j = broken
        BY DEF Unfold
    <2> HIDE DEF began, ended, confirmed, j
    <2>2. /\ broken.state = "BREAKOUT_PENDING_CONFIRMATION" /\ broken.reasons = {}
          /\ broken.breakout = began
          /\ {"state", "reasons", "breakout", "retest"} \subseteq DOMAIN broken
        BY DEF Judgement
    <2> HIDE DEF broken
    <2>3. /\ failing.state = "FAILED_BREAKOUT" /\ failing.reasons = {}
          /\ failing.breakout = IF confirmed # 0 THEN ended ELSE began
        BY <2>2
    <2> HIDE DEF failing
    <2>4. ASSUME NEW retest, NEW x, x = [broken EXCEPT !.state = ConfirmedState(f.side),
                                                     !.breakout = ended,
                                                     !.retest = retest]
          PROVE  /\ x.state = ConfirmedState(f.side) /\ x.reasons = {}
                 /\ x.breakout = ended
        BY <2>2, <2>4
    <2>5. /\ broken.state = "BREAKOUT_PENDING_CONFIRMATION" /\ broken.reasons = {}
          /\ broken.breakout = began
        BY <2>2
    <2> QED
        BY <2>1, <2>3, <2>4, <2>5
<1>6. j.first # 0 => j.first \in DOMAIN candles
    <2> DEFINE broken == [Judgement("BREAKOUT_PENDING_CONFIRMATION") EXCEPT
                             !.breakout = began, !.first = first,
                             !.start = f.start]
    <2>1. \/ j = Invalid("TOO_LONG")
          \/ \E state, breakout :
                j = [broken EXCEPT !.state = state, !.breakout = breakout]
          \/ \E state, breakout, retest :
                j = [broken EXCEPT !.state = state, !.breakout = breakout, !.retest = retest]
          \/ j = broken
        <3> HIDE DEF broken, confirmed
        <3> QED
            BY DEF Unfold, broken
    <2> HIDE DEF began, ended, confirmed, j
    <2>2. broken.first = first /\ Invalid("TOO_LONG").first = 0
        BY DEF Judgement, Invalid
    <2> HIDE DEF broken
    <2>3. ASSUME NEW state, NEW breakout,
                 j = [broken EXCEPT !.state = state, !.breakout = breakout]
          PROVE  j.first = first
        BY <2>2, <2>3
    <2>4. ASSUME NEW state, NEW breakout, NEW retest,
                 j = [broken EXCEPT !.state = state, !.breakout = breakout, !.retest = retest]
          PROVE  j.first = first
        BY <2>2, <2>4
    <2>5. CASE j = Invalid("TOO_LONG") \/ j = broken
        BY <2>2, <2>5
    <2>6. CASE \E state, breakout :
                  j = [broken EXCEPT !.state = state, !.breakout = breakout]
        BY <2>3, <2>6
    <2>7. CASE \E state, breakout, retest :
                  j = [broken EXCEPT !.state = state, !.breakout = breakout, !.retest = retest]
        BY <2>4, <2>7
    <2> QED
        BY <2>1, <2>5, <2>6, <2>7, Zenon
<1> HIDE DEF began, ended, confirmed, j, failed
<1>7. CASE j = Invalid("TOO_LONG")
    BY <1>7, InvalidIsJudgement DEF j
<1>8. /\ BreakoutStates = {"BREAKOUT_PENDING_CONFIRMATION", "CONFIRMED_UP",
                           "CONFIRMED_DOWN", "FAILED_BREAKOUT"}
      /\ \/ ConfirmedState(f.side) = "CONFIRMED_UP" /\ BreakoutDirection(f.side) = "UP"
         \/ ConfirmedState(f.side) = "CONFIRMED_DOWN" /\ BreakoutDirection(f.side) = "DOWN"
    BY DEF BreakoutStates, ConfirmedState, BreakoutDirection
<1>9. CASE /\ j.state = "FAILED_BREAKOUT" /\ j.reasons = {}
           /\ (j.breakout = began) \/ (confirmed # 0 /\ j.breakout = ended)
    <2>1. \E b : /\ j.breakout = <<b>> /\ b.candle \in Ats(candles) /\ b.boundary \in {f.role}
        BY <1>4, <1>9
    <2>2. \A b : GoesWith(b, j.state)
        BY <1>9 DEF GoesWith
    <2>3. IsJudgement(j, candles, TRUE, {f.role})
        BY <1>6, <1>8, <1>9, <2>1, <2>2 DEF IsJudgement
    <2> QED
        BY <2>3 DEF j
<1>10. CASE /\ j.state = ConfirmedState(f.side) /\ j.reasons = {}
           /\ confirmed # 0 /\ j.breakout = ended
    <2>1. PICK b : /\ j.breakout = <<b>> /\ b.candle \in Ats(candles) /\ b.boundary \in {f.role}
                   /\ b.confirmed = TRUE /\ b.direction = BreakoutDirection(f.side)
        BY <1>4, <1>10
    <2>2. GoesWith(b, j.state)
        BY <1>8, <1>10, <2>1 DEF GoesWith
    <2>3. IsJudgement(j, candles, TRUE, {f.role})
        BY <1>6, <1>8, <1>10, <2>1, <2>2 DEF IsJudgement
    <2> QED
        BY <2>3 DEF j
<1>11. CASE /\ j.state = "BREAKOUT_PENDING_CONFIRMATION" /\ j.reasons = {}
            /\ j.breakout = began
    <2>1. PICK b : /\ j.breakout = <<b>> /\ b.candle \in Ats(candles) /\ b.boundary \in {f.role}
                   /\ b.confirmed = FALSE
        BY <1>4, <1>11
    <2>2. GoesWith(b, j.state)
        BY <1>11, <2>1 DEF GoesWith
    <2>3. IsJudgement(j, candles, TRUE, {f.role})
        BY <1>6, <1>8, <1>11, <2>1, <2>2 DEF IsJudgement
    <2> QED
        BY <2>3 DEF j
<1> QED
    BY <1>5, <1>7, <1>9, <1>10, <1>11

LEMMA JudgedIs ==
    ASSUME NEW candles \in Seq(ClosedCandle), NEW f,
           f.breakoutFrom \in Nat \ {0}, f.expires \in Int
    PROVE  AreJudged(Judge(candles, f), candles, f.complete, {f.role})
<1> DEFINE depth == Depths(candles, f)
           first == FirstBeyond(candles, f, depth)
           judged == Judge(candles, f)
<1>1. Len(candles) \in Nat /\ DOMAIN candles = 1 .. Len(candles)
    OBVIOUS
<1>2. first # 0 => f.complete /\ first \in DOMAIN candles
    <2> DEFINE until == IF f.expires = 0 THEN Len(candles) ELSE Min({Len(candles), f.expires})
               beyond == {k \in f.breakoutFrom .. until : depth[k] > 0}
    <2>1. until \in Int /\ until <= Len(candles)
        <3>1. Len(candles) \in Int
            BY <1>1
        <3> DEFINE len == Len(candles)
                   a == f.expires
        <3>2. len \in Int /\ a \in Int
            BY <1>1
        <3> HIDE DEF len, a
        <3>3. Min({len, a}) \in {len, a} /\ Min({len, a}) <= len
            BY <3>2, LeastOfTwo
        <3> QED
            BY <3>1, <3>2, <3>3 DEF len, a
    <2> HIDE DEF until
    <2>2. \A x \in beyond : x \in Int /\ x >= 1 /\ x \in 1 .. Len(candles)
        BY <1>1, <2>1
    <2>3. first # 0 => f.complete /\ first = Earliest(beyond)
        BY DEF FirstBeyond, until
    <2> HIDE DEF beyond, first
    <2> QED
        BY <1>1, <2>2, <2>3, EarliestIs
<1>3. \/ judged = <<>>
      \/ \E reason : judged = <<Invalid(reason)>>
      \/ first # 0 /\ judged = <<Unfold(candles, f, first, depth)>>
      \/ f.complete /\ judged = <<Judgement("GEOMETRICALLY_VALID")>>
      \/ judged = <<Judgement("FORMING")>>
    BY DEF Judge
<1> HIDE DEF judged, first, depth
<1>4. ASSUME NEW j, judged = <<j>>, IsJudgement(j, candles, f.complete, {f.role})
      PROVE  AreJudged(judged, candles, f.complete, {f.role})
    <2>1. DOMAIN judged = {1} /\ judged[1] = j
        BY <1>4
    <2> QED
        BY <1>4, <2>1 DEF AreJudged, IsShort
<1>5. CASE judged = <<>>
    <2>1. DOMAIN judged = {}
        BY <1>5
    <2> QED
        BY <2>1 DEF AreJudged, IsShort, judged
<1>6. ASSUME NEW reason, judged = <<Invalid(reason)>>
      PROVE  AreJudged(judged, candles, f.complete, {f.role})
    BY <1>6, InvalidIsJudged
<1>7. CASE first # 0 /\ judged = <<Unfold(candles, f, first, depth)>>
    <2>1. IsJudgement(Unfold(candles, f, first, depth), candles, TRUE, {f.role})
        BY <1>2, <1>7, UnfoldIs
    <2>2. IsJudgement(Unfold(candles, f, first, depth), candles, f.complete, {f.role})
        BY <1>2, <1>7, <2>1 DEF IsJudgement
    <2> QED
        BY <1>4, <1>7, <2>2 DEF judged
<1>8. /\ \A state : /\ Judgement(state).state = state /\ Judgement(state).reasons = {}
                     /\ Judgement(state).breakout = <<>> /\ Judgement(state).first = 0
      /\ "FORMING" \notin BreakoutStates /\ "GEOMETRICALLY_VALID" \notin BreakoutStates
    BY DEF Judgement, BreakoutStates
<1>9. CASE f.complete /\ judged = <<Judgement("GEOMETRICALLY_VALID")>>
    <2>1. IsJudgement(Judgement("GEOMETRICALLY_VALID"), candles, f.complete, {f.role})
        BY <1>8, <1>9 DEF IsJudgement
    <2> QED
        BY <1>4, <1>9, <2>1 DEF judged
<1>10. CASE judged = <<Judgement("FORMING")>>
    <2>1. IsJudgement(Judgement("FORMING"), candles, f.complete, {f.role})
        BY <1>8 DEF IsJudgement
    <2> QED
        BY <1>4, <1>10, <2>1 DEF judged
<1> QED
    BY <1>3, <1>5, <1>6, <1>7, <1>9, <1>10 DEF judged

-----------------------------------------------------------------------------
(* A candidate is an evaluation that may be built *)

\* The anchors of a figure, and the boundaries that are drawn through them.
AreAnchors(points, candles, t) ==
    /\ IsSequence(points) /\ points # <<>>
    /\ \A n \in DOMAIN points : points[n].at \in Ats(candles) /\ IsPast(points[n].confirmed, t)
    /\ \A m, n \in DOMAIN points : m < n => points[m].at < points[n].at

AreBoundaries(boundaries, points, candles) ==
    \A b \in boundaries : /\ \A p \in ToSet(b.points) : p.at \in Ats(candles)
                          /\ b.contacts \subseteq {a.at : a \in ToSet(points)}

\* What a complete figure has.
IsWhole(type, points, boundaries, roles) ==
    /\ roles \subseteq {b.role : b \in boundaries} /\ boundaries # {}
    /\ Len(points) >= MinAnchorPivots(type)

\* timing_evidence: what is called LIVE had been received, held back or not.
LEMMA TimingIsReceived ==
    ASSUME NEW candles \in Seq(ClosedCandle), NEW t, NEW points, AreAnchors(points, candles, t),
           NEW j, j.first # 0 => j.first \in DOMAIN candles,
           NEW held, \/ held = <<>>
                     \/ \E x \in Int : held = <<x>> /\ x > GeometryKnown(candles, points)
    PROVE  WasReceived(Timing(candles, points, j, held), points, candles)
<1> DEFINE timing == Timing(candles, points, j, held)
           known == KnownAtOf(candles, points)
           opened == OpenTime(candles[j.first].at)
<1>1. /\ timing.known = known
      /\ timing.provenance = IF j.first = 0 THEN <<>>
                             ELSE <<ProvenanceOf(opened, FormedAt(points), known, held)>>
      /\ timing.opened = IF j.first = 0 THEN <<>> ELSE <<opened>>
    BY DEF Timing
<1> HIDE DEF timing
<1>2. SUFFICES ASSUME known # <<>>, timing.provenance # <<>>, timing.provenance[1] = "LIVE"
               PROVE  \A c \in ToSet(candles) :
                         Head(points).at <= c.at /\ CloseTime(c.at) <= Last(points).confirmed =>
                            \E r \in ToSet(c.seen) : r <= opened
    <2>1. ToSet(<<opened>>) = {opened}
        BY DEF ToSet
    <2>2. timing.provenance # <<>> => timing.opened = <<opened>>
        BY <1>1
    <2> HIDE DEF opened, known
    <2> QED
        BY <1>1, <2>1, <2>2 DEF WasReceived, timing
<1>3. j.first # 0 /\ ProvenanceOf(opened, FormedAt(points), known, held) = "LIVE"
    BY <1>1, <1>2
<1>4. opened \in Int
    <2>1. candles[j.first].at \in Int
        BY <1>3, CandlesAre
    <2>2. Duration \in Int /\ \A x, y \in Int : x * y \in Int
        BY PeriodAssumption
    <2> QED
        BY <2>1, <2>2 DEF opened, OpenTime
<1>5. PICK x \in Int : /\ known = <<x>>
                       /\ \A c \in ToSet(candles) :
                             points[1].at <= c.at /\ CloseTime(c.at) <= FormedAt(points) =>
                                \E r \in ToSet(c.seen) : r <= x
    BY <1>2, KnownIs
<1> HIDE DEF opened
<1>6. x <= opened
    <2>1. Head(known \o <<0>>) = x /\ Head(known) = x
        BY <1>5
    <2>2. CASE held = <<>>
        BY <1>2, <1>3, <1>4, <2>1, <2>2 DEF ProvenanceOf
    <2>3. CASE held # <<>>
        <3>1. PICK y \in Int : held = <<y>> /\ y > GeometryKnown(candles, points)
            BY <2>3
        <3>2. GeometryKnown(candles, points) = x
            BY <1>2, <2>1 DEF GeometryKnown
        <3>3. ~(opened < Head(held)) /\ Head(held) = y
            BY <1>3, <2>3, <3>1 DEF ProvenanceOf
        <3> QED
            BY <1>4, <3>1, <3>2, <3>3
    <2> QED
        BY <2>2, <2>3
<1>7. Last(points).confirmed \in Int /\ Last(points).confirmed <= FormedAt(points)
      /\ FormedAt(points) \in Int /\ Head(points) = points[1]
    <2> DEFINE f == [n \in DOMAIN points |-> points[n].confirmed]
               dates == {points[n].confirmed : n \in DOMAIN points}
    <2>1. /\ Len(points) \in Nat /\ DOMAIN points = 1 .. Len(points) /\ Len(points) \in DOMAIN points
          /\ Head(points) = points[1]
        BY DEF AreAnchors, IsSequence
    <2>2. dates = {f[n] : n \in DOMAIN f} /\ f = [n \in DOMAIN f |-> f[n]] /\ IsFiniteSet(DOMAIN f)
        BY <2>1, FS_Interval
    <2>3. dates \in SUBSET Int /\ Last(points).confirmed \in dates
        BY <2>1 DEF AreAnchors, IsPast, Last
    <2>4. FormedAt(points) = Max(dates)
        BY DEF FormedAt
    <2> HIDE DEF f, dates
    <2>5. IsFiniteSet(dates)
        BY <2>2, FiniteElements
    <2>6. Max(dates) \in dates /\ \A d \in dates : d <= Max(dates)
        BY <2>3, <2>5, FiniteIsBounded
    <2> QED
        BY <2>1, <2>3, <2>4, <2>6
<1>8. ASSUME NEW c \in ToSet(candles),
             Head(points).at <= c.at, CloseTime(c.at) <= Last(points).confirmed
      PROVE  \E r \in ToSet(c.seen) : r <= opened
    <2>1. CloseTime(c.at) \in Int
        <3>1. c.at \in Int
            BY CandlesAre
        <3> QED
            BY <3>1, TicksPass
    <2>2. CloseTime(c.at) <= FormedAt(points)
        BY <1>7, <1>8, <2>1
    <2>3. PICK r \in ToSet(c.seen) : r <= x
        BY <1>5, <1>7, <1>8, <2>2
    <2>4. r \in Int
        <3>1. c.seen \in Seq(Int)
            BY CandlesAre
        <3> QED
            BY <3>1 DEF ToSet
    <2>5. r <= opened
        BY <1>4, <1>6, <2>3, <2>4
    <2> QED
        BY <2>5
<1> QED
    BY <1>8

LEMMA LastCandle ==
    ASSUME NEW t \in Int, NEW candles, HaveClosed(candles, t), Ats(candles) # {}
    PROVE  CloseTime(Last(candles).at) \in Int /\ CloseTime(Last(candles).at) <= t
<1>1. candles \in Seq(ClosedCandle) /\ \A n \in DOMAIN candles : CloseTime(candles[n].at) <= t
    BY DEF HaveClosed
<1>2. Len(candles) \in DOMAIN candles
    <2>1. \E n : n \in DOMAIN candles
        BY DEF Ats
    <2> QED
        BY <1>1, <2>1
<1>3. Last(candles) = candles[Len(candles)]
    BY DEF Last
<1>4. CloseTime(candles[Len(candles)].at) <= t /\ candles[Len(candles)].at \in Int
    BY <1>1, <1>2, CandlesAre
<1> QED
    BY <1>3, <1>4, TicksPass

LEMMA JudgedIsCoherent ==
    ASSUME NEW e, NEW j, NEW candles, NEW complete, NEW roles,
           IsJudgement(j, candles, complete, roles),
           e.state = j.state, e.reasons = j.reasons, e.breakout = j.breakout, e.missing = {},
           complete => roles \subseteq {b.role : b \in e.boundaries} /\ e.boundaries # {}
    PROVE  /\ CoherentContent(e)
           /\ e.state \in PatternState
           /\ \A b \in ToSet(e.breakout) : b.candle \in Ats(candles)
<1>1. \A b : ToSet(<<b>>) = {b}
    BY DEF ToSet
<1>2. ToSet(<<>>) = {}
    BY DEF ToSet
<1>3. /\ "FORMING" \notin BreakoutStates /\ "GEOMETRICALLY_VALID" \notin BreakoutStates
      /\ "INSUFFICIENT_DATA" \notin BreakoutStates /\ "INVALIDATED" \notin BreakoutStates
      /\ {"BREAKOUT_PENDING_CONFIRMATION", "CONFIRMED_UP", "CONFIRMED_DOWN"} \subseteq BreakoutStates
    BY DEF BreakoutStates
<1>4. e.state \in {"FORMING", "GEOMETRICALLY_VALID", "INVALIDATED"} \cup BreakoutStates
    BY DEF IsJudgement
<1>5. e.state \in PatternState /\ e.state # "INSUFFICIENT_DATA"
    BY <1>3, <1>4 DEF PatternState
<1>6. /\ (e.reasons # {}) <=> (e.state = "INVALIDATED")
      /\ (e.missing # {}) <=> (e.state = "INSUFFICIENT_DATA")
    BY <1>5 DEF IsJudgement
<1>7. CASE e.state \notin BreakoutStates
    <2>1. e.breakout = <<>>
        BY <1>7 DEF IsJudgement
    <2>2. e.state = "GEOMETRICALLY_VALID" => complete
        BY DEF IsJudgement
    <2>3. e.state \notin {"FORMING", "INVALIDATED", "INSUFFICIENT_DATA"} => e.boundaries # {}
        BY <1>4, <1>7, <2>2
    <2>4. ToSet(e.breakout) = {}
        BY <1>2, <2>1
    <2>5. CoherentContent(e)
        BY <1>6, <1>7, <2>1, <2>3, <2>4 DEF CoherentContent
    <2> QED
        BY <1>5, <2>4, <2>5
<1>8. CASE e.state \in BreakoutStates
    <2>1. PICK b : /\ e.breakout = <<b>> /\ b.candle \in Ats(candles)
                   /\ b.boundary \in roles /\ GoesWith(b, e.state)
        BY <1>8 DEF IsJudgement
    <2>2. complete
        BY <1>8 DEF IsJudgement
    <2>3. ToSet(e.breakout) = {b} /\ e.breakout # <<>>
        <3>1. <<b>> # <<>>
            OBVIOUS
        <3> QED
            BY <1>1, <2>1, <3>1
    <2>4. e.boundaries # {} /\ b.boundary \in {x.role : x \in e.boundaries}
        BY <2>1, <2>2
    <2>5. e.state \notin {"FORMING", "GEOMETRICALLY_VALID", "INSUFFICIENT_DATA"}
        BY <1>3, <1>8
    <2>6. CoherentContent(e)
        BY <1>6, <2>1, <2>3, <2>4, <2>5 DEF CoherentContent, GoesWith
    <2> QED
        BY <1>5, <2>1, <2>3, <2>6
<1> QED
    BY <1>7, <1>8

LEMMA EvaluationIsFound ==
    ASSUME NEW t \in Int, NEW candles, HaveClosed(candles, t), NEW type, NEW start \in Int,
           NEW complete, NEW roles, NEW j, IsJudgement(j, candles, complete, roles),
           NEW points, AreAnchors(points, candles, t),
           NEW boundaries, AreBoundaries(boundaries, points, candles),
           complete => IsWhole(type, points, boundaries, roles),
           NEW codes, NEW timing, IsTiming(timing), WasReceived(timing, points, candles)
    PROVE  IsFound(Evaluation(candles, start, j, points, boundaries, codes, timing, t),
                   type, candles, t)
<1> DEFINE e == Evaluation(candles, start, j, points, boundaries, codes, timing, t)
<1>1. e = [field \in EvaluationFields |-> e[field]]
    BY DEF Evaluation, EvaluationFields
<1>2. /\ e.at = t /\ e.anchors = points /\ e.timing = timing /\ e.boundaries = boundaries
      /\ e.asOf = <<CloseTime(Last(candles).at)>> /\ e.count = Len(candles) - start + 1
      /\ e.state = j.state /\ e.reasons = j.reasons /\ e.breakout = j.breakout
      /\ e.missing = {}
    BY DEF Evaluation
<1> HIDE DEF e
<1>3. /\ CoherentContent(e) /\ e.state \in PatternState
      /\ \A b \in ToSet(e.breakout) : b.candle \in Ats(candles)
    BY <1>2, JudgedIsCoherent DEF IsWhole
<1>4. Len(points) \in Nat /\ DOMAIN points = 1 .. Len(points) /\ Len(points) >= 1
    BY DEF AreAnchors, IsSequence
<1>5. Ats(candles) # {}
    BY <1>4 DEF AreAnchors
<1>6. CloseTime(Last(candles).at) \in Int /\ CloseTime(Last(candles).at) <= t
    BY <1>5, LastCandle
<1>7. e.count \in Int
    <2>1. Len(candles) \in Int
        BY DEF HaveClosed
    <2> QED
        BY <1>2, <2>1
<1>8. IsTold(e)
    <2>1. \E x \in Int : e.asOf = <<x>>
        BY <1>2, <1>6
    <2>2. IsSequence(e.anchors) /\ IsTiming(e.timing)
        BY <1>2 DEF AreAnchors
    <2>3. \A n \in DOMAIN e.anchors : e.anchors[n].confirmed \in Int
        BY <1>2 DEF AreAnchors, IsPast
    <2>4. \A b \in e.boundaries : \A p \in ToSet(b.points) : OpenTime(p.at) \in Int
        BY <1>2, CandlesArePast DEF AreBoundaries
    <2>5. HasDates(e)
        BY <2>3, <2>4 DEF HasDates
    <2> QED
        BY <1>1, <1>3, <1>7, <2>1, <2>2, <2>5 DEF IsTold
<1>9. KnownByThen(e)
    <2>1. \A x \in ToSet(e.asOf) : x <= e.at
        <3>1. ToSet(e.asOf) = {CloseTime(Last(candles).at)}
            <4>1. \A x : ToSet(<<x>>) = {x}
                BY DEF ToSet
            <4> QED
                BY <1>2, <4>1
        <3> QED
            BY <1>2, <1>6, <3>1
    <2>2. e.anchors # <<>>
        BY <1>2 DEF AreAnchors
    <2>3. \A n \in 1 .. (Len(e.anchors) - 1) : e.anchors[n].at < e.anchors[n + 1].at
        <3>1. \A n \in 1 .. (Len(points) - 1) : n \in DOMAIN points /\ n + 1 \in DOMAIN points
                                               /\ n < n + 1
            BY <1>4
        <3> QED
            BY <1>2, <3>1 DEF AreAnchors
    <2>4. \A n \in DOMAIN e.anchors : e.anchors[n].confirmed <= e.at
        BY <1>2 DEF AreAnchors, IsPast
    <2>5. ASSUME NEW b \in e.boundaries
          PROVE  /\ \A p \in ToSet(b.points) : OpenTime(p.at) <= e.at
                 /\ b.contacts \subseteq {a.at : a \in ToSet(e.anchors)}
        <3>1. /\ \A p \in ToSet(b.points) : p.at \in Ats(candles)
              /\ b.contacts \subseteq {a.at : a \in ToSet(e.anchors)}
            BY <1>2, <2>5 DEF AreBoundaries
        <3> QED
            BY <1>2, <3>1, ClosedByThen
    <2>6. \A b \in ToSet(e.breakout) : CloseTime(b.candle) <= e.at
        BY <1>2, <1>3, ClosedByThen
    <2> QED
        BY <2>1, <2>2, <2>3, <2>4, <2>5, <2>6 DEF KnownByThen
<1>10. EnoughAnchors(type, e)
    <2>1. e.state \in BreakoutStates \cup {"GEOMETRICALLY_VALID"} => complete
        BY <1>2 DEF IsJudgement
    <2> QED
        BY <1>2, <2>1 DEF EnoughAnchors, IsWhole
<1>11. WasReceived(e.timing, e.anchors, candles)
    BY <1>2
<1>12. IsFound(e, type, candles, t)
    BY <1>2, <1>3, <1>8, <1>9, <1>10, <1>11 DEF IsFound, IsMadeAt, ValidEvaluation
<1> QED
    BY <1>12 DEF e

\* A function over the first numbers is a sequence.
LEMMA ShortIsFirst == ASSUME NEW s, IsShort(s) PROVE \E n \in Nat : DOMAIN s = 1 .. n
<1>1. 1 .. 0 = {} /\ 1 .. 1 = {1}
    OBVIOUS
<1> QED
    BY <1>1 DEF IsShort

LEMMA CandidatesAreFound ==
    ASSUME NEW t \in Int, NEW candles, HaveClosed(candles, t), NEW type, NEW start \in Int,
           NEW complete, NEW roles, NEW judged, AreJudged(judged, candles, complete, roles),
           NEW points, AreAnchors(points, candles, t),
           NEW boundaries, AreBoundaries(boundaries, points, candles),
           complete => IsWhole(type, points, boundaries, roles), NEW codes
    PROVE  AllFound(Candidate(candles, start, judged, points, boundaries, codes, t),
                    type, candles, t)
<1> DEFINE made(n) == Evaluation(candles, start, judged[n], points, boundaries, codes,
                                 Timing(candles, points, judged[n], <<>>), t)
           s == Candidate(candles, start, judged, points, boundaries, codes, t)
<1>1. ASSUME NEW n \in DOMAIN judged
      PROVE  IsFound(made(n), type, candles, t)
    <2>1. IsTiming(Timing(candles, points, judged[n], <<>>))
        BY TimingIsOne, <<>> \in Seq(Int) DEF HaveClosed
    <2>2. IsJudgement(judged[n], candles, complete, roles)
        BY DEF AreJudged
    <2>3. WasReceived(Timing(candles, points, judged[n], <<>>), points, candles)
        <3>1. candles \in Seq(ClosedCandle)
            BY DEF HaveClosed
        <3>2. judged[n].first # 0 => judged[n].first \in DOMAIN candles
            BY <2>2 DEF IsJudgement
        <3> QED
            BY <3>1, <3>2, TimingIsReceived
    <2> QED
        BY <2>1, <2>2, <2>3, EvaluationIsFound
<1> HIDE DEF made
<1>2. s = [n \in DOMAIN judged |-> made(n)]
    BY DEF Candidate, made
<1>3. PICK n \in Nat : DOMAIN judged = 1 .. n
    BY ShortIsFirst DEF AreJudged
<1> HIDE DEF s
<1>4. IsSequence(s)
    BY <1>2, <1>3, SequencesAre
<1>5. \A e \in ToSet(s) : IsFound(e, type, candles, t)
    BY <1>1, <1>2 DEF ToSet
<1>6. AllFound(s, type, candles, t)
    BY <1>4, <1>5 DEF AllFound
<1> QED
    BY <1>6 DEF s

-----------------------------------------------------------------------------
(* Windows of swings and their anchors *)

\* A part of a sequence.
LEMMA PartIsSequence ==
    ASSUME NEW s, NEW m \in Int, NEW n \in Int
    PROVE  /\ IsSequence(SubSeq(s, m, n))
           /\ DOMAIN SubSeq(s, m, n) = 1 .. (n - m + 1)
           /\ \A i \in 1 .. (n - m + 1) : SubSeq(s, m, n)[i] = s[i + m - 1]
<1> DEFINE part == SubSeq(s, m, n)
<1>1. DOMAIN part = 1 .. (n - m + 1) /\ part = [i \in 1 .. (n - m + 1) |-> s[i + m - 1]]
    OBVIOUS
<1>2. IsSequence(part)
    <2>1. part = [i \in 1 .. (n - m + 1) |-> part[i]]
        BY <1>1
    <2> HIDE DEF part
    <2> QED
        BY <1>1, <2>1, SequencesAre, n - m + 1 \in Int
<1> QED
    BY <1>1, <1>2

\* A part of the swings of some candles.
LEMMA PartOfSwings ==
    ASSUME NEW candles, NEW swings, AreSwings(swings, candles),
           NEW m \in 1 .. Len(swings), NEW n \in 1 .. Len(swings), m <= n
    PROVE  LET part == SubSeq(swings, m, n)
           IN  /\ AreSwings(part, candles) /\ part # <<>>
               /\ Len(part) = n - m + 1 /\ DOMAIN part = 1 .. (n - m + 1)
               /\ \A i \in 1 .. (n - m + 1) : part[i] = swings[i + m - 1]
               /\ Head(part) = swings[m] /\ Last(part) = swings[n]
<1> DEFINE part == SubSeq(swings, m, n)
<1>1. Len(swings) \in Nat /\ DOMAIN swings = 1 .. Len(swings)
    BY DEF AreSwings, IsSequence
<1>2. m \in Int /\ n \in Int /\ n - m + 1 \in Nat /\ n - m + 1 >= 1
    BY <1>1
<1>3. /\ IsSequence(part) /\ DOMAIN part = 1 .. (n - m + 1)
      /\ \A i \in 1 .. (n - m + 1) : part[i] = swings[i + m - 1]
    BY <1>2, PartIsSequence
<1> HIDE DEF part
<1>4. Len(part) = n - m + 1 /\ part # <<>>
    BY <1>2, <1>3 DEF IsSequence
<1>5. \A i \in DOMAIN part : i + m - 1 \in DOMAIN swings
    BY <1>1, <1>2, <1>3
<1>6. AreSwings(part, candles)
    <2>1. \A i \in DOMAIN part : /\ part[i].at \in Ats(candles)
                                 /\ part[i].at + K \in Ats(candles)
                                 /\ "at" \in DOMAIN part[i]
        BY <1>3, <1>5 DEF AreSwings
    <2>2. \A i, k \in DOMAIN part : i < k => part[i].at < part[k].at
        <3>1. \A i, k \in DOMAIN part : i < k => i + m - 1 < k + m - 1
            BY <1>2, <1>3
        <3> QED
            BY <1>3, <1>5, <3>1 DEF AreSwings
    <2> QED
        BY <1>3, <2>1, <2>2 DEF AreSwings
<1>7. Head(part) = swings[m] /\ Last(part) = swings[n]
    <2>1. 1 \in 1 .. (n - m + 1) /\ n - m + 1 \in 1 .. (n - m + 1)
          /\ 1 + m - 1 = m /\ (n - m + 1) + m - 1 = n
        BY <1>2
    <2> QED
        BY <1>3, <1>4, <2>1 DEF Last
<1> QED
    BY <1>3, <1>4, <1>6, <1>7 DEF part

\* The anchors of a window.
LEMMA AnchorsAre ==
    ASSUME NEW t \in Int, NEW candles, HaveClosed(candles, t), NEW window,
           AreSwings(window, candles), window # <<>>
    PROVE  /\ AreAnchors(Anchors(window), candles, t)
           /\ Len(Anchors(window)) = Len(window)
           /\ \A n \in DOMAIN window : window[n].at \in {a.at : a \in ToSet(Anchors(window))}
<1> DEFINE s == Anchors(window)
<1>1. IsSequence(window) /\ Len(window) \in Nat /\ DOMAIN window = 1 .. Len(window)
    BY DEF AreSwings, IsSequence
<1>2. DOMAIN s = 1 .. Len(window) /\ s = [i \in 1 .. Len(window) |-> Anchor(window[i])]
    BY <1>1 DEF Anchors
<1> HIDE DEF s
<1>3. IsSequence(s) /\ Len(s) = Len(window) /\ s # <<>>
    <2>1. IsSequence(s)
        BY <1>1, <1>2, SequencesAre
    <2>2. Len(s) = Len(window)
        BY <1>1, <1>2
    <2>3. Len(window) # 0
        BY <1>1 DEF IsSequence
    <2> QED
        BY <2>1, <2>2, <2>3
<1>4. \A n \in DOMAIN window : /\ s[n].at = window[n].at
                               /\ s[n].confirmed = CloseTime(window[n].at + K)
    BY <1>1, <1>2 DEF Anchor
<1>5. \A n \in DOMAIN s : s[n].at \in Ats(candles) /\ IsPast(s[n].confirmed, t)
    <2>1. \A i \in Ats(candles) : IsPast(CloseTime(i), t)
        BY ClosedByThen, CandlesArePast DEF IsPast
    <2> QED
        BY <1>1, <1>2, <1>4, <2>1 DEF AreSwings
<1>6. \A m, n \in DOMAIN s : m < n => s[m].at < s[n].at
    BY <1>1, <1>2, <1>4 DEF AreSwings
<1>7. \A n \in DOMAIN window : window[n].at \in {a.at : a \in ToSet(s)}
    BY <1>1, <1>2, <1>4 DEF ToSet
<1>8. AreAnchors(s, candles, t)
    BY <1>3, <1>5, <1>6 DEF AreAnchors
<1> QED
    BY <1>3, <1>7, <1>8 DEF s
-----------------------------------------------------------------------------
(* Doubles, triples, head and shoulders *)

LEMMA WindowIs ==
    ASSUME NEW candles, NEW swings, AreSwings(swings, candles), NEW n \in DOMAIN swings,
           NEW least \in Nat, least >= 1, n + least - 1 <= Len(swings),
           NEW most \in Nat, least <= most
    PROVE  LET window == Window(swings, n, most)
           IN  /\ AreSwings(window, candles) /\ window # <<>>
               /\ Len(window) \in least .. most /\ DOMAIN window = 1 .. Len(window)
<1> DEFINE a == n + most - 1
           b == Len(swings)
           last == Min({a, b})
<1>1. b \in Nat /\ DOMAIN swings = 1 .. b /\ n \in 1 .. b
    BY DEF AreSwings, IsSequence
<1>2. a \in Int /\ b \in Int
    BY <1>1
<1>3. last \in {a, b} /\ last <= a /\ last <= b
    <2> HIDE DEF a, b
    <2> QED
        BY <1>2, LeastOfTwo
<1>4. Window(swings, n, most) = SubSeq(swings, n, last)
    BY DEF Window
<1> HIDE DEF last
<1>5. last \in 1 .. b /\ n <= last /\ last - n + 1 \in least .. most
    <2>1. n \in Int /\ n >= 1 /\ n <= b /\ n + least - 1 <= b
        BY <1>1
    <2>2. CASE last = a
        BY <1>2, <1>3, <2>1, <2>2
    <2>3. CASE last = b
        BY <1>2, <1>3, <2>1, <2>3
    <2> QED
        BY <1>3, <2>2, <2>3
<1> QED
    BY <1>1, <1>4, <1>5, PartOfSwings DEF b

\* The places of the swings of a window.
Places(window) == {window[n].at : n \in DOMAIN window}

IsNeckline(b, window) ==
    /\ b.role = "NECKLINE" /\ b.contacts \subseteq Places(window)
    /\ \A p \in ToSet(b.points) : p.at \in Places(window)

LEMMA NecklineIs ==
    ASSUME NEW window, NEW from, from.at \in Places(window),
           NEW to, to.at \in Places(window),
           NEW contacts, \A p \in contacts : p.at \in Places(window)
    PROVE  IsNeckline(Neckline(from, to, contacts), window)
<1> DEFINE b == Neckline(from, to, contacts)
           p == Point(from.at, from.price)
           q == Point(to.at, to.price)
<1>1. b.role = "NECKLINE" /\ b.points = <<p, q>> /\ b.contacts = {x.at : x \in contacts}
    BY DEF Neckline
<1>2. p.at = from.at /\ q.at = to.at
    BY DEF Point
<1> HIDE DEF b, p, q
<1>3. ToSet(<<p, q>>) = {p, q}
    BY DEF ToSet
<1>4. IsNeckline(b, window)
    BY <1>1, <1>2, <1>3 DEF IsNeckline
<1> QED
    BY <1>4 DEF b

LEMMA LevelNecklineIs ==
    ASSUME NEW window, NEW from, from.at \in Places(window), "at" \in DOMAIN from,
           NEW to, to.at \in Places(window), "at" \in DOMAIN to,
           NEW contacts, \A p \in contacts : p.at \in Places(window), NEW price
    PROVE  IsNeckline(LevelNeckline(from, to, price, contacts), window)
<1> DEFINE a == [from EXCEPT !.price = price]
           b == [to EXCEPT !.price = price]
<1>1. a.at = from.at /\ b.at = to.at
    OBVIOUS
<1>2. LevelNeckline(from, to, price, contacts) = Neckline(a, b, contacts)
    BY DEF LevelNeckline
<1> HIDE DEF a, b
<1> QED
    BY <1>1, <1>2, NecklineIs

\* A figure over a neckline, drawn once it is complete.
LEMMA NecklinedIsFound ==
    ASSUME NEW t \in Int, NEW candles, HaveClosed(candles, t), NEW type, NEW start \in Int,
           NEW window, AreSwings(window, candles), window # <<>>,
           NEW complete \in BOOLEAN, complete => Len(window) >= MinAnchorPivots(type),
           NEW judged, AreJudged(judged, candles, complete, {"NECKLINE"}),
           NEW neckline, complete => IsNeckline(neckline, window), NEW codes
    PROVE  AllFound(Candidate(candles, start, judged, Anchors(window),
                              IF complete THEN {neckline} ELSE {}, codes, t),
                    type, candles, t)
<1> DEFINE points == Anchors(window)
           boundaries == IF complete THEN {neckline} ELSE {}
<1>1. /\ AreAnchors(points, candles, t) /\ Len(points) = Len(window)
      /\ \A n \in DOMAIN window : window[n].at \in {a.at : a \in ToSet(points)}
    BY AnchorsAre
<1>2. \A n \in DOMAIN window : window[n].at \in Ats(candles)
    BY DEF AreSwings
<1>3. AreBoundaries(boundaries, points, candles)
    <2>1. /\ Places(window) \subseteq Ats(candles)
          /\ Places(window) \subseteq {a.at : a \in ToSet(points)}
        BY <1>1, <1>2 DEF Places
    <2> HIDE DEF points
    <2> QED
        BY <2>1 DEF AreBoundaries, IsNeckline
<1>4. complete => IsWhole(type, points, boundaries, {"NECKLINE"})
    <2> HIDE DEF points
    <2> QED
        BY <1>1 DEF IsWhole, IsNeckline
<1> HIDE DEF points, boundaries
<1>5. AllFound(Candidate(candles, start, judged, points, boundaries, codes, t),
               type, candles, t)
    BY <1>1, <1>3, <1>4, CandidatesAreFound
<1> QED
    BY <1>5 DEF points, boundaries

LEMMA AnchorsNeeded ==
    /\ \A type \in {"DOUBLE_TOP", "DOUBLE_BOTTOM", "ROUNDING_TOP", "ROUNDING_BOTTOM"} :
          MinAnchorPivots(type) = 3
    /\ \A type \in Triangles \cup Wedges \cup {"RECTANGLE"} : MinAnchorPivots(type) = 4
    /\ MinAnchorPivots("DIAMOND") = 6
    /\ \A type \in {"TRIPLE_TOP", "TRIPLE_BOTTOM", "HEAD_AND_SHOULDERS_TOP",
                   "HEAD_AND_SHOULDERS_BOTTOM", "BROADENING_FORMATION"} \cup Masts :
          MinAnchorPivots(type) = 5
BY DEF MinAnchorPivots, Triangles, Wedges, Masts

LEMMA PlacesAre ==
    ASSUME NEW candles \in Seq(ClosedCandle), NEW window, AreSwings(window, candles)
    PROVE  \A n \in DOMAIN window : /\ window[n].at \in Places(window)
                                    /\ "at" \in DOMAIN window[n]
                                    /\ PositionOf(candles, window[n].at) \in DOMAIN candles
                                    /\ PositionOf(candles, window[n].at) \in Nat \ {0}
<1>1. \A n \in DOMAIN window : PositionOf(candles, window[n].at) \in DOMAIN candles
    BY SeriesAre DEF AreSwings
<1>2. \A n \in DOMAIN candles : n \in Nat \ {0}
    OBVIOUS
<1> QED
    BY <1>1, <1>2 DEF Places, AreSwings

\* What a figure over a neckline is judged to be.
LEMMA NecklinedIsJudged ==
    ASSUME NEW candles \in Seq(ClosedCandle), NEW complete, NEW figure, NEW p,
           complete => p \in Nat \ {0}, figure.complete = complete, figure.expires = 0,
           figure.role = "NECKLINE",
           figure.breakoutFrom = (IF complete THEN p ELSE Len(candles)) + 1,
           NEW judged,
           judged = Judge(candles, figure) \/ \E reason : judged = <<Invalid(reason)>>
    PROVE  AreJudged(judged, candles, complete, {"NECKLINE"})
<1>1. Len(candles) \in Nat
    OBVIOUS
<1>2. figure.breakoutFrom \in Nat \ {0} /\ figure.expires \in Int
    BY <1>1
<1>3. AreJudged(Judge(candles, figure), candles, figure.complete, {figure.role})
    BY <1>2, JudgedIs
<1> QED
    BY <1>3, InvalidIsJudged

LEMMA DoubleIsFound ==
    ASSUME NEW t \in Int, NEW candles, HaveClosed(candles, t),
           NEW type \in {"DOUBLE_TOP", "DOUBLE_BOTTOM"}, NEW side,
           NEW window, AreSwings(window, candles), window # <<>>, Len(window) \in 2 .. 3
    PROVE  AllFound(DoubleFigure(candles, side, window, t), type, candles, t)
<1> DEFINE params == ReversalParams
           at(n) == PositionOf(candles, window[n].at)
           peaks == OfKind(window, ExtremeKind(side))
           height == MeanLevel(side, peaks) - Signed(side, window[2].price)
           rise == Signed(side, Last(peaks).price) - Signed(side, Head(peaks).price)
           whole == Len(window) = 3
           complete == whole /\ AtMostShare(Abs(rise), params.level_tolerance, height)
           figure == [side |-> side, params |-> params, start |-> at(1),
                      exceedFrom |-> at(2) + 1, extreme |-> FurthestPrice(side, peaks),
                      breakoutFrom |-> (IF complete THEN at(3) ELSE Len(candles)) + 1,
                      complete |-> complete,
                      forming |-> ~whole /\ ComesBack(candles, side, at(2),
                                     Signed(side, window[1].price),
                                     params.level_tolerance, height),
                      line |-> Level(window[2].price), height |-> height,
                      expires |-> 0, role |-> "NECKLINE"]
           judged == IF whole /\ ~complete
                     THEN <<Invalid(IF rise > 0 THEN "ANCHOR_EXCEEDED" ELSE "GEOMETRY_BROKEN")>>
                     ELSE Judge(candles, figure)
           neckline == LevelNeckline(window[2], Last(window), window[2].price, {window[2]})
           found == Candidate(candles, at(1), judged, Anchors(window),
                              IF complete THEN {neckline} ELSE {}, {"EXTREME_LEVELS"}, t)
<1>1. candles \in Seq(ClosedCandle) /\ DOMAIN window = 1 .. Len(window)
    BY DEF HaveClosed, AreSwings, IsSequence
<1>2. {1, 2} \subseteq DOMAIN window /\ (whole => 3 \in DOMAIN window)
    BY <1>1
<1>3. at(1) \in Int /\ (complete => at(3) \in Nat \ {0})
    BY <1>1, <1>2, PlacesAre
<1>4. AreJudged(judged, candles, complete, {"NECKLINE"})
    <2>1. /\ figure.complete = complete /\ figure.expires = 0 /\ figure.role = "NECKLINE"
          /\ figure.breakoutFrom = (IF complete THEN at(3) ELSE Len(candles)) + 1
        OBVIOUS
    <2>2. judged = Judge(candles, figure) \/ \E reason : judged = <<Invalid(reason)>>
        OBVIOUS
    <2> HIDE DEF figure, judged, complete, at
    <2> QED
        BY <1>1, <1>3, <2>1, <2>2, NecklinedIsJudged
<1>5. complete => IsNeckline(neckline, window)
    <2>1. CASE complete
        <3>1. Last(window) = window[3] /\ {2, 3} \subseteq DOMAIN window
            BY <1>2, <2>1 DEF Last
        <3>2. /\ window[2].at \in Places(window) /\ "at" \in DOMAIN window[2]
              /\ Last(window).at \in Places(window) /\ "at" \in DOMAIN Last(window)
              /\ \A p \in {window[2]} : p.at \in Places(window)
            BY <1>1, <3>1, PlacesAre
        <3> QED
            BY <3>2, LevelNecklineIs
    <2> QED
        BY <2>1
<1>6. complete => Len(window) >= MinAnchorPivots(type)
    <2>1. MinAnchorPivots(type) = 3
        BY AnchorsNeeded
    <2> QED
        BY <2>1
<1>7. complete \in BOOLEAN
    OBVIOUS
<1>8. \/ DoubleFigure(candles, side, window, t) = found
      \/ DoubleFigure(candles, side, window, t) = <<>>
    BY DEF DoubleFigure
<1> HIDE DEF complete, judged, neckline, at
<1>9. AllFound(found, type, candles, t)
    BY <1>3, <1>4, <1>5, <1>6, <1>7, NecklinedIsFound
<1> HIDE DEF found
<1> QED
    BY <1>8, <1>9, NothingIsFound

LEMMA TripleIsFound ==
    ASSUME NEW t \in Int, NEW candles, HaveClosed(candles, t),
           NEW type \in {"TRIPLE_TOP", "TRIPLE_BOTTOM"}, NEW side,
           NEW window, AreSwings(window, candles), window # <<>>, Len(window) \in 4 .. 5
    PROVE  AllFound(TripleFigure(candles, side, window, t), type, candles, t)
<1> DEFINE params == ReversalParams
           at(n) == PositionOf(candles, window[n].at)
           level(n) == Signed(side, window[n].price)
           peaks == OfKind(window, ExtremeKind(side))
           mean == MeanLevel(side, peaks)
           height == mean - MeanLevel(side, OfKind(window, OppositeKind(side)))
           near(gap) == AtMostShare(Abs(gap), params.level_tolerance, height)
           whole == Len(window) = 5
           complete == whole /\ near(level(5) - mean)
           level2 == Signed(side, Min({level(2), level(4)}))
           figure == [side |-> side, params |-> params, start |-> at(1),
                      exceedFrom |-> at(2) + 1, extreme |-> FurthestPrice(side, peaks),
                      breakoutFrom |-> (IF complete THEN at(5) ELSE Len(candles)) + 1,
                      complete |-> complete,
                      forming |-> ~whole /\ ComesBack(candles, side, at(4), mean,
                                                      params.level_tolerance, height),
                      line |-> Level(level2), height |-> height,
                      expires |-> 0, role |-> "NECKLINE"]
           judged == IF whole /\ ~complete
                     THEN <<Invalid(IF level(5) > Max({level(1), level(3)})
                                    THEN "ANCHOR_EXCEEDED" ELSE "GEOMETRY_BROKEN")>>
                     ELSE Judge(candles, figure)
           neckline == LevelNeckline(window[2], window[5], level2, {window[2], window[4]})
           found == Candidate(candles, at(1), judged, Anchors(window),
                              IF complete THEN {neckline} ELSE {}, {"EXTREME_LEVELS"}, t)
<1>1. candles \in Seq(ClosedCandle) /\ DOMAIN window = 1 .. Len(window)
    BY DEF HaveClosed, AreSwings, IsSequence
<1>2. {1, 2, 4} \subseteq DOMAIN window /\ (whole => 5 \in DOMAIN window)
    BY <1>1
<1>3. at(1) \in Int /\ (complete => at(5) \in Nat \ {0})
    BY <1>1, <1>2, PlacesAre
<1>4. AreJudged(judged, candles, complete, {"NECKLINE"})
    <2>1. /\ figure.complete = complete /\ figure.expires = 0 /\ figure.role = "NECKLINE"
          /\ figure.breakoutFrom = (IF complete THEN at(5) ELSE Len(candles)) + 1
        OBVIOUS
    <2>2. judged = Judge(candles, figure) \/ \E reason : judged = <<Invalid(reason)>>
        OBVIOUS
    <2> HIDE DEF figure, judged, complete, at
    <2> QED
        BY <1>1, <1>3, <2>1, <2>2, NecklinedIsJudged
<1>5. complete => IsNeckline(neckline, window)
    <2>1. CASE complete
        <3>1. {2, 4, 5} \subseteq DOMAIN window
            BY <1>2, <2>1
        <3>2. /\ window[2].at \in Places(window) /\ "at" \in DOMAIN window[2]
              /\ window[5].at \in Places(window) /\ "at" \in DOMAIN window[5]
              /\ \A p \in {window[2], window[4]} : p.at \in Places(window)
            BY <1>1, <3>1, PlacesAre
        <3> QED
            BY <3>2, LevelNecklineIs
    <2> QED
        BY <2>1
<1>6. complete => Len(window) >= MinAnchorPivots(type)
    <2>1. MinAnchorPivots(type) = 5
        BY AnchorsNeeded
    <2> QED
        BY <2>1
<1>7. complete \in BOOLEAN
    OBVIOUS
<1>8. \/ TripleFigure(candles, side, window, t) = found
      \/ TripleFigure(candles, side, window, t) = <<>>
    BY DEF TripleFigure
<1> HIDE DEF complete, judged, neckline, at
<1>9. AllFound(found, type, candles, t)
    BY <1>3, <1>4, <1>5, <1>6, <1>7, NecklinedIsFound
<1> HIDE DEF found
<1> QED
    BY <1>8, <1>9, NothingIsFound

LEMMA ShouldersIsFound ==
    ASSUME NEW t \in Int, NEW candles, HaveClosed(candles, t),
           NEW type \in {"HEAD_AND_SHOULDERS_TOP", "HEAD_AND_SHOULDERS_BOTTOM"}, NEW side,
           NEW window, AreSwings(window, candles), window # <<>>, Len(window) \in 4 .. 5
    PROVE  AllFound(ShouldersFigure(candles, side, window, t), type, candles, t)
<1> DEFINE params == ReversalParams
           at(n) == PositionOf(candles, window[n].at)
           level(n) == Signed(side, window[n].price)
           line == LineThrough(window[2], window[4])
           height == level(3) - Signed(side, PriceAt(line, OpenTime(window[3].at)))
           whole == Len(window) = 5
           complete == /\ whole
                       /\ AtMostShare(Abs(level(1) - level(5)),
                                      params.shoulder_tolerance, height)
                       /\ level(5) < level(3)
           figure == [side |-> side, params |-> params, start |-> at(1),
                      exceedFrom |-> at(3) + 1, extreme |-> window[3].price,
                      breakoutFrom |-> (IF complete THEN at(5) ELSE Len(candles)) + 1,
                      complete |-> complete,
                      forming |-> ~whole /\ ComesBack(candles, side, at(4), level(1),
                                                      params.shoulder_tolerance, height),
                      line |-> line, height |-> height,
                      expires |-> 0, role |-> "NECKLINE"]
           judged == IF whole /\ ~complete
                     THEN <<Invalid(IF level(5) >= level(3)
                                    THEN "ANCHOR_EXCEEDED" ELSE "GEOMETRY_BROKEN")>>
                     ELSE Judge(candles, figure)
           neckline == Neckline(window[2], window[4], {window[2], window[4]})
           found == Candidate(candles, at(1), judged, Anchors(window),
                              IF complete THEN {neckline} ELSE {}, {"HEAD_AND_SHOULDERS"}, t)
<1>1. candles \in Seq(ClosedCandle) /\ DOMAIN window = 1 .. Len(window)
    BY DEF HaveClosed, AreSwings, IsSequence
<1>2. {1, 2, 4} \subseteq DOMAIN window /\ (whole => 5 \in DOMAIN window)
    BY <1>1
<1>3. at(1) \in Int /\ (complete => at(5) \in Nat \ {0})
    BY <1>1, <1>2, PlacesAre
<1>4. AreJudged(judged, candles, complete, {"NECKLINE"})
    <2>1. /\ figure.complete = complete /\ figure.expires = 0 /\ figure.role = "NECKLINE"
          /\ figure.breakoutFrom = (IF complete THEN at(5) ELSE Len(candles)) + 1
        OBVIOUS
    <2>2. judged = Judge(candles, figure) \/ \E reason : judged = <<Invalid(reason)>>
        OBVIOUS
    <2> HIDE DEF figure, judged, complete, at
    <2> QED
        BY <1>1, <1>3, <2>1, <2>2, NecklinedIsJudged
<1>5. complete => IsNeckline(neckline, window)
    <2>1. CASE complete
        <3>1. {2, 4} \subseteq DOMAIN window
            BY <1>2
        <3>2. /\ window[2].at \in Places(window) /\ window[4].at \in Places(window)
              /\ \A p \in {window[2], window[4]} : p.at \in Places(window)
            BY <1>1, <3>1, PlacesAre
        <3> QED
            BY <3>2, NecklineIs
    <2> QED
        BY <2>1
<1>6. complete => Len(window) >= MinAnchorPivots(type)
    <2>1. MinAnchorPivots(type) = 5
        BY AnchorsNeeded
    <2> QED
        BY <2>1
<1>7. complete \in BOOLEAN
    OBVIOUS
<1>8. \/ ShouldersFigure(candles, side, window, t) = found
      \/ ShouldersFigure(candles, side, window, t) = <<>>
    BY DEF ShouldersFigure
<1> HIDE DEF complete, judged, neckline, at
<1>9. AllFound(found, type, candles, t)
    BY <1>3, <1>4, <1>5, <1>6, <1>7, NecklinedIsFound
<1> HIDE DEF found
<1> QED
    BY <1>8, <1>9, NothingIsFound
-----------------------------------------------------------------------------
(* Rounded tops and bottoms *)

\* The right end is after the apex.
LEMMA RightEndIs ==
    ASSUME NEW candles \in Seq(ClosedCandle), NEW side, NEW from, NEW apexAt \in DOMAIN candles,
           NEW left, NEW apex, NEW height, from \in Int,
           NEW right, right = RightEnd(candles, side, from, apexAt, left, apex, height)
    PROVE  right = -1 \/ right = 0 \/ (right \in DOMAIN candles /\ apexAt < right)
<1> DEFINE reach == (apexAt + 1) .. Min({Len(candles), from + ReversalParams.max_arc_candles})
           back == {n \in reach :
                       AtMostShare(Signed(side, candles[n].close) - Signed(side, left.price),
                                   ReversalParams.level_tolerance, height)}
<1>1. Len(candles) \in Nat /\ DOMAIN candles = 1 .. Len(candles)
    OBVIOUS
<1>2. \A x \in reach : x \in DOMAIN candles /\ apexAt < x
    <2> DEFINE a == Len(candles)
               b == from + ReversalParams.max_arc_candles
    <2>1. a \in Int /\ b \in Int
        <3>1. ReversalParams.max_arc_candles \in Int
            BY DetectionAssumption DEF IsReversalParams, AreThresholds
        <3> QED
            BY <1>1, <3>1
    <2> HIDE DEF a, b
    <2>2. Min({a, b}) \in Int /\ Min({a, b}) <= a
        BY <2>1, LeastOfTwo
    <2>3. reach = (apexAt + 1) .. Min({a, b})
        BY DEF a, b
    <2>4. Min({a, b}) <= Len(candles)
        BY <2>2 DEF a
    <2> HIDE DEF reach
    <2> QED
        BY <1>1, <2>2, <2>3, <2>4
<1>3. right = -1 \/ right = 0 \/ (right # 0 /\ right = Earliest(back))
    BY DEF RightEnd
<1>4. \A x \in back : x \in Int /\ x >= 1 /\ x \in DOMAIN candles /\ apexAt < x
    <2> HIDE DEF reach
    <2> QED
        BY <1>1, <1>2
<1> HIDE DEF back
<1> QED
    BY <1>3, <1>4, EarliestIs

LEMMA JoinedToTwo ==
    ASSUME NEW x, NEW y, NEW z
    PROVE  /\ <<x, y>> \o <<z>> = <<x, y, z>>
           /\ <<x, y>> \o <<>> = <<x, y>>
<1> DEFINE S == {x, y, z}
<1>1. <<x, y>> \in Seq(S) /\ <<z>> \in Seq(S) /\ <<>> \in Seq(S)
      /\ <<x, y, z>> \in Seq(S)
    OBVIOUS
<1>2. <<x, y>> \o <<>> = <<x, y>>
    BY <1>1
<1>3. <<x, y>> \o <<z>> = <<x, y, z>>
    <2> DEFINE s == <<x, y>> \o <<z>>
               u == <<x, y, z>>
    <2>1. s \in Seq(S) /\ Len(s) = 3 /\ s[1] = x /\ s[2] = y /\ s[3] = z
        BY <1>1
    <2>2. u \in Seq(S) /\ Len(u) = 3 /\ u[1] = x /\ u[2] = y /\ u[3] = z
        BY <1>1
    <2> HIDE DEF s, u, S
    <2>3. \A i \in 1 .. 3 : s[i] = u[i]
        <3>1. \A i \in 1 .. 3 : i = 1 \/ i = 2 \/ i = 3
            OBVIOUS
        <3> QED
            BY <2>1, <2>2, <3>1
    <2>4. s = u
        BY <2>1, <2>2, <2>3, SeqEqual
    <2> QED
        BY <2>4 DEF s, u
<1> QED
    BY <1>2, <1>3

LEMMA ArcIsFound ==
    ASSUME NEW t \in Int, NEW candles, HaveClosed(candles, t),
           NEW type \in {"ROUNDING_TOP", "ROUNDING_BOTTOM"}, NEW side,
           NEW swings, AreSwings(swings, candles),
           NEW m \in DOMAIN swings, NEW n \in DOMAIN swings, m < n,
           NEW right,
           right = 0 \/ (right \in DOMAIN candles /\ PositionOf(candles, swings[n].at) < right)
    PROVE  AllFound(RoundingEvaluation(candles, side, swings[m], swings[n], right, t),
                    type, candles, t)
<1> DEFINE left == swings[m]
           apex == swings[n]
           from == PositionOf(candles, left.at)
           complete == right # 0
           end == [at |-> candles[right].at, kind |-> OppositeKind(side),
                   price |-> Extreme(OppositeKind(side), candles[right]),
                   confirmed |-> CloseTime(candles[right].at)]
           points == <<Anchor(left), Anchor(apex)>> \o (IF complete THEN <<end>> ELSE <<>>)
           figure == [side |-> side, params |-> ReversalParams,
                      start |-> IF complete THEN right ELSE PositionOf(candles, apex.at),
                      exceedFrom |-> PositionOf(candles, apex.at) + 1, extreme |-> apex.price,
                      breakoutFrom |-> (IF complete THEN right ELSE Len(candles)) + 1,
                      complete |-> complete, forming |-> ~complete,
                      line |-> Level(left.price),
                      height |-> Signed(side, apex.price) - Signed(side, left.price),
                      expires |-> 0, role |-> "BASE"]
           judged == Judge(candles, figure)
           base == [role |-> "BASE",
                    points |-> <<Point(left.at, left.price), Point(end.at, left.price)>>,
                    contacts |-> {left.at, end.at}]
           arc == [role |-> "ARC",
                   points |-> <<Point(left.at, left.price), Point(apex.at, apex.price),
                                Point(end.at, end.price)>>,
                   contacts |-> {apex.at}]
           boundaries == IF complete THEN {base, arc} ELSE {}
<1>1. candles \in Seq(ClosedCandle) /\ Len(candles) \in Nat /\ DOMAIN candles = 1 .. Len(candles)
    BY DEF HaveClosed
<1>2. /\ left.at \in Ats(candles) /\ left.at + K \in Ats(candles)
      /\ apex.at \in Ats(candles) /\ apex.at + K \in Ats(candles) /\ left.at < apex.at
    BY DEF AreSwings
<1>3. from \in Int
    BY <1>1, <1>2, SeriesAre
<1>4. complete => end.at \in Ats(candles) /\ apex.at < end.at /\ IsPast(end.confirmed, t)
    <2>1. SUFFICES ASSUME complete
                   PROVE  end.at \in Ats(candles) /\ apex.at < end.at /\ IsPast(end.confirmed, t)
        OBVIOUS
    <2>2. right \in DOMAIN candles /\ PositionOf(candles, apex.at) < right
        BY <2>1
    <2>3. PositionOf(candles, apex.at) \in DOMAIN candles
          /\ candles[PositionOf(candles, apex.at)].at = apex.at
        BY <1>1, <1>2, SeriesAre
    <2>4. apex.at < candles[right].at
        BY <2>2, <2>3 DEF HaveClosed, AreInOrder
    <2>5. candles[right].at \in Ats(candles)
        BY <2>2 DEF Ats
    <2>6. CloseTime(candles[right].at) <= t
        BY <2>2 DEF HaveClosed
    <2>7. IsPast(CloseTime(candles[right].at), t)
        BY <2>5, <2>6, CandlesArePast DEF IsPast
    <2> QED
        BY <2>4, <2>5, <2>7
<1>5. /\ Anchor(left).at = left.at /\ IsPast(Anchor(left).confirmed, t)
      /\ Anchor(apex).at = apex.at /\ IsPast(Anchor(apex).confirmed, t)
    <2>1. \A i \in Ats(candles) : IsPast(CloseTime(i), t)
        BY ClosedByThen, CandlesArePast DEF IsPast
    <2> QED
        BY <1>2, <2>1 DEF Anchor
<1>6. \/ ~complete /\ points = <<Anchor(left), Anchor(apex)>>
      \/ complete /\ points = <<Anchor(left), Anchor(apex), end>>
    <2> DEFINE x == Anchor(left)
               y == Anchor(apex)
    <2> HIDE DEF x, y, end
    <2>1. points = <<x, y>> \o (IF complete THEN <<end>> ELSE <<>>)
        BY DEF x, y
    <2> HIDE DEF points
    <2>2. /\ <<x, y>> \o <<end>> = <<x, y, end>>
          /\ <<x, y>> \o <<>> = <<x, y>>
        BY JoinedToTwo
    <2> HIDE DEF complete
    <2>3. \/ ~complete /\ points = <<x, y>>
          \/ complete /\ points = <<x, y, end>>
        BY <2>1, <2>2
    <2> QED
        BY <2>3 DEF x, y
<1>7. left.at \in Int /\ apex.at \in Int /\ (complete => end.at \in Int)
    BY <1>2, <1>4, ClosedByThen
<1> HIDE DEF left, apex, end, points
<1>8. AreAnchors(points, candles, t)
    <2> DEFINE x == Anchor(left)
               y == Anchor(apex)
    <2> HIDE DEF x, y
    <2>1. /\ x.at \in Ats(candles) /\ IsPast(x.confirmed, t) /\ y.at \in Ats(candles)
          /\ IsPast(y.confirmed, t) /\ x.at < y.at
          /\ complete => end.at \in Ats(candles) /\ IsPast(end.confirmed, t) /\ y.at < end.at /\ x.at < end.at
        BY <1>2, <1>4, <1>5, <1>7 DEF x, y
    <2>2. CASE ~complete
        <3>1. points = <<x, y>>
            BY <1>6, <2>2 DEF x, y
        <3>2. IsSequence(points)
            BY <3>1, <<x, y>> \in Seq({x, y}), SequenceOf
        <3>3. DOMAIN points = 1 .. 2 /\ points[1] = x /\ points[2] = y /\ points # <<>>
            BY <3>1
        <3>4. \A i \in DOMAIN points : i = 1 \/ i = 2
            BY <3>3
        <3> QED
            BY <2>1, <3>2, <3>3, <3>4 DEF AreAnchors
    <2>3. CASE complete
        <3>1. points = <<x, y, end>>
            BY <1>6, <2>3 DEF x, y
        <3>2. IsSequence(points)
            BY <3>1, <<x, y, end>> \in Seq({x, y, end}), SequenceOf
        <3>3. /\ DOMAIN points = 1 .. 3 /\ points[1] = x /\ points[2] = y /\ points[3] = end
              /\ points # <<>>
            BY <3>1
        <3>4. \A i \in DOMAIN points : i = 1 \/ i = 2 \/ i = 3
            BY <3>3
        <3> QED
            BY <2>1, <2>3, <3>2, <3>3, <3>4 DEF AreAnchors
    <2> QED
        BY <2>2, <2>3
<1>9. AreJudged(judged, candles, complete, {"BASE"})
    <2>1. /\ figure.complete = complete /\ figure.expires = 0 /\ figure.role = "BASE"
          /\ figure.breakoutFrom = (IF complete THEN right ELSE Len(candles)) + 1
        OBVIOUS
    <2>2. figure.breakoutFrom \in Nat \ {0} /\ figure.expires \in Int
        BY <1>1, <2>1
    <2> HIDE DEF figure
    <2> QED
        BY <1>1, <2>1, <2>2, JudgedIs
<1>10. complete => {left.at, apex.at, end.at} \subseteq {a.at : a \in ToSet(points)}
    <2>1. SUFFICES ASSUME complete
                   PROVE  {left.at, apex.at, end.at} \subseteq {a.at : a \in ToSet(points)}
        OBVIOUS
    <2>2. points = <<Anchor(left), Anchor(apex), end>>
        BY <1>6, <2>1
    <2>3. \A x, y, z : ToSet(<<x, y, z>>) = {x, y, z}
        BY DEF ToSet
    <2>4. ToSet(points) = {Anchor(left), Anchor(apex), end}
        BY <2>2, <2>3
    <2> QED
        BY <1>5, <2>4
<1>11. AreBoundaries(boundaries, points, candles)
    <2>1. \A i, price : Point(i, price).at = i
        BY DEF Point
    <2>2. \A x, y, z : ToSet(<<x, y, z>>) = {x, y, z} /\ ToSet(<<x, y>>) = {x, y}
        BY DEF ToSet
    <2>3. /\ ToSet(base.points) = {Point(left.at, left.price), Point(end.at, left.price)}
          /\ ToSet(arc.points) = {Point(left.at, left.price), Point(apex.at, apex.price),
                                  Point(end.at, end.price)}
          /\ base.contacts = {left.at, end.at} /\ arc.contacts = {apex.at}
        BY <2>2
    <2> HIDE DEF base, arc
    <2>4. complete => /\ \A p \in ToSet(base.points) : p.at \in Ats(candles)
                      /\ \A p \in ToSet(arc.points) : p.at \in Ats(candles)
        BY <1>2, <1>4, <2>1, <2>3 DEF left, apex
    <2>5. complete => /\ base.contacts \subseteq {a.at : a \in ToSet(points)}
                      /\ arc.contacts \subseteq {a.at : a \in ToSet(points)}
        BY <1>10, <2>3
    <2> QED
        BY <2>4, <2>5 DEF AreBoundaries
<1>12. complete => IsWhole(type, points, boundaries, {"BASE"})
    <2>1. base.role = "BASE"
        OBVIOUS
    <2>2. complete => Len(points) = 3
        BY <1>6
    <2>3. MinAnchorPivots(type) = 3
        BY AnchorsNeeded
    <2>4. complete => base \in boundaries
        OBVIOUS
    <2> HIDE DEF base, arc, boundaries, complete
    <2>5. complete => {"BASE"} \subseteq {b.role : b \in boundaries} /\ boundaries # {}
        BY <2>1, <2>4
    <2> HIDE DEF points
    <2>6. complete => Len(points) >= MinAnchorPivots(type)
        <3> SUFFICES ASSUME complete PROVE Len(points) >= MinAnchorPivots(type)
            OBVIOUS
        <3>1. Len(points) = 3
            BY <2>2
        <3> QED
            BY <3>1, <2>3
    <2> QED
        BY <2>5, <2>6 DEF IsWhole
<1>13. RoundingEvaluation(candles, side, left, apex, right, t)
         = Candidate(candles, from, judged, points, boundaries, {"ROUNDING_ARC"}, t)
    BY DEF RoundingEvaluation, points, end
<1> HIDE DEF from, judged, boundaries, complete
<1>14. AllFound(Candidate(candles, from, judged, points, boundaries, {"ROUNDING_ARC"}, t),
                type, candles, t)
    BY <1>3, <1>8, <1>9, <1>11, <1>12, CandidatesAreFound
<1> QED
    BY <1>13, <1>14 DEF left, apex

LEMMA RoundingIsFound ==
    ASSUME NEW t \in Int, NEW candles, HaveClosed(candles, t),
           NEW type \in {"ROUNDING_TOP", "ROUNDING_BOTTOM"}, NEW side,
           NEW swings, AreSwings(swings, candles), NEW position \in DOMAIN swings
    PROVE  AllFound(RoundingFigure(candles, side, swings, position, t), type, candles, t)
<1> DEFINE apex == swings[position]
           lefts == {n \in 1 .. (position - 1) :
                        /\ swings[n].kind = OppositeKind(side)
                        /\ BeginsArc(candles, side, swings[n], apex)}
           m == Min(lefts)
           from == PositionOf(candles, swings[m].at)
           apexAt == PositionOf(candles, apex.at)
           right == RightEnd(candles, side, from, apexAt, swings[m], apex,
                             Signed(side, apex.price) - Signed(side, swings[m].price))
           found == RoundingFigure(candles, side, swings, position, t)
<1>1. \/ found = <<>>
      \/ /\ lefts # {} /\ right # -1
         /\ found = RoundingEvaluation(candles, side, swings[m], apex, right, t)
    BY DEF RoundingFigure, RoundingArc
<1>2. lefts # {} => m \in DOMAIN swings /\ m < position
    <2>1. Len(swings) \in Nat /\ DOMAIN swings = 1 .. Len(swings)
        BY DEF AreSwings, IsSequence
    <2>2. \A x \in lefts : x \in Int /\ x >= 1 /\ x \in DOMAIN swings /\ x < position
        BY <2>1
    <2> HIDE DEF lefts
    <2> QED
        BY <2>2, LeastFrom, 1 \in Nat
<1> HIDE DEF m, lefts
<1>3. m \in DOMAIN swings => from \in DOMAIN candles /\ from \in Int
    BY SeriesAre DEF AreSwings, HaveClosed
<1>4. apexAt \in DOMAIN candles
    BY SeriesAre DEF AreSwings, HaveClosed
<1> HIDE DEF from, apexAt
<1>5. CASE found = <<>>
    BY <1>5, NothingIsFound
<1>6. CASE /\ lefts # {} /\ right # -1
           /\ found = RoundingEvaluation(candles, side, swings[m], apex, right, t)
    <2>1. right = 0 \/ (right \in DOMAIN candles /\ apexAt < right)
        BY <1>2, <1>3, <1>4, <1>6, RightEndIs DEF HaveClosed
    <2> HIDE DEF right, found
    <2> QED
        BY <1>2, <1>6, <2>1, ArcIsFound DEF apexAt, found
<1> QED
    BY <1>1, <1>5, <1>6

-----------------------------------------------------------------------------
(* The reversals of all the swings *)

LEMMA ReversalsAreFound ==
    ASSUME NEW t \in Int, NEW candles, HaveClosed(candles, t),
           NEW swings, AreSwings(swings, candles), NEW side, NEW type
    PROVE  /\ type \in {"DOUBLE_TOP", "DOUBLE_BOTTOM"} =>
                 AllFound(DoubleFigures(candles, swings, side, t), type, candles, t)
           /\ type \in {"TRIPLE_TOP", "TRIPLE_BOTTOM"} =>
                 AllFound(TripleFigures(candles, swings, side, t), type, candles, t)
           /\ type \in {"HEAD_AND_SHOULDERS_TOP", "HEAD_AND_SHOULDERS_BOTTOM"} =>
                 AllFound(ShouldersFigures(candles, swings, side, t), type, candles, t)
           /\ type \in {"ROUNDING_TOP", "ROUNDING_BOTTOM"} =>
                 AllFound(RoundingFigures(candles, swings, side, t), type, candles, t)
<1> DEFINE double == [n \in DOMAIN swings |->
                         IF MayBegin(swings, n, side, 2)
                         THEN DoubleFigure(candles, side, Window(swings, n, 3), t) ELSE <<>>]
           triple == [n \in DOMAIN swings |->
                         IF MayBegin(swings, n, side, 4)
                         THEN TripleFigure(candles, side, Window(swings, n, 5), t) ELSE <<>>]
           shoulders == [n \in DOMAIN swings |->
                            IF MayBegin(swings, n, side, 4)
                            THEN ShouldersFigure(candles, side, Window(swings, n, 5), t)
                            ELSE <<>>]
           rounding == [n \in DOMAIN swings |->
                           IF swings[n].kind = ExtremeKind(side)
                           THEN RoundingFigure(candles, side, swings, n, t) ELSE <<>>]
<1>1. Len(swings) \in Nat /\ DOMAIN swings = 1 .. Len(swings)
    BY DEF AreSwings, IsSequence
<1>2. AllFound(<<>>, type, candles, t)
    BY NothingIsFound
<1>3. ASSUME NEW n \in 1 .. Len(swings), NEW least \in Nat, NEW most \in Nat,
             least >= 1, least <= most, MayBegin(swings, n, side, least)
      PROVE  /\ AreSwings(Window(swings, n, most), candles) /\ Window(swings, n, most) # <<>>
             /\ Len(Window(swings, n, most)) \in least .. most
    BY <1>1, <1>3, WindowIs DEF MayBegin
<1>4. ASSUME NEW n \in 1 .. Len(swings), MayBegin(swings, n, side, 2)
      PROVE  /\ AreSwings(Window(swings, n, 3), candles) /\ Window(swings, n, 3) # <<>>
             /\ Len(Window(swings, n, 3)) \in 2 .. 3
    BY <1>3, <1>4, 2 \in Nat /\ 3 \in Nat /\ 2 >= 1 /\ 2 <= 3
<1>5. ASSUME NEW n \in 1 .. Len(swings), MayBegin(swings, n, side, 4)
      PROVE  /\ AreSwings(Window(swings, n, 5), candles) /\ Window(swings, n, 5) # <<>>
             /\ Len(Window(swings, n, 5)) \in 4 .. 5
    BY <1>3, <1>5, 4 \in Nat /\ 5 \in Nat /\ 4 >= 1 /\ 4 <= 5
<1>6. /\ DOMAIN double = 1 .. Len(swings) /\ double = [i \in 1 .. Len(swings) |-> double[i]]
      /\ DOMAIN triple = 1 .. Len(swings) /\ triple = [i \in 1 .. Len(swings) |-> triple[i]]
      /\ DOMAIN shoulders = 1 .. Len(swings)
      /\ shoulders = [i \in 1 .. Len(swings) |-> shoulders[i]]
      /\ DOMAIN rounding = 1 .. Len(swings)
      /\ rounding = [i \in 1 .. Len(swings) |-> rounding[i]]
    BY <1>1
<1>7. type \in {"DOUBLE_TOP", "DOUBLE_BOTTOM"} =>
         \A n \in 1 .. Len(swings) : AllFound(double[n], type, candles, t)
    BY <1>1, <1>2, <1>4, DoubleIsFound
<1>8. type \in {"TRIPLE_TOP", "TRIPLE_BOTTOM"} =>
         \A n \in 1 .. Len(swings) : AllFound(triple[n], type, candles, t)
    BY <1>1, <1>2, <1>5, TripleIsFound
<1>9. type \in {"HEAD_AND_SHOULDERS_TOP", "HEAD_AND_SHOULDERS_BOTTOM"} =>
         \A n \in 1 .. Len(swings) : AllFound(shoulders[n], type, candles, t)
    BY <1>1, <1>2, <1>5, ShouldersIsFound
<1>10. type \in {"ROUNDING_TOP", "ROUNDING_BOTTOM"} =>
         \A n \in 1 .. Len(swings) : AllFound(rounding[n], type, candles, t)
    BY <1>1, <1>2, RoundingIsFound
<1>11. /\ DoubleFigures(candles, swings, side, t) = FlattenSeq(double)
       /\ TripleFigures(candles, swings, side, t) = FlattenSeq(triple)
       /\ ShouldersFigures(candles, swings, side, t) = FlattenSeq(shoulders)
       /\ RoundingFigures(candles, swings, side, t) = FlattenSeq(rounding)
    BY DEF DoubleFigures, TripleFigures, ShouldersFigures, RoundingFigures
<1> HIDE DEF double, triple, shoulders, rounding
<1>12. type \in {"DOUBLE_TOP", "DOUBLE_BOTTOM"} =>
          AllFound(FlattenSeq(double), type, candles, t)
    BY <1>1, <1>6, <1>7, FlattenedAreFound
<1>13. type \in {"TRIPLE_TOP", "TRIPLE_BOTTOM"} =>
          AllFound(FlattenSeq(triple), type, candles, t)
    BY <1>1, <1>6, <1>8, FlattenedAreFound
<1>14. type \in {"HEAD_AND_SHOULDERS_TOP", "HEAD_AND_SHOULDERS_BOTTOM"} =>
          AllFound(FlattenSeq(shoulders), type, candles, t)
    BY <1>1, <1>6, <1>9, FlattenedAreFound
<1>15. type \in {"ROUNDING_TOP", "ROUNDING_BOTTOM"} =>
          AllFound(FlattenSeq(rounding), type, candles, t)
    BY <1>1, <1>6, <1>10, FlattenedAreFound
<1> QED
    BY <1>11, <1>12, <1>13, <1>14, <1>15
-----------------------------------------------------------------------------
(* Channels: what lies between two lines *)

\* The swings of a kind are some of the window's.
LEMMA OfKindIs ==
    ASSUME NEW candles, NEW window, AreSwings(window, candles), NEW kind
    PROVE  /\ IsSequence(OfKind(window, kind))
           /\ ToSet(OfKind(window, kind)) \subseteq ToSet(window)
<1> DEFINE seqs == [n \in DOMAIN window |->
                       IF window[n].kind = kind THEN <<window[n]>> ELSE <<>>]
<1>1. Len(window) \in Nat /\ DOMAIN window = 1 .. Len(window)
    BY DEF AreSwings, IsSequence
<1>2. /\ DOMAIN seqs = 1 .. Len(window) /\ seqs = [i \in 1 .. Len(window) |-> seqs[i]]
      /\ \A i \in 1 .. Len(window) : seqs[i] = <<>> \/ seqs[i] = <<window[i]>>
    BY <1>1
<1>3. \A x : IsSequence(<<x>>)
    <2>1. ASSUME NEW x PROVE IsSequence(<<x>>)
        BY <<x>> \in Seq({x}), SequenceOf
    <2> QED
        BY <2>1
<1>4. IsSequence(<<>>)
    BY <<>> \in Seq({}), SequenceOf
<1>5. (\A x : ToSet(<<x>>) = {x}) /\ ToSet(<<>>) = {}
    BY DEF ToSet
<1> HIDE DEF seqs
<1>6. \A i \in 1 .. Len(window) : IsSequence(seqs[i]) /\ ToSet(seqs[i]) \subseteq ToSet(window)
    <2>1. SUFFICES ASSUME NEW i \in 1 .. Len(window)
                   PROVE  IsSequence(seqs[i]) /\ ToSet(seqs[i]) \subseteq ToSet(window)
        OBVIOUS
    <2>2. window[i] \in ToSet(window)
        BY <1>1 DEF ToSet
    <2>3. CASE seqs[i] = <<>>
        BY <1>4, <1>5, <2>3
    <2>4. CASE seqs[i] = <<window[i]>>
        <3>1. IsSequence(<<window[i]>>) /\ ToSet(<<window[i]>>) = {window[i]}
            BY <1>3, <1>5
        <3> QED
            BY <2>2, <2>4, <3>1
    <2> QED
        BY <1>2, <2>3, <2>4
<1>7. /\ IsSequence(FlattenSeq(seqs))
      /\ \A x \in ToSet(FlattenSeq(seqs)) : \E i \in 1 .. Len(window) : x \in ToSet(seqs[i])
    BY <1>1, <1>2, <1>6, FlattenedFrom
<1>8. OfKind(window, kind) = FlattenSeq(seqs)
    BY DEF OfKind, seqs
<1> QED
    BY <1>6, <1>7, <1>8

\* The ends of a line are places of the window.
LEMMA EndsAre ==
    ASSUME NEW s, IsSequence(s), s # <<>>
    PROVE  Head(s) \in ToSet(s) /\ Last(s) \in ToSet(s)
<1>1. Len(s) \in Nat /\ Len(s) # 0 /\ DOMAIN s = 1 .. Len(s)
    BY DEF IsSequence
<1>2. 1 \in DOMAIN s /\ Len(s) \in DOMAIN s
    BY <1>1
<1>3. Head(s) = s[1] /\ Last(s) = s[Len(s)]
    BY <1>1 DEF Last, IsSequence
<1> QED
    BY <1>2, <1>3 DEF ToSet

\* _expires_after: a position later than the channel's last, or none.
LEMMA ExpiryIsLater ==
    ASSUME NEW candles \in Seq(ClosedCandle), NEW last \in Nat \ {0}, NEW end, NEW height,
           NEW gap, NEW span
    PROVE  ExpiresAfter(candles, last, end, height, gap, span) \in Nat
<1> DEFINE late == {n \in (last + 1) .. Len(candles) :
                       (CloseTime(candles[n].at) - end) * (height - gap) >= span * gap}
<1>1. late # {} => Min(late) \in Int /\ Min(late) >= 1
    <2>1. \A x \in late : x \in Int /\ x >= 1
        OBVIOUS
    <2> HIDE DEF late
    <2> QED
        BY <2>1, LeastFrom
<1>2. \/ ExpiresAfter(candles, last, end, height, gap, span) = 0
      \/ Earliest(late) # 0 /\ ExpiresAfter(candles, last, end, height, gap, span) = Earliest(late) - 1
    BY DEF ExpiresAfter
<1> HIDE DEF late
<1>3. Earliest(late) = 0 \/ (late # {} /\ Earliest(late) = Min(late))
    BY DEF Earliest
<1> QED
    BY <1>1, <1>2, <1>3

\* A window with contacts on both sides.
IsBounded(window, candles) ==
    /\ AreSwings(window, candles) /\ window # <<>>
    /\ OfKind(window, "HIGH") # <<>> /\ OfKind(window, "LOW") # <<>>

\* The two lines of a channel: where they are drawn, and what they touch.
AreItsLines(boundaries, window, candles) ==
    \A b \in boundaries : /\ \A p \in ToSet(b.points) : p.at \in Ats(candles)
                          /\ b.contacts \subseteq {x.at : x \in ToSet(window)}

LEMMA MeasuredIs ==
    ASSUME NEW candles \in Seq(ClosedCandle), NEW window, IsBounded(window, candles)
    PROVE  LET fit == MeasuredChannel(candles, window)
           IN  /\ fit.window = window
               /\ fit.first \in DOMAIN candles /\ fit.last \in DOMAIN candles
               /\ fit.expires \in Nat
               /\ {b.role : b \in BoundariesOf(fit)} = {"UPPER", "LOWER"}
               /\ AreItsLines(BoundariesOf(fit), window, candles)
<1> DEFINE fit == MeasuredChannel(candles, window)
           highs == OfKind(window, "HIGH")
           lows == OfKind(window, "LOW")
<1>1. /\ fit.window = window /\ fit.highs = highs /\ fit.lows = lows
      /\ fit.first = PositionOf(candles, Head(window).at)
      /\ fit.last = PositionOf(candles, Last(window).at)
      /\ \E end, height, gap, span :
            fit.expires = ExpiresAfter(candles, PositionOf(candles, Last(window).at),
                                       end, height, gap, span)
    BY DEF MeasuredChannel
<1>2. /\ IsSequence(window) /\ window # <<>>
      /\ \A x \in ToSet(window) : x.at \in Ats(candles)
    BY DEF IsBounded, AreSwings, ToSet
<1>3. /\ PositionOf(candles, Head(window).at) \in DOMAIN candles
      /\ PositionOf(candles, Last(window).at) \in DOMAIN candles
    BY <1>2, EndsAre, SeriesAre
<1> HIDE DEF fit
<1>4. fit.first \in DOMAIN candles /\ fit.last \in DOMAIN candles
    BY <1>1, <1>3
<1>5. fit.expires \in Nat
    <2>1. PositionOf(candles, Last(window).at) \in Nat \ {0}
        BY <1>3
    <2> QED
        BY <1>1, <2>1, ExpiryIsLater
<1>6. ASSUME NEW s, s = highs \/ s = lows
      PROVE  /\ Head(s).at \in Ats(candles) /\ Last(s).at \in Ats(candles)
             /\ {p.at : p \in ToSet(s)} \subseteq {x.at : x \in ToSet(window)}
    <2>1. IsSequence(s) /\ s # <<>> /\ ToSet(s) \subseteq ToSet(window)
        BY <1>6, OfKindIs DEF IsBounded
    <2> QED
        BY <1>2, <2>1, EndsAre
<1> DEFINE drawn(role, s) ==
             [role |-> role,
              points |-> <<Point(Head(s).at, Head(s).price), Point(Last(s).at, Last(s).price)>>,
              contacts |-> {p.at : p \in ToSet(s)}]
<1>7. BoundariesOf(fit) = {drawn("UPPER", highs), drawn("LOWER", lows)}
    <2>1. BoundariesOf(fit) = {drawn("UPPER", fit.highs), drawn("LOWER", fit.lows)}
        BY DEF BoundariesOf
    <2> QED
        BY <1>1, <2>1
<1>8. ASSUME NEW role, NEW s, s = highs \/ s = lows
      PROVE  /\ drawn(role, s).role = role
             /\ \A p \in ToSet(drawn(role, s).points) : p.at \in Ats(candles)
             /\ drawn(role, s).contacts \subseteq {x.at : x \in ToSet(window)}
    <2> DEFINE x == Point(Head(s).at, Head(s).price)
               y == Point(Last(s).at, Last(s).price)
    <2>1. x.at \in Ats(candles) /\ y.at \in Ats(candles)
        BY <1>6, <1>8 DEF Point
    <2> HIDE DEF x, y
    <2>2. ToSet(<<x, y>>) = {x, y}
        BY DEF ToSet
    <2>3. /\ drawn(role, s).role = role /\ drawn(role, s).points = <<x, y>>
          /\ drawn(role, s).contacts = {p.at : p \in ToSet(s)}
        BY DEF x, y
    <2> HIDE DEF drawn
    <2> QED
        BY <1>6, <1>8, <2>1, <2>2, <2>3
<1> HIDE DEF highs, lows
<1>9. {b.role : b \in BoundariesOf(fit)} = {"UPPER", "LOWER"}
    <2>1. drawn("UPPER", highs).role = "UPPER" /\ drawn("LOWER", lows).role = "LOWER"
        OBVIOUS
    <2> HIDE DEF drawn
    <2> QED
        BY <1>7, <2>1
<1>10. AreItsLines(BoundariesOf(fit), window, candles)
    <2> HIDE DEF drawn
    <2> QED
        BY <1>7, <1>8 DEF AreItsLines
<1> QED
    BY <1>1, <1>4, <1>5, <1>9, <1>10 DEF fit

\* first_breakout: the judgement of one of the two lines.
LEMMA ChannelIsJudged ==
    ASSUME NEW candles \in Seq(ClosedCandle), NEW params, NEW fit,
           fit.last \in Nat, fit.expires \in Int, NEW start
    PROVE  AreJudged(JudgeChannel(candles, params, fit, start), candles, TRUE,
                     {"UPPER", "LOWER"})
<1>1. ASSUME NEW side
      PROVE  AreJudged(Watch(candles, params, side, fit, start), candles, TRUE,
                       {"UPPER", "LOWER"})
    <2> DEFINE f == [side |-> side, params |-> params, start |-> start, exceedFrom |-> 0,
                     extreme |-> 0, breakoutFrom |-> fit.last + 1, complete |-> TRUE,
                     forming |-> FALSE,
                     line |-> IF side = "BOTTOM" THEN fit.upper ELSE fit.lower,
                     height |-> fit.height, expires |-> fit.expires,
                     role |-> IF side = "BOTTOM" THEN "UPPER" ELSE "LOWER"]
    <2>1. Watch(candles, params, side, fit, start) = Judge(candles, f)
        BY DEF Watch
    <2>2. /\ f.breakoutFrom = fit.last + 1 /\ f.expires = fit.expires /\ f.complete = TRUE
          /\ f.role = "UPPER" \/ f.role = "LOWER"
        OBVIOUS
    <2> HIDE DEF f
    <2>3. f.breakoutFrom \in Nat \ {0} /\ f.expires \in Int
        BY <2>2
    <2>4. AreJudged(Judge(candles, f), candles, f.complete, {f.role})
        BY <2>3, JudgedIs
    <2>5. \A j : IsJudgement(j, candles, f.complete, {f.role}) =>
                 IsJudgement(j, candles, TRUE, {"UPPER", "LOWER"})
        <3>1. {f.role} \subseteq {"UPPER", "LOWER"}
            BY <2>2
        <3>2. f.complete = TRUE
            BY <2>2
        <3> QED
            BY <3>1, <3>2 DEF IsJudgement
    <2> QED
        BY <2>1, <2>4, <2>5 DEF AreJudged
<1> DEFINE up == Watch(candles, params, "BOTTOM", fit, start)
           down == Watch(candles, params, "TOP", fit, start)
           both == FirstBreakout(up, down)
<1>2. AreJudged(up, candles, TRUE, {"UPPER", "LOWER"})
      /\ AreJudged(down, candles, TRUE, {"UPPER", "LOWER"})
    BY <1>1
<1> HIDE DEF up, down
<1>3. /\ DOMAIN both = DOMAIN up \cap DOMAIN down
      /\ \A n \in DOMAIN both : both[n] = up[n] \/ both[n] = down[n]
    BY DEF FirstBreakout
<1> HIDE DEF both
<1>4. AreJudged(both, candles, TRUE, {"UPPER", "LOWER"})
    <2>1. IsShort(both)
        BY <1>2, <1>3 DEF AreJudged, IsShort
    <2>2. \A n \in DOMAIN both : IsJudgement(both[n], candles, TRUE, {"UPPER", "LOWER"})
        BY <1>2, <1>3 DEF AreJudged
    <2> QED
        BY <2>1, <2>2 DEF AreJudged
<1>5. JudgeChannel(candles, params, fit, start) = both
    BY DEF JudgeChannel, both, up, down
<1> QED
    BY <1>4, <1>5

\* A channel of some window is told of as a figure whose anchors hold it.
LEMMA ChannelCandidate ==
    ASSUME NEW t \in Int, NEW candles, HaveClosed(candles, t), NEW type,
           NEW window, IsBounded(window, candles), NEW start \in Int,
           NEW points, AreAnchors(points, candles, t),
           {x.at : x \in ToSet(window)} \subseteq {a.at : a \in ToSet(points)},
           Len(points) >= MinAnchorPivots(type), NEW codes, NEW from,
           NEW fit, fit = MeasuredChannel(candles, window)
    PROVE  AllFound(Candidate(candles, start,
                              JudgeChannel(candles, ContinuationParams, fit, from),
                              points, BoundariesOf(fit), codes, t),
                    type, candles, t)
<1> DEFINE boundaries == BoundariesOf(fit)
           judged == JudgeChannel(candles, ContinuationParams, fit, from)
<1>1. candles \in Seq(ClosedCandle)
    BY DEF HaveClosed
<1>2. /\ fit.last \in DOMAIN candles /\ fit.expires \in Nat
      /\ {b.role : b \in boundaries} = {"UPPER", "LOWER"}
      /\ AreItsLines(boundaries, window, candles)
    BY <1>1, MeasuredIs
<1>3. AreJudged(judged, candles, TRUE, {"UPPER", "LOWER"})
    <2>1. fit.last \in Nat /\ fit.expires \in Int
        BY <1>1, <1>2
    <2> QED
        BY <1>1, <2>1, ChannelIsJudged
<1>4. {x.at : x \in ToSet(window)} \subseteq {a.at : a \in ToSet(points)}
    OBVIOUS
<1> HIDE DEF boundaries, judged
<1>5. AreBoundaries(boundaries, points, candles)
    BY <1>2, <1>4 DEF AreBoundaries, AreItsLines
<1>6. IsWhole(type, points, boundaries, {"UPPER", "LOWER"})
    <2>1. boundaries # {}
        BY <1>2
    <2> QED
        BY <1>2, <2>1 DEF IsWhole
<1>7. AllFound(Candidate(candles, start, judged, points, boundaries, codes, t),
               type, candles, t)
    BY <1>3, <1>5, <1>6, CandidatesAreFound
<1> QED
    BY <1>7 DEF boundaries, judged
-----------------------------------------------------------------------------
(* grow_channel, and the figures of one channel *)

\* A channel of a run of swings, with contacts on both sides.
IsChannelTo(fit, candles, swings, m, n) ==
    /\ IsBounded(SubSeq(swings, m, n), candles)
    /\ fit = MeasuredChannel(candles, SubSeq(swings, m, n))

\* One channel of a run from a swing that is no shorter than it may be, if any.
IsGrown(found, candles, swings, m, fewest) ==
    \/ found = <<>>
    \/ \E n \in 1 .. Len(swings) : \E fit :
          /\ n - m + 1 >= fewest
          /\ IsChannelTo(fit, candles, swings, m, n)
          /\ found = <<fit>>

LEMMA FittedIs ==
    ASSUME NEW candles, NEW swings, AreSwings(swings, candles),
           NEW m \in 1 .. Len(swings), NEW n \in 1 .. Len(swings), m <= n,
           NEW params, NEW least, NEW check, NEW found, found # <<>>,
           found = FitChannel(candles, params, SubSeq(swings, m, n), least, check)
    PROVE  \E fit : found = <<fit>> /\ IsChannelTo(fit, candles, swings, m, n)
<1> DEFINE run == SubSeq(swings, m, n)
<1>1. AreSwings(run, candles) /\ run # <<>>
    BY PartOfSwings
<1> HIDE DEF run
<1>2. /\ found = <<MeasuredChannel(candles, run)>>
      /\ Len(OfKind(run, "HIGH")) >= 2 /\ Len(OfKind(run, "LOW")) >= 2
    BY DEF FitChannel, run
<1>3. Len(<<>>) = 0
    OBVIOUS
<1>4. OfKind(run, "HIGH") # <<>> /\ OfKind(run, "LOW") # <<>>
    BY <1>2, <1>3
<1>5. IsBounded(run, candles)
    BY <1>1, <1>4 DEF IsBounded
<1>6. IsChannelTo(MeasuredChannel(candles, run), candles, swings, m, n)
    BY <1>5 DEF IsChannelTo, run
<1> QED
    BY <1>2, <1>6

\* grow_channel: the channel of one of the sizes.
LEMMA GrownIsAccepted ==
    ASSUME NEW candles, NEW swings, NEW position, NEW fits, NEW a \in Int, NEW b \in Int,
           DOMAIN fits = a .. b, GrowChannel(candles, swings, position, fits) # <<>>
    PROVE  \E size \in a .. b :
              /\ GrowChannel(candles, swings, position, fits) = fits[size]
              /\ fits[size] # <<>>
<1> DEFINE good == {n \in DOMAIN fits :
                       /\ fits[n] # <<>>
                       /\ n - 1 \in DOMAIN fits =>
                             \A f \in ToSet(fits[n - 1]) :
                                ~LeftTheLines(f, candles,
                                     PositionOf(candles, swings[position + n - 1].at))}
           whole == {n \in good : \A m \in DOMAIN fits : m <= n => m \in good}
<1>1. /\ GrowChannel(candles, swings, position, fits) = fits[Max(whole)]
      /\ whole # {}
    BY DEF GrowChannel
<1>2. whole \in SUBSET Int /\ \A n \in whole : n <= b /\ fits[n] # <<>> /\ n \in a .. b
    OBVIOUS
<1> HIDE DEF whole
<1>3. Max(whole) \in whole
    BY <1>1, <1>2, GreatestOfBounded
<1> QED
    BY <1>1, <1>2, <1>3

\* The sizes that were tried from a swing, and what each was accepted as.
LEMMA GrownIs ==
    ASSUME NEW candles, NEW swings, AreSwings(swings, candles),
           NEW m \in 1 .. Len(swings), NEW fewest \in Nat \ {0}, NEW fits,
           DOMAIN fits = fewest .. (Len(swings) - m + 1),
           \A size \in DOMAIN fits :
              \/ fits[size] = <<>>
              \/ \E params, least, check :
                    fits[size] = FitChannel(candles, params, SubSeq(swings, m, m + size - 1),
                                            least, check)
    PROVE  IsGrown(GrowChannel(candles, swings, m, fits), candles, swings, m, fewest)
<1> DEFINE grown == GrowChannel(candles, swings, m, fits)
<1>1. Len(swings) \in Nat
    BY DEF AreSwings, IsSequence
<1>2. CASE grown = <<>>
    BY <1>2 DEF IsGrown
<1>3. CASE grown # <<>>
    <2>1. PICK size \in fewest .. (Len(swings) - m + 1) : grown = fits[size] /\ fits[size] # <<>>
        <3>1. fewest \in Int /\ Len(swings) - m + 1 \in Int
            BY <1>1
        <3> QED
            BY <1>3, <3>1, GrownIsAccepted
    <2> HIDE DEF grown
    <2>2. m + size - 1 \in 1 .. Len(swings) /\ m <= m + size - 1
          /\ (m + size - 1) - m + 1 >= fewest
        BY <1>1
    <2>3. PICK params, least, check :
             fits[size] = FitChannel(candles, params, SubSeq(swings, m, m + size - 1),
                                     least, check)
        BY <2>1
    <2>4. \E fit : fits[size] = <<fit>> /\ IsChannelTo(fit, candles, swings, m, m + size - 1)
        BY <2>1, <2>2, <2>3, FittedIs
    <2>5. IsGrown(grown, candles, swings, m, fewest)
        BY <2>1, <2>2, <2>4 DEF IsGrown
    <2> QED
        BY <2>5 DEF grown
<1> QED
    BY <1>2, <1>3

\* ChannelDetector.find: one channel.
LEMMA ChannelIsFound ==
    ASSUME NEW t \in Int, NEW candles, HaveClosed(candles, t), NEW type,
           NEW swings, AreSwings(swings, candles), NEW m \in 1 .. Len(swings),
           NEW n \in 1 .. Len(swings), NEW fewest \in Nat \ {0}, n - m + 1 >= fewest,
           MinAnchorPivots(type) \in Int, fewest >= MinAnchorPivots(type),
           NEW fit, IsChannelTo(fit, candles, swings, m, n)
    PROVE  AllFound(ChannelEvaluation(candles, fit, t), type, candles, t)
<1> DEFINE window == SubSeq(swings, m, n)
           points == Anchors(window)
<1>1. Len(swings) \in Nat
    BY DEF AreSwings, IsSequence
<1>2. m <= n /\ n - m + 1 \in Int
    BY <1>1
<1>3. AreSwings(window, candles) /\ window # <<>> /\ Len(window) = n - m + 1
    BY <1>2, PartOfSwings
<1>4. IsBounded(window, candles) /\ fit = MeasuredChannel(candles, window)
    BY DEF IsChannelTo
<1> HIDE DEF window
<1>5. /\ AreAnchors(points, candles, t) /\ Len(points) = Len(window)
      /\ \A i \in DOMAIN window : window[i].at \in {a.at : a \in ToSet(points)}
    BY <1>3, AnchorsAre
<1>6. fit.window = window /\ fit.first \in DOMAIN candles
    BY <1>4, MeasuredIs DEF HaveClosed
<1>7. fit.first \in Int
    BY <1>6 DEF HaveClosed
<1> HIDE DEF points
<1>8. {x.at : x \in ToSet(window)} \subseteq {a.at : a \in ToSet(points)}
    BY <1>5 DEF ToSet
<1>9. Len(points) >= MinAnchorPivots(type)
    BY <1>2, <1>3, <1>5
<1>10. ChannelEvaluation(candles, fit, t)
         = Candidate(candles, fit.first,
                     JudgeChannel(candles, ContinuationParams, fit, fit.first),
                     points, BoundariesOf(fit), {"CHANNEL"}, t)
    BY <1>6 DEF ChannelEvaluation, points
<1>11. AllFound(Candidate(candles, fit.first,
                          JudgeChannel(candles, ContinuationParams, fit, fit.first),
                          points, BoundariesOf(fit), {"CHANNEL"}, t),
                type, candles, t)
    BY <1>4, <1>5, <1>7, <1>8, <1>9, ChannelCandidate
<1> QED
    BY <1>10, <1>11

LEMMA ChannelsAreFound ==
    ASSUME NEW t \in Int, NEW candles, HaveClosed(candles, t),
           NEW type \in Triangles \cup Wedges \cup {"RECTANGLE", "BROADENING_FORMATION"},
           NEW swings, AreSwings(swings, candles)
    PROVE  AllFound(ChannelFigures(candles, swings, type, t), type, candles, t)
<1> DEFINE fewest == IF type = "BROADENING_FORMATION" THEN 5 ELSE 4
           accepted(run) == Accepted(FitChannel(candles, ContinuationParams, run,
                                                ContinuationParams.min_channel_candles, TRUE),
                                     LAMBDA fit : AcceptsSlopes(type, fit))
           runs(n) == RunsFrom(swings, n, fewest)
           fits(n) == [size \in DOMAIN runs(n) |-> accepted(runs(n)[size])]
           grown == [n \in DOMAIN swings |-> GrowChannel(candles, swings, n, fits(n))]
           end(n) == n + Len(grown[n][1].window) - 1
           isNew(n) == /\ grown[n] # <<>>
                       /\ \A m \in 1 .. (n - 1) : grown[m] # <<>> => end(m) < end(n)
           seqs == [n \in DOMAIN swings |->
                       IF isNew(n) THEN ChannelEvaluation(candles, grown[n][1], t) ELSE <<>>]
<1>1. Len(swings) \in Nat /\ DOMAIN swings = 1 .. Len(swings)
    BY DEF AreSwings, IsSequence
<1>2. \A run : \/ accepted(run) = <<>>
               \/ \E params, least, check :
                     accepted(run) = FitChannel(candles, params, run, least, check)
    BY DEF Accepted
<1>3. /\ fewest \in Nat \ {0} /\ MinAnchorPivots(type) \in Int
      /\ fewest >= MinAnchorPivots(type)
    BY AnchorsNeeded DEF Triangles, Wedges
<1>4. ASSUME NEW n \in 1 .. Len(swings)
      PROVE  IsGrown(grown[n], candles, swings, n, fewest)
    <2>1. /\ DOMAIN runs(n) = fewest .. (Len(swings) - n + 1)
          /\ \A size \in DOMAIN runs(n) : runs(n)[size] = SubSeq(swings, n, n + size - 1)
        <3> HIDE DEF fewest
        <3> QED
            BY DEF RunsFrom
    <2>2. /\ DOMAIN fits(n) = fewest .. (Len(swings) - n + 1)
          /\ \A size \in DOMAIN fits(n) :
                fits(n)[size] = accepted(SubSeq(swings, n, n + size - 1))
        <3> HIDE DEF runs, accepted
        <3> QED
            BY <2>1
    <2>3. grown[n] = GrowChannel(candles, swings, n, fits(n))
        <3> HIDE DEF fits
        <3> QED
            BY <1>1
    <2> HIDE DEF accepted, fits, fewest
    <2>4. IsGrown(GrowChannel(candles, swings, n, fits(n)), candles, swings, n, fewest)
        BY <1>2, <1>3, <2>2, GrownIs
    <2> HIDE DEF grown
    <2> QED
        BY <2>3, <2>4
<1> HIDE DEF grown, fewest
<1>5. ASSUME NEW n \in 1 .. Len(swings)
      PROVE  AllFound(seqs[n], type, candles, t)
    <2>1. seqs[n] = IF isNew(n) THEN ChannelEvaluation(candles, grown[n][1], t) ELSE <<>>
        <3> HIDE DEF isNew
        <3> QED
            BY <1>1
    <2>2. isNew(n) => grown[n] # <<>>
        OBVIOUS
    <2> HIDE DEF isNew, seqs
    <2>3. CASE isNew(n)
        <3>1. PICK k \in 1 .. Len(swings) :
                 \E fit : /\ k - n + 1 >= fewest
                          /\ IsChannelTo(fit, candles, swings, n, k)
                          /\ grown[n] = <<fit>>
            BY <1>4, <2>2, <2>3 DEF IsGrown
        <3>2. PICK fit : /\ k - n + 1 >= fewest
                         /\ IsChannelTo(fit, candles, swings, n, k)
                         /\ grown[n] = <<fit>>
            BY <3>1
        <3>3. grown[n][1] = fit
            BY <3>2
        <3>4. AllFound(ChannelEvaluation(candles, fit, t), type, candles, t)
            BY <1>3, <3>2, ChannelIsFound
        <3> QED
            BY <2>1, <2>3, <3>3, <3>4
    <2>4. CASE ~isNew(n)
        BY <2>1, <2>4, NothingIsFound
    <2> QED
        BY <2>3, <2>4
<1>6. ChannelFigures(candles, swings, type, t) = FlattenSeq(seqs)
    BY DEF ChannelFigures, grown, fewest
<1>7. DOMAIN seqs = 1 .. Len(swings) /\ seqs = [i \in 1 .. Len(swings) |-> seqs[i]]
    <2> HIDE DEF isNew
    <2> QED
        BY <1>1
<1> HIDE DEF seqs
<1> QED
    BY <1>1, <1>5, <1>6, <1>7, FlattenedAreFound

-----------------------------------------------------------------------------
(* A mast and its pause *)

LEMMA PrefixedIs ==
    ASSUME NEW candles, NEW swings, AreSwings(swings, candles),
           NEW m \in 1 .. Len(swings), NEW n \in 1 .. Len(swings), m + 1 <= n
    PROVE  <<swings[m]>> \o SubSeq(swings, m + 1, n) = SubSeq(swings, m, n)
<1> DEFINE S == ToSet(swings)
           x == swings[m]
           u == SubSeq(swings, m + 1, n)
           w == SubSeq(swings, m, n)
<1>1. Len(swings) \in Nat /\ DOMAIN swings = 1 .. Len(swings) /\ swings \in Seq(S)
    BY DEF AreSwings, IsSequence
<1>2. /\ m \in Int /\ n \in Int /\ m + 1 \in 1 .. Len(swings) /\ m <= n
      /\ n - (m + 1) + 1 = n - m /\ n - m \in Nat
    BY <1>1
<1>3. x \in S
    BY <1>1 DEF ToSet
<1>4. /\ Len(u) = n - m /\ DOMAIN u = 1 .. (n - m)
      /\ \A i \in 1 .. (n - m) : u[i] = swings[i + (m + 1) - 1]
      /\ Len(w) = n - m + 1 /\ DOMAIN w = 1 .. (n - m + 1)
      /\ \A i \in 1 .. (n - m + 1) : w[i] = swings[i + m - 1]
    BY <1>2, PartOfSwings
<1>5. u \in Seq(S) /\ w \in Seq(S)
    BY <1>1, <1>2
<1> HIDE DEF u, w, x, S
<1> DEFINE v == <<x>> \o u
<1>6. /\ v \in Seq(S) /\ Len(v) = n - m + 1 /\ v[1] = x
      /\ \A i \in 2 .. (n - m + 1) : v[i] = u[i - 1]
    BY <1>2, <1>3, <1>4, <1>5
<1> HIDE DEF v
<1>7. \A i \in 1 .. (n - m + 1) : v[i] = w[i]
    <2>1. ASSUME NEW i \in 1 .. (n - m + 1), i # 1
          PROVE  v[i] = w[i]
        <3>1. i \in 2 .. (n - m + 1) /\ i - 1 \in 1 .. (n - m)
              /\ (i - 1) + (m + 1) - 1 = i + m - 1
            BY <1>2, <2>1
        <3> QED
            BY <1>4, <1>6, <3>1
    <2>2. v[1] = w[1]
        <3>1. 1 \in 1 .. (n - m + 1) /\ 1 + m - 1 = m
            BY <1>2
        <3> QED
            BY <1>4, <1>6, <3>1 DEF x
    <2> QED
        BY <2>1, <2>2
<1>8. v = w
    BY <1>4, <1>5, <1>6, <1>7, SeqEqual
<1> QED
    BY <1>8 DEF v, u, w, x

LEMMA PauseIsFound ==
    ASSUME NEW t \in Int, NEW candles, HaveClosed(candles, t), NEW type \in Masts,
           NEW swings, AreSwings(swings, candles), NEW m \in 1 .. Len(swings),
           NEW n \in 1 .. Len(swings), n - (m + 1) + 1 >= 4,
           NEW fit, IsChannelTo(fit, candles, swings, m + 1, n)
    PROVE  AllFound(PauseEvaluation(candles, swings[m], fit, t), type, candles, t)
<1> DEFINE window == SubSeq(swings, m + 1, n)
           held == SubSeq(swings, m, n)
           points == Anchors(held)
           start == swings[m]
<1>1. Len(swings) \in Nat /\ DOMAIN swings = 1 .. Len(swings)
    BY DEF AreSwings, IsSequence
<1>2. m + 1 \in 1 .. Len(swings) /\ m + 1 <= n /\ m <= n /\ n - m + 1 >= 5
      /\ n - (m + 1) + 1 \in Int /\ n - m + 1 \in Int /\ n \in Int /\ m \in Int
    BY <1>1
<1>3. /\ AreSwings(held, candles) /\ held # <<>> /\ Len(held) = n - m + 1
      /\ DOMAIN held = 1 .. (n - m + 1)
      /\ \A i \in 1 .. (n - m + 1) : held[i] = swings[i + m - 1]
    <2>1. AreSwings(held, candles) /\ held # <<>> /\ Len(held) = n - m + 1
        <3>1. m <= n
            BY <1>2
        <3>2. AreSwings(SubSeq(swings, m, n), candles) /\ SubSeq(swings, m, n) # <<>>
            BY <3>1, PartOfSwings
        <3>3. Len(SubSeq(swings, m, n)) = n - m + 1
            BY <3>1, PartOfSwings
        <3> QED
            BY <3>2, <3>3
    <2>2. /\ DOMAIN held = 1 .. (n - m + 1)
          /\ \A i \in 1 .. (n - m + 1) : held[i] = swings[i + m - 1]
        BY <1>2, PartIsSequence
    <2> QED
        BY <2>1, <2>2
<1>4. IsBounded(window, candles) /\ fit = MeasuredChannel(candles, window)
    BY DEF IsChannelTo
<1>5. <<start>> \o window = held
    BY <1>2, PrefixedIs
<1>6. ToSet(window) \subseteq ToSet(held)
    <2> DEFINE from == m + 1
    <2>0. from \in Int /\ n \in Int
        BY <1>2
    <2> HIDE DEF from
    <2>3. /\ DOMAIN SubSeq(swings, from, n) = 1 .. (n - from + 1)
          /\ \A i \in 1 .. (n - from + 1) : SubSeq(swings, from, n)[i] = swings[i + from - 1]
        BY <2>0, PartIsSequence
    <2>1. /\ DOMAIN window = 1 .. (n - (m + 1) + 1)
          /\ \A i \in 1 .. (n - (m + 1) + 1) : window[i] = swings[i + (m + 1) - 1]
        BY <2>3 DEF from
    <2>2. ASSUME NEW i \in DOMAIN window
          PROVE  i + 1 \in DOMAIN held /\ window[i] = held[i + 1]
        <3>1. i + 1 \in 1 .. (n - m + 1) /\ (i + 1) + m - 1 = i + (m + 1) - 1
            BY <1>2, <2>1
        <3> HIDE DEF window, held
        <3> QED
            BY <1>3, <2>1, <3>1
    <2> HIDE DEF window, held
    <2> QED
        BY <2>2 DEF ToSet
<1> HIDE DEF window, held
<1>7. /\ AreAnchors(points, candles, t) /\ Len(points) = Len(held)
      /\ \A i \in DOMAIN held : held[i].at \in {a.at : a \in ToSet(points)}
    BY <1>3, AnchorsAre
<1>8. fit.window = window /\ PositionOf(candles, start.at) \in DOMAIN candles
    <2>1. candles \in Seq(ClosedCandle)
        BY DEF HaveClosed
    <2>2. fit.window = window
        BY <1>4, <2>1, MeasuredIs
    <2>3. start.at \in Ats(candles)
        BY <1>1 DEF AreSwings
    <2> QED
        BY <2>1, <2>2, <2>3, SeriesAre
<1>9. PositionOf(candles, start.at) \in Int
    BY <1>8 DEF HaveClosed
<1>10. {x.at : x \in ToSet(window)} \subseteq {a.at : a \in ToSet(points)}
    <2> HIDE DEF points
    <2> QED
        BY <1>6, <1>7 DEF ToSet
<1>11. Len(points) >= MinAnchorPivots(type)
    <2>1. MinAnchorPivots(type) = 5
        BY AnchorsNeeded
    <2> HIDE DEF points
    <2> QED
        BY <1>2, <1>3, <1>7, <2>1
<1>12. PauseEvaluation(candles, start, fit, t)
         = Candidate(candles, PositionOf(candles, start.at),
                     JudgeChannel(candles, ContinuationParams, fit, fit.first),
                     points, BoundariesOf(fit), {"FLAGPOLE", "FLAG_VOLUME", "CHANNEL"}, t)
    BY <1>5, <1>8 DEF PauseEvaluation
<1> HIDE DEF points, start
<1>13. AllFound(Candidate(candles, PositionOf(candles, start.at),
                          JudgeChannel(candles, ContinuationParams, fit, fit.first),
                          points, BoundariesOf(fit), {"FLAGPOLE", "FLAG_VOLUME", "CHANNEL"}, t),
                type, candles, t)
    BY <1>4, <1>7, <1>9, <1>10, <1>11, ChannelCandidate
<1> QED
    BY <1>12, <1>13 DEF start
LEMMA MastIsFound ==
    ASSUME NEW t \in Int, NEW candles, HaveClosed(candles, t), NEW type \in Masts,
           NEW swings, AreSwings(swings, candles),
           NEW position \in Nat \ {0}, position + 1 <= Len(swings)
    PROVE  AllFound(MastFigure(candles, swings, type, position, t), type, candles, t)
<1> DEFINE p == ContinuationParams
           thrust == Thrust(type)
           start == swings[position]
           end == swings[position + 1]
           mast == Sign(thrust) * (end.price - start.price)
           runs == RunsFrom(swings, position + 1, 4)
           accepted(run) == Accepted(FitChannel(candles, p, run, p.min_flag_candles, FALSE),
                                     LAMBDA fit : AcceptsPause(type, fit, end, mast))
           fits == [size \in DOMAIN runs |-> accepted(runs[size])]
           grown == GrowChannel(candles, swings, position + 1, fits)
           seqs == [n \in DOMAIN grown |-> PauseEvaluation(candles, start, grown[n], t)]
<1>1. Len(swings) \in Nat /\ position \in 1 .. Len(swings) /\ position + 1 \in 1 .. Len(swings)
    BY DEF AreSwings, IsSequence
<1>2. \A run : \/ accepted(run) = <<>>
               \/ \E params, least, check :
                     accepted(run) = FitChannel(candles, params, run, least, check)
    BY DEF Accepted
<1>3. IsGrown(grown, candles, swings, position + 1, 4)
    <2>1. /\ DOMAIN runs = 4 .. (Len(swings) - (position + 1) + 1)
          /\ \A size \in DOMAIN runs :
                runs[size] = SubSeq(swings, position + 1, (position + 1) + size - 1)
        BY DEF RunsFrom
    <2>2. /\ DOMAIN fits = 4 .. (Len(swings) - (position + 1) + 1)
          /\ \A size \in DOMAIN fits :
                fits[size] = accepted(SubSeq(swings, position + 1, (position + 1) + size - 1))
        <3> HIDE DEF runs, accepted
        <3> QED
            BY <2>1
    <2> HIDE DEF fits, accepted
    <2> DEFINE from == position + 1
    <2>3. from \in 1 .. Len(swings) /\ 4 \in Nat \ {0}
        BY <1>1
    <2>4. /\ DOMAIN fits = 4 .. (Len(swings) - from + 1)
          /\ \A size \in DOMAIN fits :
                \/ fits[size] = <<>>
                \/ \E params, least, check :
                      fits[size] = FitChannel(candles, params, SubSeq(swings, from, from + size - 1),
                                              least, check)
        BY <1>2, <2>2
    <2> HIDE DEF from
    <2>5. IsGrown(GrowChannel(candles, swings, from, fits), candles, swings, from, 4)
        BY <2>3, <2>4, GrownIs
    <2> QED
        BY <2>5 DEF from
<1>4. AllFound(FlattenSeq(seqs), type, candles, t)
    <2> HIDE DEF grown, start
    <2>1. /\ IsShort(grown)
          /\ \A n \in DOMAIN grown :
                \E k \in 1 .. Len(swings) :
                   /\ k - (position + 1) + 1 >= 4
                   /\ IsChannelTo(grown[n], candles, swings, position + 1, k)
        <3>1. CASE grown = <<>>
            <4>1. DOMAIN grown = {}
                BY <3>1
            <4> QED
                BY <4>1 DEF IsShort
        <3>2. ASSUME NEW k \in 1 .. Len(swings), NEW fit,
                     k - (position + 1) + 1 >= 4,
                     IsChannelTo(fit, candles, swings, position + 1, k), grown = <<fit>>
              PROVE  /\ IsShort(grown)
                     /\ \A n \in DOMAIN grown :
                           \E i \in 1 .. Len(swings) :
                              /\ i - (position + 1) + 1 >= 4
                              /\ IsChannelTo(grown[n], candles, swings, position + 1, i)
            <4>1. DOMAIN grown = {1} /\ grown[1] = fit
                BY <3>2
            <4> QED
                BY <3>2, <4>1 DEF IsShort
        <3> QED
            BY <1>3, <3>1, <3>2 DEF IsGrown
    <2>2. PICK m \in Nat : DOMAIN grown = 1 .. m
        BY <2>1, ShortIsFirst
    <2>3. \A n \in 1 .. m : AllFound(seqs[n], type, candles, t)
        <3>1. ASSUME NEW n \in 1 .. m
              PROVE  AllFound(PauseEvaluation(candles, start, grown[n], t), type, candles, t)
            <4>1. PICK k \in 1 .. Len(swings) :
                     /\ k - (position + 1) + 1 >= 4
                     /\ IsChannelTo(grown[n], candles, swings, position + 1, k)
                BY <2>1, <2>2
            <4> QED
                BY <1>1, <4>1, PauseIsFound DEF start
        <3> QED
            BY <2>2, <3>1
    <2>4. DOMAIN seqs = 1 .. m /\ seqs = [i \in 1 .. m |-> seqs[i]]
        BY <2>2
    <2> HIDE DEF seqs
    <2> QED
        BY <2>3, <2>4, FlattenedAreFound
<1>5. \/ MastFigure(candles, swings, type, position, t) = <<>>
      \/ MastFigure(candles, swings, type, position, t) = FlattenSeq(seqs)
    BY DEF MastFigure
<1> HIDE DEF seqs
<1> QED
    BY <1>4, <1>5, NothingIsFound

LEMMA MastsAreFound ==
    ASSUME NEW t \in Int, NEW candles, HaveClosed(candles, t), NEW type \in Masts,
           NEW swings, AreSwings(swings, candles)
    PROVE  AllFound(MastFigures(candles, swings, type, t), type, candles, t)
<1> DEFINE last == IF Len(swings) >= 4 THEN Len(swings) - 4 ELSE 0
           seqs == [n \in 1 .. (Len(swings) - 4) |-> MastFigure(candles, swings, type, n, t)]
<1>1. Len(swings) \in Nat
    BY DEF AreSwings, IsSequence
<1>2. last \in Nat /\ 1 .. last = 1 .. (Len(swings) - 4)
    BY <1>1
<1>3. DOMAIN seqs = 1 .. last /\ seqs = [i \in 1 .. last |-> seqs[i]]
    BY <1>2
<1>4. \A n \in 1 .. last : AllFound(seqs[n], type, candles, t)
    <2>1. ASSUME NEW n \in 1 .. last
          PROVE  AllFound(MastFigure(candles, swings, type, n, t), type, candles, t)
        <3>1. n \in Nat \ {0} /\ n + 1 <= Len(swings)
            BY <1>1, <1>2
        <3> QED
            BY <3>1, MastIsFound
    <2> QED
        BY <1>2, <2>1
<1>5. MastFigures(candles, swings, type, t) = FlattenSeq(seqs)
    BY DEF MastFigures
<1> HIDE DEF seqs, last
<1> QED
    BY <1>2, <1>3, <1>4, <1>5, FlattenedAreFound

-----------------------------------------------------------------------------
(* The diamonds, one swing after another *)

\* What was found up to a swing, and the diamonds that were let go.
IsProgress(acc, candles, t) ==
    /\ AllFound(acc.found, "DIAMOND", candles, t)
    /\ IsFiniteSet(acc.released)
    /\ \A r \in acc.released : r.freed \in Int

\* published_at_of: an instant, if any.
LEMMA HeldIsInstant ==
    ASSUME NEW candles, NEW released, IsFiniteSet(released),
           \A r \in released : r.freed \in Int, NEW end, NEW points
    PROVE  LET held == HeldUntil(candles, released, end, points)
           IN  \/ held = <<>>
               \/ \E x \in Int : held = <<x>> /\ x > GeometryKnown(candles, points)
<1> DEFINE kept == {x \in released : x.last >= end}
           covering == {r.freed : r \in kept}
<1>1. IsFiniteSet(covering)
    <2> DEFINE f == [r \in kept |-> r.freed]
    <2>1. IsFiniteSet(kept)
        BY FS_Subset, kept \in SUBSET released
    <2>2. covering = {f[r] : r \in DOMAIN f} /\ f = [r \in DOMAIN f |-> f[r]] /\ DOMAIN f = kept
        OBVIOUS
    <2> HIDE DEF f, covering, kept
    <2> QED
        BY <2>1, <2>2, FiniteElements
<1>2. covering \in SUBSET Int
    OBVIOUS
<1>3. covering # {} => Max(covering) \in Int
    <2> HIDE DEF covering
    <2> QED
        BY <1>1, <1>2, FiniteIsBounded
<1>4. \/ HeldUntil(candles, released, end, points) = <<>>
      \/ /\ covering # {} /\ HeldUntil(candles, released, end, points) = <<Max(covering)>>
         /\ Max(covering) > GeometryKnown(candles, points)
    BY DEF HeldUntil
<1> HIDE DEF covering
<1> QED
    BY <1>3, <1>4, Zenon

\* seen_at: an instant.
LEMMA SeenIsInstant ==
    ASSUME NEW c \in ClosedCandle
    PROVE  SeenAt(c) \in Int
<1>1. CloseTime(c.at) \in Int
    BY CandlesAre, PeriodAssumption DEF CloseTime
<1>2. c.seen # <<>> => Head(c.seen) \in Int
    <2>1. c.seen \in Seq(Int)
        BY CandlesAre
    <2> QED
        BY <2>1
<1>3. c.seen # <<>> => Max({CloseTime(c.at), Head(c.seen)}) \in Int
    BY <1>1, <1>2, GreatestOfTwo
<1> QED
    BY <1>1, <1>3 DEF SeenAt

\* _shape: what is measured of a diamond.
IsShape(shape, candles) ==
    /\ AreSwings(shape.window, candles) /\ Len(shape.window) >= 6
    /\ shape.expansion.first \in DOMAIN candles
    /\ shape.contraction.last \in Nat /\ shape.contraction.expires \in Nat
    /\ {b.role : b \in BoundariesOf(shape.expansion) \cup BoundariesOf(shape.contraction)}
          = {"UPPER", "LOWER"}
    /\ AreItsLines(BoundariesOf(shape.expansion), shape.window, candles)
    /\ AreItsLines(BoundariesOf(shape.contraction), shape.window, candles)

\* A part of a window has no other places than the window.
LEMMA PartHasPlaces ==
    ASSUME NEW candles, NEW swings, AreSwings(swings, candles),
           NEW a \in 1 .. Len(swings), NEW b \in 1 .. Len(swings),
           NEW m \in a .. b, NEW n \in m .. b
    PROVE  ToSet(SubSeq(swings, m, n)) \subseteq ToSet(SubSeq(swings, a, b))
<1> DEFINE part == SubSeq(swings, m, n)
           whole == SubSeq(swings, a, b)
<1>1. Len(swings) \in Nat
    BY DEF AreSwings, IsSequence
<1>2. a \in Int /\ b \in Int /\ m \in Int /\ n \in Int
    BY <1>1
<1>3. /\ DOMAIN part = 1 .. (n - m + 1)
      /\ \A i \in 1 .. (n - m + 1) : part[i] = swings[i + m - 1]
    BY <1>2, PartIsSequence
<1>4. /\ DOMAIN whole = 1 .. (b - a + 1)
      /\ \A i \in 1 .. (b - a + 1) : whole[i] = swings[i + a - 1]
    BY <1>2, PartIsSequence
<1> HIDE DEF part, whole
<1>5. ASSUME NEW i \in DOMAIN part
      PROVE  part[i] \in ToSet(whole)
    <2>1. i \in 1 .. (n - m + 1) /\ part[i] = swings[i + m - 1]
        BY <1>3
    <2> DEFINE k == i + m - a
    <2>2. k \in 1 .. (b - a + 1) /\ k + a - 1 = i + m - 1
        <3>1. i \in Int /\ 1 <= i /\ i <= n - m + 1 /\ a <= m /\ n <= b
            BY <1>2, <2>1
        <3>2. k \in Int /\ 1 <= k /\ k <= b - a + 1 /\ k + a - 1 = i + m - 1
            BY <1>2, <3>1
        <3> HIDE DEF k
        <3> QED
            BY <1>2, <3>2
    <2> HIDE DEF k
    <2>3. part[i] = whole[k] /\ k \in DOMAIN whole
        BY <1>4, <2>1, <2>2
    <2> QED
        BY <2>3 DEF ToSet
<1>6. ToSet(part) \subseteq ToSet(whole)
    BY <1>5 DEF ToSet
<1> QED
    BY <1>6 DEF part, whole

LEMMA ShapeIsOne ==
    ASSUME NEW candles \in Seq(ClosedCandle), NEW swings, AreSwings(swings, candles),
           NEW start \in 1 .. Len(swings), Shape(candles, swings, start) # <<>>
    PROVE  IsShape(Shape(candles, swings, start)[1], candles)
<1> DEFINE vertices ==
             {n \in (start + 2) .. (Len(swings) - 3) :
                 /\ ShapeAt(candles, swings, start, n).expansion # <<>>
                 /\ ShapeAt(candles, swings, start, n).contraction # <<>>
                 /\ TallEnough(ShapeAt(candles, swings, start, n).top
                                 - ShapeAt(candles, swings, start, n).bottom,
                               ReferenceRange(candles, PositionOf(candles, swings[start].at),
                                              DiamondParams.range_window_candles),
                               DiamondParams)}
           n == Min(vertices)
           at == ShapeAt(candles, swings, start, n)
<1>1. /\ vertices # {}
      /\ Shape(candles, swings, start) =
            <<[at EXCEPT !.expansion = @[1], !.contraction = @[1]]>>
    BY DEF Shape
<1>2. Len(swings) \in Nat
    BY DEF AreSwings, IsSequence
<1>3. n \in Int /\ n \in vertices
    <2>1. \A x \in vertices : x \in Int /\ x >= 0
        BY <1>2
    <2> HIDE DEF vertices
    <2> QED
        BY <1>1, <2>1, LeastFrom, 0 \in Nat
<1>4. /\ n \in (start + 2) .. (Len(swings) - 3)
      /\ at.expansion # <<>> /\ at.contraction # <<>>
    BY <1>3
<1> HIDE DEF n, vertices
<1> DEFINE out == SubSeq(swings, start, n + 1)
           back == SubSeq(swings, n, n + 3)
           window == SubSeq(swings, start, n + 3)
<1>5. /\ at.window = window
      /\ at.expansion = Phase(candles, out, TRUE)
      /\ at.contraction = Phase(candles, back, FALSE)
      /\ at = [window |-> at.window, expansion |-> at.expansion,
               contraction |-> at.contraction, top |-> at.top, bottom |-> at.bottom]
    BY DEF ShapeAt
<1> HIDE DEF at
<1>6. /\ \E params, least, check :
            at.expansion = FitChannel(candles, params, out, least, check)
      /\ \E params, least, check :
            at.contraction = FitChannel(candles, params, back, least, check)
    <2> HIDE DEF out, back
    <2>1. \E params, least, check :
             at.expansion = FitChannel(candles, params, out, least, check)
        BY <1>4, <1>5 DEF Phase, Accepted
    <2>2. \E params, least, check :
             at.contraction = FitChannel(candles, params, back, least, check)
        BY <1>4, <1>5 DEF Phase, Accepted
    <2> QED
        BY <2>1, <2>2
<1>7. /\ start \in 1 .. Len(swings) /\ n + 1 \in 1 .. Len(swings) /\ start <= n + 1
      /\ n \in 1 .. Len(swings) /\ n + 3 \in 1 .. Len(swings) /\ n <= n + 3 /\ start <= n + 3
      /\ (n + 3) - start + 1 >= 6
    BY <1>2, <1>3, <1>4
<1>8. /\ IsChannelTo(at.expansion[1], candles, swings, start, n + 1)
      /\ IsChannelTo(at.contraction[1], candles, swings, n, n + 3)
    <2>1. PICK up : at.expansion = <<up>> /\ IsChannelTo(up, candles, swings, start, n + 1)
        <3>1. PICK params, least, check :
                 at.expansion = FitChannel(candles, params, out, least, check)
            BY <1>6
        <3> QED
            BY <1>4, <1>7, <3>1, FittedIs
    <2>2. PICK down : at.contraction = <<down>> /\ IsChannelTo(down, candles, swings, n, n + 3)
        <3>1. PICK params, least, check :
                 at.contraction = FitChannel(candles, params, back, least, check)
            BY <1>6
        <3> QED
            BY <1>4, <1>7, <3>1, FittedIs
    <2>3. \A x : <<x>>[1] = x
        OBVIOUS
    <2> QED
        BY <2>1, <2>2, <2>3
<1> DEFINE expansion == at.expansion[1]
           contraction == at.contraction[1]
<1>9. /\ expansion.first \in DOMAIN candles
      /\ {b.role : b \in BoundariesOf(expansion)} = {"UPPER", "LOWER"}
      /\ AreItsLines(BoundariesOf(expansion), out, candles)
    <2> HIDE DEF expansion, out
    <2>1. IsBounded(out, candles) /\ expansion = MeasuredChannel(candles, out)
        BY <1>8 DEF IsChannelTo, expansion, out
    <2> QED
        BY <2>1, MeasuredIs
<1>10. /\ contraction.last \in DOMAIN candles /\ contraction.expires \in Nat
       /\ {b.role : b \in BoundariesOf(contraction)} = {"UPPER", "LOWER"}
       /\ AreItsLines(BoundariesOf(contraction), back, candles)
    <2> HIDE DEF contraction, back
    <2>1. IsBounded(back, candles) /\ contraction = MeasuredChannel(candles, back)
        BY <1>8 DEF IsChannelTo, contraction, back
    <2> QED
        BY <2>1, MeasuredIs
<1>11. AreSwings(window, candles) /\ Len(window) >= 6
    <2>1. start <= n + 3
        BY <1>7
    <2>2. AreSwings(window, candles) /\ Len(window) = (n + 3) - start + 1
        BY <1>7, <2>1, PartOfSwings
    <2> QED
        BY <1>7, <2>2
<1>12. ToSet(out) \subseteq ToSet(window) /\ ToSet(back) \subseteq ToSet(window)
    <2>1. /\ start \in start .. (n + 3) /\ n + 1 \in start .. (n + 3)
          /\ n \in start .. (n + 3) /\ n + 3 \in n .. (n + 3)
        BY <1>2, <1>3, <1>4
    <2>2. ToSet(out) \subseteq ToSet(window)
        BY <1>7, <2>1, PartHasPlaces
    <2>3. ToSet(back) \subseteq ToSet(window)
        BY <1>7, <2>1, PartHasPlaces
    <2> QED
        BY <2>2, <2>3
<1> HIDE DEF out, back, window, expansion, contraction
<1>13. /\ AreItsLines(BoundariesOf(expansion), window, candles)
       /\ AreItsLines(BoundariesOf(contraction), window, candles)
    BY <1>9, <1>10, <1>12 DEF AreItsLines
<1>14. {b.role : b \in BoundariesOf(expansion) \cup BoundariesOf(contraction)}
         = {"UPPER", "LOWER"}
    BY <1>9, <1>10
<1>15. contraction.last \in Nat
    BY <1>10
<1> DEFINE shape == [at EXCEPT !.expansion = @[1], !.contraction = @[1]]
<1>16. /\ shape.window = window
       /\ shape.expansion = expansion
       /\ shape.contraction = contraction
    BY <1>5 DEF expansion, contraction
<1>17. Shape(candles, swings, start)[1] = shape
    BY <1>1
<1> HIDE DEF shape
<1> QED
    BY <1>9, <1>10, <1>11, <1>13, <1>14, <1>15, <1>16, <1>17 DEF IsShape
LEMMA ReleasedIsInstant ==
    ASSUME NEW candles \in Seq(ClosedCandle), NEW shape, IsShape(shape, candles), NEW j
    PROVE  /\ IsFiniteSet(ReleasedAt(candles, shape, j))
           /\ ReleasedAt(candles, shape, j) \subseteq Int
<1> DEFINE exit == shape.contraction
           old == shape.expansion.first + DiamondParams.max_age_candles + 1
           stale == IF j.first = 0 /\ exit.expires # 0 THEN Min({old, exit.expires + 1})
                    ELSE old
<1>1. old \in Nat /\ old >= 1
    BY DetectionAssumption DEF IsShape, IsDiamondParams, AreThresholds
<1>2. exit.expires \in Nat
    BY DEF IsShape
<1>3. stale \in Nat /\ stale >= 1
    <2> HIDE DEF old, exit
    <2>0. old \in Int /\ exit.expires + 1 \in Int
        BY <1>1, <1>2
    <2>1. Min({old, exit.expires + 1}) \in {old, exit.expires + 1}
        BY <2>0, LeastOfTwo
    <2> QED
        BY <1>1, <1>2, <2>1
<1>4. \/ ReleasedAt(candles, shape, j) = {}
      \/ stale <= Len(candles) /\ ReleasedAt(candles, shape, j) \subseteq {SeenAt(candles[stale])}
    <2>1. CASE stale > Len(candles)
        BY <2>1 DEF ReleasedAt
    <2>2. CASE ~(stale > Len(candles))
        <3>1. ReleasedAt(candles, shape, j) \subseteq {SeenAt(candles[stale])}
            BY <2>2 DEF ReleasedAt
        <3>2. stale <= Len(candles)
            <4> HIDE DEF stale
            <4> QED
                BY <1>3, <2>2
        <3> QED
            BY <3>1, <3>2
    <2> QED
        BY <2>1, <2>2
<1> HIDE DEF stale
<1>5. stale <= Len(candles) => SeenAt(candles[stale]) \in Int
    BY <1>3, SeenIsInstant, CandlesAre
<1>6. IsFiniteSet({}) /\ IsFiniteSet({SeenAt(candles[stale])})
    BY FS_EmptySet, FS_Singleton
<1> QED
    BY <1>4, <1>5, <1>6, FS_Subset

LEMMA AppendedAreFound ==
    ASSUME NEW type, NEW candles, NEW t, NEW found, AllFound(found, type, candles, t),
           NEW e, IsFound(e, type, candles, t)
    PROVE  AllFound(Append(found, e), type, candles, t)
<1>1. found \in Seq(ToSet(found) \cup {e})
    BY DEF AllFound, IsSequence
<1>2. Append(found, e) \in Seq(ToSet(found) \cup {e})
    BY <1>1
<1>3. IsSequence(Append(found, e))
    BY <1>2, SequenceOf
<1>4. ToSet(Append(found, e)) \subseteq ToSet(found) \cup {e}
    BY <1>2 DEF ToSet
<1> QED
    BY <1>3, <1>4 DEF AllFound

LEMMA DiamondIsFound ==
    ASSUME NEW t \in Int, NEW candles, HaveClosed(candles, t), NEW swings,
           NEW shape, IsShape(shape, candles), NEW held \in Seq(Int),
           \/ held = <<>>
           \/ \E x \in Int : /\ held = <<x>>
                             /\ x > GeometryKnown(candles, Anchors(shape.window)),
           NEW j, IsJudgement(j, candles, TRUE, {"UPPER", "LOWER"})
    PROVE  IsFound(DiamondEvaluation(candles, swings, shape, j, held, t),
                   "DIAMOND", candles, t)
<1> DEFINE window == shape.window
           points == Anchors(window)
           boundaries == BoundariesOf(shape.expansion) \cup BoundariesOf(shape.contraction)
           timing == Timing(candles, points, j, held)
           codes == {"DIAMOND_PHASES"}
                      \cup (IF HasWicks(candles, swings, shape, j)
                            THEN {"WICK_PENETRATIONS"} ELSE {})
                      \cup (IF HasAdditionalContacts(candles, swings, shape)
                            THEN {"ADDITIONAL_CONTACTS"} ELSE {})
<1>1. candles \in Seq(ClosedCandle)
    BY DEF HaveClosed
<1>2. /\ AreSwings(window, candles) /\ Len(window) >= 6
      /\ shape.expansion.first \in DOMAIN candles
      /\ {b.role : b \in boundaries} = {"UPPER", "LOWER"}
      /\ AreItsLines(boundaries, window, candles)
    BY DEF IsShape, AreItsLines
<1>3. shape.expansion.first \in Int
    BY <1>1, <1>2
<1> HIDE DEF window, boundaries
<1>4. window # <<>> /\ Len(window) \in Nat
    <2>1. Len(<<>>) = 0
        OBVIOUS
    <2> QED
        BY <1>2, <2>1 DEF AreSwings, IsSequence
<1>5. /\ AreAnchors(points, candles, t) /\ Len(points) = Len(window)
      /\ \A n \in DOMAIN window : window[n].at \in {a.at : a \in ToSet(points)}
    BY <1>2, <1>4, AnchorsAre
<1>6. IsTiming(timing) /\ WasReceived(timing, points, candles)
    <2>1. IsTiming(timing)
        BY <1>1, TimingIsOne
    <2>2. j.first # 0 => j.first \in DOMAIN candles
        BY DEF IsJudgement
    <2>3. \/ held = <<>>
          \/ \E x \in Int : held = <<x>> /\ x > GeometryKnown(candles, points)
        BY DEF points, window
    <2> HIDE DEF points
    <2>4. WasReceived(Timing(candles, points, j, held), points, candles)
        BY <1>1, <1>5, <2>2, <2>3, TimingIsReceived
    <2> QED
        BY <2>1, <2>4
<1> HIDE DEF points, timing, codes
<1>7. AreBoundaries(boundaries, points, candles)
    <2>1. {x.at : x \in ToSet(window)} \subseteq {a.at : a \in ToSet(points)}
        BY <1>5 DEF ToSet
    <2> QED
        BY <1>2, <2>1 DEF AreBoundaries, AreItsLines
<1>8. IsWhole("DIAMOND", points, boundaries, {"UPPER", "LOWER"})
    <2>1. boundaries # {}
        BY <1>2
    <2>2. Len(points) >= MinAnchorPivots("DIAMOND")
        <3>1. MinAnchorPivots("DIAMOND") = 6
            BY AnchorsNeeded
        <3> QED
            BY <1>2, <1>4, <1>5, <3>1
    <2> QED
        BY <1>2, <2>1, <2>2 DEF IsWhole
<1>9. IsFound(Evaluation(candles, shape.expansion.first, j, points, boundaries, codes, timing, t),
              "DIAMOND", candles, t)
    BY <1>3, <1>5, <1>6, <1>7, <1>8, EvaluationIsFound
<1>10. DiamondEvaluation(candles, swings, shape, j, held, t)
         = Evaluation(candles, shape.expansion.first, j, points, boundaries, codes, timing, t)
    BY DEF DiamondEvaluation, window, points, boundaries, codes, timing
<1> QED
    BY <1>9, <1>10

LEMMA JudgedIsTaken ==
    ASSUME NEW t \in Int, NEW candles, HaveClosed(candles, t), NEW swings,
           NEW shape, IsShape(shape, candles), NEW acc, IsProgress(acc, candles, t),
           NEW end, NEW j, IsJudgement(j, candles, TRUE, {"UPPER", "LOWER"})
    PROVE  IsProgress(TakeJudged(acc, candles, swings, shape, end, j, t), candles, t)
<1> DEFINE held == HeldUntil(candles, acc.released, end, Anchors(shape.window))
           after == TakeJudged(acc, candles, swings, shape, end, j, t)
           freed == {[last |-> end, freed |-> x] : x \in ReleasedAt(candles, shape, j)}
<1>1. /\ held \in Seq(Int)
      /\ \/ held = <<>>
         \/ \E x \in Int : held = <<x>> /\ x > GeometryKnown(candles, Anchors(shape.window))
    <2>1. \/ held = <<>>
          \/ \E x \in Int : held = <<x>> /\ x > GeometryKnown(candles, Anchors(shape.window))
        BY HeldIsInstant DEF IsProgress
    <2> HIDE DEF held
    <2>2. CASE held = <<>>
        BY <2>2
    <2>3. CASE \E x \in Int : held = <<x>> /\ x > GeometryKnown(candles, Anchors(shape.window))
        BY <2>3
    <2> QED
        BY <2>1, <2>2, <2>3
<1> HIDE DEF held
<1>3. IsFound(DiamondEvaluation(candles, swings, shape, j, held, t), "DIAMOND", candles, t)
    BY <1>1, DiamondIsFound
<1>4. after.found = Append(acc.found, DiamondEvaluation(candles, swings, shape, j, held, t))
    BY DEF TakeJudged, held
<1>5. after.released = acc.released \/ after.released = acc.released \cup freed
    BY DEF TakeJudged
<1>6. IsFiniteSet(freed) /\ \A r \in freed : r.freed \in Int
    <2> DEFINE S == ReleasedAt(candles, shape, j)
               f == [x \in S |-> [last |-> end, freed |-> x]]
    <2>1. IsFiniteSet(S) /\ S \subseteq Int
        BY ReleasedIsInstant DEF HaveClosed
    <2> HIDE DEF S
    <2>2. freed = {f[x] : x \in DOMAIN f} /\ f = [x \in DOMAIN f |-> f[x]] /\ DOMAIN f = S
        BY DEF S
    <2>3. IsFiniteSet(freed)
        <3> HIDE DEF f, freed
        <3> QED
            BY <2>1, <2>2, FiniteElements
    <2>4. \A r \in freed : r.freed \in Int
        BY <2>1 DEF S
    <2> QED
        BY <2>3, <2>4
<1> HIDE DEF after, freed
<1>7. AllFound(after.found, "DIAMOND", candles, t)
    BY <1>3, <1>4, AppendedAreFound DEF IsProgress
<1>8. IsFiniteSet(after.released)
    BY <1>5, <1>6, FS_Union DEF IsProgress
<1>9. \A r \in after.released : r.freed \in Int
    BY <1>5, <1>6 DEF IsProgress
<1>10. IsProgress(after, candles, t)
    BY <1>7, <1>8, <1>9 DEF IsProgress
<1> QED
    BY <1>10 DEF after

\* The loop of find.
IsSearch(f, candles, swings, t, n) ==
    f = [k \in 0 .. n |->
            IF k = 0 THEN [found |-> <<>>, covered |-> 0, released |-> {}]
            ELSE TakeStart(f[k - 1], candles, swings, k, Shape(candles, swings, k), t)]

LEMMA SearchExists ==
    ASSUME NEW candles, NEW swings, NEW t, NEW n \in Nat
    PROVE  \E f : IsSearch(f, candles, swings, t, n)
<1> DEFINE T == {k \in Nat : \E f : IsSearch(f, candles, swings, t, k)}
<1>1. 0 \in T
    <2>1. IsSearch([k \in 0 .. 0 |-> [found |-> <<>>, covered |-> 0, released |-> {}]],
                   candles, swings, t, 0)
        BY DEF IsSearch
    <2> QED
        BY <2>1
<1>2. ASSUME NEW k \in Nat, k \in T
      PROVE  k + 1 \in T
    <2>1. PICK f : IsSearch(f, candles, swings, t, k)
        BY <1>2
    <2> DEFINE step(x, i) == IF i = 0 THEN [found |-> <<>>, covered |-> 0, released |-> {}]
                             ELSE TakeStart(x, candles, swings, i, Shape(candles, swings, i), t)
               g == [i \in 0 .. (k + 1) |-> step(f[i - 1], i)]
    <2>2. f = [i \in 0 .. k |-> step(f[i - 1], i)]
        BY <2>1 DEF IsSearch
    <2>3. \A x, y : step(x, 0) = step(y, 0)
        OBVIOUS
    <2> HIDE DEF step
    <2>4. \A i \in 0 .. k : g[i] = f[i]
        <3>1. \A i \in 0 .. k : f[i] = step(f[i - 1], i)
            BY <2>2
        <3>2. \A i \in 0 .. k : g[i] = step(f[i - 1], i)
            OBVIOUS
        <3> QED
            BY <3>1, <3>2
    <2>5. g = [i \in 0 .. (k + 1) |-> step(g[i - 1], i)]
        <3>1. \A i \in 0 .. (k + 1) : i # 0 => i - 1 \in 0 .. k
            OBVIOUS
        <3>2. \A i \in 0 .. (k + 1) : step(g[i - 1], i) = step(f[i - 1], i)
            <4> HIDE DEF g
            <4> QED
                BY <2>3, <2>4, <3>1
        <3> QED
            BY <3>2
    <2>6. IsSearch(g, candles, swings, t, k + 1)
        <3> HIDE DEF g
        <3> QED
            BY <2>5 DEF IsSearch, step
    <2> HIDE DEF g
    <2> QED
        BY <2>6, k + 1 \in Nat
<1>3. n \in T
    <2> HIDE DEF T
    <2> QED
        BY <1>1, <1>2, AllNaturals
<1> QED
    BY <1>3

LEMMA DiamondsAreFound ==
    ASSUME NEW t \in Int, NEW candles, HaveClosed(candles, t),
           NEW swings, AreSwings(swings, candles)
    PROVE  AllFound(DiamondFigures(candles, swings, t), "DIAMOND", candles, t)
<1> DEFINE n == Len(swings)
           f == CHOOSE f : IsSearch(f, candles, swings, t, n)
           T == {k \in Nat : k <= n => IsProgress(f[k], candles, t)}
<1>1. n \in Nat /\ candles \in Seq(ClosedCandle)
    BY DEF AreSwings, IsSequence, HaveClosed
<1>2. IsSearch(f, candles, swings, t, n)
    BY <1>1, SearchExists
<1>3. DiamondFigures(candles, swings, t) = f[n].found
    BY DEF DiamondFigures, IsSearch
<1> HIDE DEF f, n
<1>4. 0 \in T
    <2>1. f[0] = [found |-> <<>>, covered |-> 0, released |-> {}]
        BY <1>1, <1>2 DEF IsSearch
    <2>2. AllFound(f[0].found, "DIAMOND", candles, t) /\ f[0].released = {}
        BY <2>1, NothingIsFound
    <2>3. IsProgress(f[0], candles, t)
        BY <2>2, FS_EmptySet DEF IsProgress
    <2> QED
        BY <2>3
<1>5. ASSUME NEW k \in Nat, k \in T
      PROVE  k + 1 \in T
    <2>1. SUFFICES ASSUME k + 1 <= n
                   PROVE  IsProgress(f[k + 1], candles, t)
        OBVIOUS
    <2>2. IsProgress(f[k], candles, t)
        BY <1>1, <1>5, <2>1
    <2>3. k + 1 \in 0 .. n /\ k + 1 # 0 /\ (k + 1) - 1 = k
        BY <1>1, <2>1
    <2>4. f[k + 1] = TakeStart(f[k], candles, swings, k + 1,
                               Shape(candles, swings, k + 1), t)
        BY <1>2, <2>3 DEF IsSearch
    <2>5. k + 1 \in 1 .. Len(swings)
        BY <1>1, <2>1 DEF n
    <2> DEFINE shape == Shape(candles, swings, k + 1)[1]
               judged == JudgeChannel(candles, DiamondParams, shape.contraction,
                                      shape.expansion.first)
    <2>6. \/ f[k + 1] = f[k]
          \/ /\ Shape(candles, swings, k + 1) # <<>> /\ judged # <<>>
             /\ \E end : f[k + 1] = TakeJudged(f[k], candles, swings, shape, end, judged[1], t)
        BY <2>4 DEF TakeStart, TakeShape
    <2>7. Shape(candles, swings, k + 1) # <<>> => IsShape(shape, candles)
        BY <1>1, <2>5, ShapeIsOne
    <2>8. Shape(candles, swings, k + 1) # <<>> /\ judged # <<>> =>
             IsJudgement(judged[1], candles, TRUE, {"UPPER", "LOWER"})
        <3>1. SUFFICES ASSUME Shape(candles, swings, k + 1) # <<>>, judged # <<>>
                       PROVE  IsJudgement(judged[1], candles, TRUE, {"UPPER", "LOWER"})
            OBVIOUS
        <3>2. shape.contraction.last \in Nat /\ shape.contraction.expires \in Int
            BY <2>7, <3>1 DEF IsShape
        <3> HIDE DEF shape
        <3>3. AreJudged(judged, candles, TRUE, {"UPPER", "LOWER"})
            BY <1>1, <3>2, ChannelIsJudged
        <3>4. DOMAIN judged = {} => judged = <<>>
            <4>1. \E up, down : judged = [x \in DOMAIN up \cap DOMAIN down |->
                                            FirstBreakout(up, down)[x]]
                BY DEF JudgeChannel, FirstBreakout
            <4> HIDE DEF judged
            <4>2. DOMAIN judged = {} => judged = [x \in {} |-> x]
                BY <4>1
            <4>3. <<>> = [x \in {} |-> x]
                OBVIOUS
            <4> QED
                BY <4>2, <4>3
        <3> HIDE DEF judged
        <3> QED
            BY <3>1, <3>3, <3>4 DEF AreJudged, IsShort
    <2> HIDE DEF shape, judged
    <2> QED
        BY <2>2, <2>6, <2>7, <2>8, JudgedIsTaken
<1>6. n \in T
    <2> HIDE DEF T
    <2> QED
        BY <1>1, <1>4, <1>5, AllNaturals
<1> QED
    BY <1>1, <1>3, <1>6 DEF IsProgress

-----------------------------------------------------------------------------
(* What a detector is given and finds *)

LEMMA JoinedInOrder ==
    ASSUME NEW s \in Seq(ClosedCandle), AreInOrder(s), NEW c \in ClosedCandle,
           \A x \in ToSet(s) : x.at < c.at
    PROVE  /\ s \o <<c>> \in Seq(ClosedCandle) /\ AreInOrder(s \o <<c>>)
           /\ ToSet(s \o <<c>>) = ToSet(s) \cup {c}
<1> DEFINE u == s \o <<c>>
<1>1. /\ u \in Seq(ClosedCandle) /\ Len(u) = Len(s) + 1 /\ u[Len(s) + 1] = c
      /\ \A i \in 1 .. Len(s) : u[i] = s[i]
    OBVIOUS
<1> HIDE DEF u
<1>2. DOMAIN u = 1 .. (Len(s) + 1) /\ DOMAIN s = 1 .. Len(s) /\ Len(s) \in Nat
    BY <1>1
<1>3. \A i \in DOMAIN u : i \in DOMAIN s \/ i = Len(s) + 1
    BY <1>2
<1>4. AreInOrder(u)
    <2>1. ASSUME NEW m \in DOMAIN u, NEW n \in DOMAIN u, m < n
          PROVE  u[m].at < u[n].at
        <3>1. m \in DOMAIN s
            BY <1>2, <2>1
        <3>2. CASE n \in DOMAIN s
            BY <1>1, <1>2, <2>1, <3>1, <3>2 DEF AreInOrder
        <3>3. CASE n = Len(s) + 1
            <4>1. s[m] \in ToSet(s)
                BY <3>1 DEF ToSet
            <4> QED
                BY <1>1, <1>2, <3>1, <3>3, <4>1
        <3> QED
            BY <1>3, <3>2, <3>3
    <2> QED
        BY <2>1 DEF AreInOrder
<1>5. ToSet(u) = ToSet(s) \cup {c}
    BY <1>1, <1>2, <1>3 DEF ToSet
<1> QED
    BY <1>1, <1>4, <1>5 DEF u

LEMMA SeenIs ==
    ASSUME NEW type, NEW candles \in Seq(ClosedCandle), AreInOrder(candles), NEW t
    PROVE  /\ Seen(type, candles, t) \in Seq(ClosedCandle)
           /\ AreInOrder(Seen(type, candles, t))
           /\ ToSet(Seen(type, candles, t)) = {c \in ToSet(candles) : MayRead(type, c, t)}
<1> DEFINE kept(k) == {candles[i] : i \in {x \in 1 .. k : \E s \in ToSet(candles[x].seen) : s <= t}}
           seqs == [n \in DOMAIN candles |->
                       IF \E s \in ToSet(candles[n].seen) : s <= t
                       THEN <<candles[n]>> ELSE <<>>]
           n == Len(candles)
           Q == [k \in 1 .. n |-> {s \in Seq(ClosedCandle) : AreInOrder(s) /\ ToSet(s) = kept(k)}]
<1>1. n \in Nat /\ DOMAIN candles = 1 .. n
    OBVIOUS
<1>2. CASE ~(type = "DIAMOND" /\ Receipts)
    BY <1>2 DEF Seen, MayRead
<1>3. CASE type = "DIAMOND" /\ Receipts
    <2>1. Seen(type, candles, t) = FlattenSeq(seqs)
        BY <1>3 DEF Seen
    <2>2. /\ DOMAIN seqs = 1 .. n /\ seqs = [i \in 1 .. n |-> seqs[i]]
          /\ \A i \in 1 .. n : seqs[i] = IF \E s \in ToSet(candles[i].seen) : s <= t
                                        THEN <<candles[i]>> ELSE <<>>
        BY <1>1
    <2> HIDE DEF seqs
    <2>3. <<>> \in Seq(ClosedCandle) /\ AreInOrder(<<>>) /\ ToSet(<<>>) = {}
        BY DEF AreInOrder, ToSet
    <2>4. CASE n = 0
        <3>1. FlattenSeq(seqs) = <<>>
            <4>1. seqs = <<>>
                BY <2>2, <2>4
            <4> QED
                BY <4>1 DEF FlattenSeq
        <3>2. ToSet(candles) = {}
            BY <1>1, <2>4 DEF ToSet
        <3> QED
            BY <2>1, <2>3, <3>1, <3>2
    <2>5. CASE n # 0
        <3>1. \A c \in ClosedCandle : <<c>> \in Seq(ClosedCandle) /\ <<>> \o <<c>> = <<c>>
            OBVIOUS
        <3>2. ASSUME NEW k \in 1 .. n
              PROVE  candles[k] \in ClosedCandle
            BY <1>1, CandlesAre
        <3>3. seqs[1] \in Q[1]
            <4>1. 1 \in 1 .. n
                BY <1>1, <2>5
            <4> DEFINE c == candles[1]
            <4>2. c \in ClosedCandle
                BY <3>2, <4>1
            <4>3. kept(1) = IF \E s \in ToSet(c.seen) : s <= t THEN {c} ELSE {}
                OBVIOUS
            <4> HIDE DEF kept, c
            <4>4. <<c>> \in Seq(ClosedCandle) /\ AreInOrder(<<c>>) /\ ToSet(<<c>>) = {c}
                <5>1. ToSet(<<c>>) = {c}
                    BY DEF ToSet
                <5>2. AreInOrder(<<c>>)
                    BY DEF AreInOrder
                <5> QED
                    BY <3>1, <4>2, <5>1, <5>2
            <4>5. seqs[1] = IF \E s \in ToSet(c.seen) : s <= t THEN <<c>> ELSE <<>>
                BY <2>2, <4>1 DEF c
            <4>6. seqs[1] \in Seq(ClosedCandle) /\ AreInOrder(seqs[1]) /\ ToSet(seqs[1]) = kept(1)
                BY <2>3, <4>3, <4>4, <4>5
            <4> QED
                BY <4>1, <4>6
        <3>4. ASSUME NEW k \in 1 .. (n - 1), NEW s \in Q[k]
              PROVE  s \o seqs[k + 1] \in Q[k + 1]
            <4>1. k \in 1 .. n /\ k + 1 \in 1 .. n
                BY <1>1
            <4> DEFINE c == candles[k + 1]
            <4>2. c \in ClosedCandle
                BY <3>2, <4>1
            <4>3. s \in Seq(ClosedCandle) /\ AreInOrder(s) /\ ToSet(s) = kept(k)
                BY <4>1
            <4>4. kept(k + 1) = IF \E x \in ToSet(c.seen) : x <= t
                                THEN kept(k) \cup {c} ELSE kept(k)
                <5>1. 1 .. (k + 1) = (1 .. k) \cup {k + 1}
                    BY <4>1
                <5> QED
                    BY <5>1
            <4>5. \A x \in kept(k) : x.at < c.at
                <5>1. \A i \in 1 .. k : i \in DOMAIN candles /\ k + 1 \in DOMAIN candles /\ i < k + 1
                    BY <1>1, <4>1
                <5>2. \A i \in 1 .. k : candles[i].at < c.at
                    BY <5>1 DEF AreInOrder
                <5> QED
                    BY <5>2
            <4>6. seqs[k + 1] = IF \E x \in ToSet(c.seen) : x <= t THEN <<c>> ELSE <<>>
                BY <2>2, <4>1
            <4> HIDE DEF kept, c
            <4>7. s \o <<>> = s
                BY <4>3
            <4>8. /\ s \o <<c>> \in Seq(ClosedCandle) /\ AreInOrder(s \o <<c>>)
                  /\ ToSet(s \o <<c>>) = ToSet(s) \cup {c}
                BY <4>2, <4>3, <4>5, JoinedInOrder
            <4> DEFINE u == s \o seqs[k + 1]
            <4>9. u = s \o <<c>> \/ u = s
                BY <4>6, <4>7
            <4>10. u \in Seq(ClosedCandle) /\ AreInOrder(u) /\ ToSet(u) = kept(k + 1)
                BY <4>3, <4>4, <4>6, <4>7, <4>8
            <4> HIDE DEF u
            <4>11. u \in Q[k + 1]
                BY <4>1, <4>10
            <4> QED
                BY <4>11 DEF u
        <3> HIDE DEF Q
        <3>5. FlattenSeq(seqs) \in Q[n]
            BY <1>1, <2>2, <2>5, <3>3, <3>4, FlattenedBySteps
        <3>6. n \in 1 .. n
            BY <1>1, <2>5
        <3>7. /\ FlattenSeq(seqs) \in Seq(ClosedCandle) /\ AreInOrder(FlattenSeq(seqs))
              /\ ToSet(FlattenSeq(seqs)) = kept(n)
            BY <3>5, <3>6 DEF Q
        <3>8. kept(n) = {c \in ToSet(candles) : MayRead(type, c, t)}
            BY <1>1, <1>3 DEF ToSet, MayRead
        <3> HIDE DEF kept
        <3> QED
            BY <2>1, <3>7, <3>8
    <2> QED
        BY <2>4, <2>5
<1> QED
    BY <1>2, <1>3

LEMMA FoundIs ==
    ASSUME NEW t \in Int, NEW candles, HaveClosed(candles, t), NEW type \in PatternType,
           NEW swings, AreSwings(swings, candles)
    PROVE  AllFound(Find(type, candles, swings, t), type, candles, t)
<1> DEFINE doubles == {"DOUBLE_TOP", "DOUBLE_BOTTOM"}
           triples == {"TRIPLE_TOP", "TRIPLE_BOTTOM"}
           shoulders == {"HEAD_AND_SHOULDERS_TOP", "HEAD_AND_SHOULDERS_BOTTOM"}
           arcs == {"ROUNDING_TOP", "ROUNDING_BOTTOM"}
           rest == Triangles \cup Wedges \cup {"RECTANGLE", "BROADENING_FORMATION"}
           side == SideOf(type)
<1>1. \/ type \in doubles \/ type \in triples \/ type \in shoulders \/ type \in arcs
      \/ type \in Masts \/ type = "DIAMOND" \/ type \in rest
    BY DEF PatternType, Reversals
<1>2. /\ type \in doubles =>
            Find(type, candles, swings, t) = DoubleFigures(candles, swings, side, t)
      /\ type \in triples =>
            Find(type, candles, swings, t) = TripleFigures(candles, swings, side, t)
      /\ type \in shoulders =>
            Find(type, candles, swings, t) = ShouldersFigures(candles, swings, side, t)
      /\ type \in arcs =>
            Find(type, candles, swings, t) = RoundingFigures(candles, swings, side, t)
    <2>1. type \in doubles =>
            Find(type, candles, swings, t) = DoubleFigures(candles, swings, side, t)
        BY DEF Find, Masts
    <2>2. type \in triples =>
            Find(type, candles, swings, t) = TripleFigures(candles, swings, side, t)
        BY DEF Find, Masts
    <2>3. type \in shoulders =>
            Find(type, candles, swings, t) = ShouldersFigures(candles, swings, side, t)
        BY DEF Find, Masts
    <2>4. type \in arcs =>
            Find(type, candles, swings, t) = RoundingFigures(candles, swings, side, t)
        BY DEF Find, Masts
    <2> QED
        BY <2>1, <2>2, <2>3, <2>4
<1>3. /\ type \in Masts => Find(type, candles, swings, t) = MastFigures(candles, swings, type, t)
      /\ type = "DIAMOND" => Find(type, candles, swings, t) = DiamondFigures(candles, swings, t)
      /\ type \in rest => Find(type, candles, swings, t) = ChannelFigures(candles, swings, type, t)
    BY DEF Find, Masts, Triangles, Wedges
<1>4. CASE type \in doubles \/ type \in triples \/ type \in shoulders \/ type \in arcs
    <2> HIDE DEF side
    <2> QED
        BY <1>2, <1>4, ReversalsAreFound
<1>5. CASE type \in Masts
    BY <1>3, <1>5, MastsAreFound
<1>6. CASE type = "DIAMOND"
    BY <1>3, <1>6, DiamondsAreFound
<1>7. CASE type \in rest
    BY <1>3, <1>7, ChannelsAreFound
<1> QED
    BY <1>1, <1>4, <1>5, <1>6, <1>7

LEMMA DetectedAreFound ==
    ASSUME NEW t \in Int, NEW candles, HaveClosed(candles, t), NEW type \in PatternType
    PROVE  LET seen == Seen(type, candles, t)
           IN  /\ HaveClosed(seen, t)
               /\ AllFound(Detect(type, candles, t).candidates, type, seen, t)
<1> DEFINE seen == Seen(type, candles, t)
           swings == SwingPoints(DetectPivots(SeriesOf(seen)))
<1>1. HaveClosed(seen, t)
    <2>1. /\ seen \in Seq(ClosedCandle) /\ AreInOrder(seen)
          /\ ToSet(seen) \subseteq ToSet(candles)
        BY SeenIs DEF HaveClosed
    <2> HIDE DEF seen
    <2>2. \A c \in ToSet(candles) : CloseTime(c.at) <= t
        BY DEF HaveClosed, ToSet
    <2>3. \A n \in DOMAIN seen : seen[n] \in ToSet(seen)
        BY DEF ToSet
    <2> QED
        BY <2>1, <2>2, <2>3 DEF HaveClosed
<1>2. AreSwings(swings, seen)
    <2> HIDE DEF seen
    <2> QED
        BY <1>1, SwingsOfCandles DEF HaveClosed
<1>3. AllFound(Find(type, seen, swings, t), type, seen, t)
    <2> HIDE DEF seen, swings
    <2> QED
        BY <1>1, <1>2, FoundIs
<1>4. \/ Detect(type, candles, t).candidates = <<>>
      \/ Detect(type, candles, t).candidates = Find(type, seen, swings, t)
    BY DEF Detect
<1> HIDE DEF seen, swings
<1>5. AllFound(Detect(type, candles, t).candidates, type, seen, t)
    BY <1>3, <1>4, NothingIsFound
<1> QED
    BY <1>1, <1>5 DEF seen
-----------------------------------------------------------------------------
(* A figure from one instant to the next *)

\* A figure whose evaluations were made by t, each valid and later than the one
\* before it, and that was open before the last.
IsHistory(h, t) ==
    /\ IsSequence(h) /\ h # <<>>
    /\ \A n \in DOMAIN h : /\ IsTold(h[n]) /\ ValidEvaluation(h[n])
                           /\ h[n].at \in Int /\ h[n].at <= t
                           /\ n < Len(h) => /\ h[n].state \notin TerminalStates
                                            /\ h[n].at < h[n + 1].at

LEMMA HistoryLasts ==
    ASSUME NEW h, NEW t \in Int, NEW later \in Int, t <= later, IsHistory(h, t)
    PROVE  IsHistory(h, later)
BY DEF IsHistory

\* One that goes on from another: what FiguresAreNeverRewritten says of each.
GoesOn(before, after) ==
    /\ IsPrefix(before, after)
    /\ IsTerminal(before) => after = before
    /\ \A n \in (Len(before) + 1) .. Len(after) :
          /\ after[n].at > after[n - 1].at
          /\ IsPrefix(after[n - 1].anchors, after[n].anchors)

\* An evaluation that may be added to a figure.
Adds(h, e) ==
    /\ ~IsTerminal(h)
    /\ e.at > Last(h).at
    /\ IsPrefix(Last(h).anchors, e.anchors)

LEMMA SequenceHasLast ==
    ASSUME NEW h, IsSequence(h)
    PROVE  Len(h) \in Nat /\ DOMAIN h = 1 .. Len(h) /\ (h # <<>> => Len(h) \in DOMAIN h)
BY DEF IsSequence

LEMMA PrefixOfItself == ASSUME NEW s, IsSequence(s) PROVE IsPrefix(s, s)
BY IsPrefixByElements DEF IsSequence

LEMMA PrefixIs ==
    ASSUME NEW s, IsSequence(s), NEW u, IsSequence(u)
    PROVE  IsPrefix(s, u) <=> Len(s) <= Len(u) /\ \A n \in 1 .. Len(s) : s[n] = u[n]
<1>1. Len(s) \in Nat /\ Len(u) \in Nat
    BY SequenceHasLast
<1>2. /\ SubSeq(s, 1, Len(s)) = [n \in 1 .. Len(s) |-> s[n]]
      /\ SubSeq(u, 1, Len(s)) = [n \in 1 .. Len(s) |-> u[n]]
    BY <1>1
<1>3. IsPrefix(s, u) => \A n \in 1 .. Len(s) : s[n] = u[n]
    <2>1. SUFFICES ASSUME [n \in 1 .. Len(s) |-> s[n]] = [n \in 1 .. Len(s) |-> u[n]],
                          NEW n \in 1 .. Len(s)
                   PROVE  s[n] = u[n]
        BY <1>2 DEF IsPrefix
    <2>2. [i \in 1 .. Len(s) |-> s[i]][n] = [i \in 1 .. Len(s) |-> u[i]][n]
        BY <2>1
    <2> QED
        BY <2>2
<1>4. IsPrefix(s, u) => Len(s) <= Len(u)
    BY DEF IsPrefix
<1>5. Len(s) <= Len(u) /\ (\A n \in 1 .. Len(s) : s[n] = u[n]) => IsPrefix(s, u)
    BY <1>1, <1>2 DEF IsPrefix
<1> QED
    BY <1>3, <1>4, <1>5

LEMMA AddedIs ==
    ASSUME NEW h, IsSequence(h), NEW e
    PROVE  /\ IsSequence(Append(h, e))
           /\ Len(Append(h, e)) = Len(h) + 1
           /\ \A n \in 1 .. Len(h) : Append(h, e)[n] = h[n]
           /\ Append(h, e)[Len(h) + 1] = e
<1>1. h \in Seq(ToSet(h) \cup {e})
    BY DEF IsSequence
<1>2. Append(h, e) \in Seq(ToSet(h) \cup {e})
    BY <1>1
<1>3. IsSequence(Append(h, e))
    BY <1>2, SequenceOf
<1> QED
    BY <1>1, <1>3

LEMMA AddedIsHistory ==
    ASSUME NEW t, NEW h, IsHistory(h, t), NEW e, Adds(h, e),
           IsTold(e), ValidEvaluation(e), e.at \in Int, e.at <= t
    PROVE  IsHistory(Append(h, e), t)
<1>1. Len(h) \in Nat /\ DOMAIN h = 1 .. Len(h)
    BY SequenceHasLast DEF IsHistory
<1>2. IsSequence(Append(h, e)) /\ Len(Append(h, e)) = Len(h) + 1
    BY AddedIs DEF IsHistory
<1>3. DOMAIN Append(h, e) = 1 .. (Len(h) + 1) /\ Append(h, e) # <<>>
    <2>1. DOMAIN Append(h, e) = 1 .. (Len(h) + 1)
        BY <1>2, SequenceHasLast, Zenon
    <2>2. Append(h, e) # <<>>
        <3> DEFINE after == Append(h, e)
        <3>1. Len(after) = Len(h) + 1
            BY <1>2, Zenon
        <3> HIDE DEF after
        <3>2. after # <<>>
            BY <1>1, <3>1
        <3> QED
            BY <3>2 DEF after
    <2> QED
        BY <2>1, <2>2, Zenon
<1>4. ASSUME NEW n \in 1 .. (Len(h) + 1)
      PROVE  n \in 1 .. Len(h) \/ n = Len(h) + 1
    BY <1>1
<1>5. \A n \in 1 .. (Len(h) + 1) : Append(h, e)[n] = e
         \/ (n \in DOMAIN h /\ Append(h, e)[n] = h[n])
    BY <1>1, <1>4, AddedIs DEF IsHistory
<1>6. ASSUME NEW n \in 1 .. (Len(h) + 1), n < Len(h) + 1
      PROVE  /\ Append(h, e)[n] = h[n] /\ h[n].state \notin TerminalStates
             /\ h[n].at < Append(h, e)[n + 1].at
    <2> DEFINE len == Len(h)
    <2>0. len \in Nat /\ DOMAIN h = 1 .. len /\ n \in 1 .. (len + 1) /\ n < len + 1
        BY <1>1, <1>6
    <2> HIDE DEF len
    <2>1. n \in DOMAIN h /\ (n < len \/ n = len)
        BY <2>0
    <2> USE DEF len
    <2>2. Append(h, e)[n] = h[n]
        BY <1>1, <2>1, AddedIs DEF IsHistory
    <2>3. n = Len(h) => h[n].state \notin TerminalStates
        BY DEF IsTerminal, Last, Adds
    <2>4. CASE n = Len(h)
        <3>1. Append(h, e)[n + 1] = e
            BY <2>4, AddedIs DEF IsHistory
        <3>2. h[n].at < e.at
            BY <2>4 DEF Adds, Last
        <3> QED
            BY <2>2, <2>3, <2>4, <3>1, <3>2
    <2>5. CASE n < Len(h)
        <3>1. n + 1 \in 1 .. Len(h)
            BY <1>1, <2>5
        <3>2. Append(h, e)[n + 1] = h[n + 1]
            BY <3>1, AddedIs DEF IsHistory
        <3> QED
            BY <2>1, <2>2, <2>5, <3>2 DEF IsHistory
    <2> QED
        BY <2>1, <2>4, <2>5
<1> DEFINE after == Append(h, e)
<1>7. IsSequence(after) /\ Len(after) = Len(h) + 1 /\ after # <<>> /\ DOMAIN after = 1 .. (Len(h) + 1)
    BY <1>2, <1>3
<1>8. ASSUME NEW n \in 1 .. (Len(h) + 1)
      PROVE  /\ IsTold(after[n]) /\ ValidEvaluation(after[n])
             /\ after[n].at \in Int /\ after[n].at <= t
             /\ n < Len(after) => /\ after[n].state \notin TerminalStates
                                  /\ after[n].at < after[n + 1].at
    <2>1. /\ IsTold(after[n]) /\ ValidEvaluation(after[n])
          /\ after[n].at \in Int /\ after[n].at <= t
        BY <1>5, Zenon DEF IsHistory
    <2>2. n < Len(after) => /\ after[n].state \notin TerminalStates
                            /\ after[n].at < after[n + 1].at
        BY <1>6, <1>7
    <2> QED
        BY <2>1, <2>2
<1> HIDE DEF after
<1>9. IsHistory(after, t)
    BY <1>7, <1>8 DEF IsHistory
<1> QED
    BY <1>9 DEF after

LEMMA GoesOnAsItIs ==
    ASSUME NEW t, NEW h, IsHistory(h, t)
    PROVE  GoesOn(h, h)
<1>1. IsPrefix(h, h) /\ Len(h) \in Nat
    BY PrefixOfItself, SequenceHasLast DEF IsHistory
<1>2. (Len(h) + 1) .. Len(h) = {}
    BY <1>1
<1> QED
    BY <1>1, <1>2 DEF GoesOn

LEMMA GoesOnByOne ==
    ASSUME NEW t, NEW first, IsHistory(first, t), NEW h, IsHistory(h, t), GoesOn(first, h),
           NEW e, Adds(h, e)
    PROVE  GoesOn(first, Append(h, e))
<1> DEFINE after == Append(h, e)
<1>1. IsSequence(first) /\ IsSequence(h) /\ Len(h) \in Nat /\ Len(first) \in Nat
    BY SequenceHasLast DEF IsHistory
<1>2. /\ IsSequence(after) /\ Len(after) = Len(h) + 1
      /\ \A n \in 1 .. Len(h) : after[n] = h[n]
      /\ after[Len(h) + 1] = e
    BY <1>1, AddedIs
<1> HIDE DEF after
<1>3. Len(first) <= Len(h) /\ \A n \in 1 .. Len(first) : first[n] = h[n]
    BY <1>1, PrefixIs DEF GoesOn
<1>4. IsPrefix(first, after)
    <2>1. \A n \in 1 .. Len(first) : n \in 1 .. Len(h)
        BY <1>1, <1>3
    <2> QED
        BY <1>1, <1>2, <1>3, <2>1, PrefixIs
<1>5. ~IsTerminal(first)
    BY DEF GoesOn, Adds
<1>6. ASSUME NEW n \in (Len(first) + 1) .. Len(after)
      PROVE  after[n].at > after[n - 1].at /\ IsPrefix(after[n - 1].anchors, after[n].anchors)
    <2>1. CASE n = Len(h) + 1
        <3>1. Len(h) >= 1
            BY <1>1, SequenceHasLast DEF IsHistory
        <3>2. n - 1 = Len(h) /\ n - 1 \in 1 .. Len(h)
            BY <1>1, <2>1, <3>1
        <3>3. after[n - 1] = Last(h) /\ after[n] = e
            BY <1>2, <2>1, <3>2 DEF Last
        <3> QED
            BY <3>3 DEF Adds
    <2>2. CASE n # Len(h) + 1
        <3>0. Len(first) >= 1
            BY <1>1, SequenceHasLast DEF IsHistory
        <3>1. n \in (Len(first) + 1) .. Len(h) /\ n \in 1 .. Len(h) /\ n - 1 \in 1 .. Len(h)
            BY <1>1, <1>2, <1>3, <1>6, <2>2, <3>0
        <3>2. after[n] = h[n] /\ after[n - 1] = h[n - 1]
            BY <1>2, <3>1
        <3> QED
            BY <3>1, <3>2 DEF GoesOn
    <2> QED
        BY <2>1, <2>2
<1>7. GoesOn(first, after)
    BY <1>4, <1>5, <1>6 DEF GoesOn
<1> QED
    BY <1>7 DEF after

\* What a figure tells of comes no later than asOf, as what it is told next must.
IsKnown(e, asOf) == \A then \in ToSet(e.asOf) : asOf # <<>> /\ Head(asOf) >= then

MayKnow(h, asOf) == IsKnown(Last(h), asOf)

IsInstant(asOf) == asOf = <<>> \/ \E x \in Int : asOf = <<x>>

LEMMA LastIsTold ==
    ASSUME NEW t, NEW h, IsHistory(h, t)
    PROVE  /\ IsTold(Last(h)) /\ ValidEvaluation(Last(h))
           /\ Last(h).at \in Int /\ Last(h).at <= t
<1>1. Len(h) \in DOMAIN h
    BY SequenceHasLast DEF IsHistory
<1> QED
    BY <1>1 DEF IsHistory, Last

\* A figure that is open is in a state that it may still leave.
LEMMA OpenMayEnd ==
    ASSUME NEW t, NEW h, IsHistory(h, t), ~IsTerminal(h)
    PROVE  "INVALIDATED" \in NextStates(EffectiveState(h))
<1> DEFINE told == {n \in DOMAIN h : h[n].state # "INSUFFICIENT_DATA"}
           effective == EffectiveState(h)
           open == {"FORMING", "GEOMETRICALLY_VALID", "BREAKOUT_PENDING_CONFIRMATION",
                    "CONFIRMED_UP", "CONFIRMED_DOWN"}
<1>1. Len(h) \in Nat /\ DOMAIN h = 1 .. Len(h)
    BY SequenceHasLast DEF IsHistory
<1>2. \A n \in DOMAIN h : h[n].state \in PatternState \ TerminalStates
    <2>1. \A n \in DOMAIN h : n < Len(h) \/ n = Len(h)
        BY <1>1
    <2> QED
        BY <2>1 DEF IsHistory, IsTold, IsTerminal, Last
<1>3. PatternState \ (TerminalStates \cup {"INSUFFICIENT_DATA"}) = open
    BY DEF PatternState, BreakoutStates, TerminalStates
<1>4. told # {} => Max(told) \in told
    <2>1. \A x \in told : x \in Int /\ x <= Len(h)
        BY <1>1
    <2>2. told \in SUBSET Int /\ Len(h) \in Int
        BY <1>1
    <2> HIDE DEF told
    <2> QED
        BY <2>1, <2>2, GreatestOfBounded
<1>5. \/ effective = "FORMING"
      \/ told # {} /\ effective = h[Max(told)].state
    BY DEF EffectiveState
<1>6. effective \in open
    <2>1. \A n \in told : h[n].state \in open
        BY <1>2, <1>3
    <2> HIDE DEF told, effective
    <2> QED
        BY <1>4, <1>5, <2>1
<1> HIDE DEF effective
<1>7. "INVALIDATED" \in NextStates(effective)
    BY <1>6 DEF NextStates, ConfirmedStates, TerminalStates
<1> QED
    BY <1>7 DEF effective

\* A closing evaluation says what was known last, at t.
LEMMA ClosingIs ==
    ASSUME NEW latest, IsTold(latest), NEW t, NEW asOf, IsInstant(asOf),
           NEW state \in PatternState, NEW reasons, NEW missing
    PROVE  LET e == ClosingEvaluation(latest, t, asOf, state, reasons, missing)
           IN  /\ IsTold(e) /\ e.at = t /\ e.anchors = latest.anchors
               /\ e.timing = latest.timing /\ e.count = latest.count /\ e.state = state
               /\ e.asOf = IF asOf # <<>> THEN asOf ELSE latest.asOf
               /\ e.boundaries = latest.boundaries /\ e.breakout = <<>>
               /\ e.reasons = reasons /\ e.missing = missing
<1> DEFINE e == ClosingEvaluation(latest, t, asOf, state, reasons, missing)
<1>1. DOMAIN latest = EvaluationFields
    BY DEF IsTold
<1>2. /\ e.at = t /\ e.anchors = latest.anchors /\ e.timing = latest.timing
      /\ e.count = latest.count /\ e.state = state
      /\ e.asOf = IF asOf # <<>> THEN asOf ELSE latest.asOf
      /\ e.boundaries = latest.boundaries /\ e.breakout = <<>>
      /\ e.reasons = reasons /\ e.missing = missing
      /\ e = [field \in EvaluationFields |-> e[field]]
    BY <1>1 DEF ClosingEvaluation, EvaluationFields
<1> HIDE DEF e
<1>3. /\ IsSequence(e.anchors) /\ IsTiming(e.timing) /\ e.count \in Int
      /\ e.state \in PatternState
      /\ e.asOf = <<>> \/ \E x \in Int : e.asOf = <<x>>
    BY <1>2 DEF IsTold, IsInstant
<1>4. HasDates(e)
    BY <1>2 DEF IsTold, HasDates
<1>5. IsTold(e)
    BY <1>2, <1>3, <1>4 DEF IsTold
<1> QED
    BY <1>2, <1>5 DEF e

\* A figure is invalidated for a reason, or paused for what is missing.
EndsOrPauses(state, reasons, missing) ==
    \/ state = "INVALIDATED" /\ reasons # {} /\ missing = {}
    \/ state = "INSUFFICIENT_DATA" /\ reasons = {} /\ missing # {}

\* _closing_evaluation: what it repeats had been known before, and what it says
\* goes with its state, so it may always be built.
LEMMA ClosingIsValid ==
    ASSUME NEW latest, IsTold(latest), ValidEvaluation(latest), latest.at \in Int,
           NEW t \in Int, latest.at < t,
           NEW asOf, IsInstant(asOf), \A then \in ToSet(asOf) : then <= t,
           NEW state, NEW reasons, NEW missing, EndsOrPauses(state, reasons, missing)
    PROVE  ValidEvaluation(ClosingEvaluation(latest, t, asOf, state, reasons, missing))
<1> DEFINE e == ClosingEvaluation(latest, t, asOf, state, reasons, missing)
<1>1. state \in PatternState /\ state \in {"INVALIDATED", "INSUFFICIENT_DATA"}
    BY DEF EndsOrPauses, PatternState
<1>2. /\ e.at = t /\ e.anchors = latest.anchors /\ e.state = state
      /\ e.asOf = IF asOf # <<>> THEN asOf ELSE latest.asOf
      /\ e.boundaries = latest.boundaries /\ e.breakout = <<>>
      /\ e.reasons = reasons /\ e.missing = missing
    BY <1>1, ClosingIs
<1> HIDE DEF e
<1>3. \A x \in Int : x <= latest.at => x <= t
    OBVIOUS
<1>4. ToSet(e.breakout) = {}
    BY <1>2 DEF ToSet
<1>5. KnownByThen(latest)
    BY DEF ValidEvaluation
<1>6. \A then \in ToSet(e.asOf) : then <= e.at
    <2>1. CASE asOf # <<>>
        BY <1>2, <2>1
    <2>2. CASE asOf = <<>>
        <3>1. ToSet(latest.asOf) \subseteq Int
            <4>1. CASE latest.asOf = <<>>
                BY <4>1 DEF ToSet
            <4>2. CASE latest.asOf # <<>>
                <5>1. PICK x \in Int : latest.asOf = <<x>>
                    BY <4>2 DEF IsTold
                <5>2. ToSet(<<x>>) = {x}
                    BY DEF ToSet
                <5> QED
                    BY <5>1, <5>2
            <4> QED
                BY <4>1, <4>2
        <3> QED
            BY <1>2, <1>3, <1>5, <2>2, <3>1 DEF KnownByThen
    <2> QED
        BY <2>1, <2>2
<1>7. \A n \in DOMAIN e.anchors : e.anchors[n].confirmed <= e.at
    BY <1>2, <1>3, <1>5 DEF KnownByThen, IsTold, HasDates
<1>8. ASSUME NEW b \in e.boundaries
      PROVE  /\ \A p \in ToSet(b.points) : OpenTime(p.at) <= e.at
             /\ b.contacts \subseteq {a.at : a \in ToSet(e.anchors)}
    <2>1. b.contacts \subseteq {a.at : a \in ToSet(e.anchors)}
        BY <1>2, <1>5 DEF KnownByThen
    <2>2. \A p \in ToSet(b.points) : OpenTime(p.at) \in Int /\ OpenTime(p.at) <= latest.at
        BY <1>2, <1>5 DEF KnownByThen, IsTold, HasDates
    <2> QED
        BY <1>2, <1>3, <2>1, <2>2
<1>9. KnownByThen(e)
    <2>1. /\ e.anchors # <<>>
          /\ \A n \in 1 .. (Len(e.anchors) - 1) : e.anchors[n].at < e.anchors[n + 1].at
        BY <1>2, <1>5 DEF KnownByThen
    <2> QED
        BY <1>4, <1>6, <1>7, <1>8, <2>1 DEF KnownByThen
<1>10. CoherentContent(e)
    <2>1. /\ (e.reasons # {}) <=> (e.state = "INVALIDATED")
          /\ (e.missing # {}) <=> (e.state = "INSUFFICIENT_DATA")
        BY <1>2 DEF EndsOrPauses
    <2>2. e.state \notin BreakoutStates /\ e.state \in {"FORMING", "INVALIDATED", "INSUFFICIENT_DATA"}
        BY <1>1, <1>2 DEF BreakoutStates
    <2> QED
        BY <1>2, <1>4, <2>1, <2>2 DEF CoherentContent
<1>11. ValidEvaluation(e)
    BY <1>9, <1>10 DEF ValidEvaluation
<1> QED
    BY <1>11 DEF e

\* update_instances: an open figure that nothing was said of yet at t can always be
\* paused or ended.
LEMMA ClosingMayFollow ==
    ASSUME NEW t \in Int, NEW h, IsHistory(h, t), Last(h).at < t, ~IsTerminal(h),
           NEW asOf, IsInstant(asOf), \A then \in ToSet(asOf) : then <= t,
           MayKnow(h, asOf), NEW id,
           NEW state, NEW reasons, NEW missing, EndsOrPauses(state, reasons, missing)
    PROVE  LET e == ClosingEvaluation(Last(h), t, asOf, state, reasons, missing)
           IN  CanClose(id, h, e) /\ IsKnown(e, asOf)
<1> DEFINE latest == Last(h)
           e == ClosingEvaluation(latest, t, asOf, state, reasons, missing)
<1>1. IsTold(latest) /\ ValidEvaluation(latest) /\ latest.at \in Int /\ latest.at < t
    BY LastIsTold
<1>2. state \in PatternState /\ state \in {"INVALIDATED", "INSUFFICIENT_DATA"}
    BY DEF EndsOrPauses, PatternState
<1> HIDE DEF latest
<1>3. /\ IsTold(e) /\ e.at = t /\ e.anchors = latest.anchors
      /\ e.count = latest.count /\ e.state = state
      /\ e.asOf = IF asOf # <<>> THEN asOf ELSE latest.asOf
    BY <1>1, <1>2, ClosingIs
<1>4. ValidEvaluation(e)
    BY <1>1, ClosingIsValid
<1> HIDE DEF e
<1>5. /\ IsKnown(latest, asOf)
      /\ latest.state \notin TerminalStates
      /\ e.at > latest.at
    BY <1>3 DEF MayKnow, IsTerminal, latest
<1>6. IsKnown(e, asOf)
    <2>1. CASE asOf = <<>>
        BY <1>3, <1>5, <2>1 DEF IsKnown
    <2>2. CASE asOf # <<>>
        <3>1. PICK x \in Int : asOf = <<x>>
            BY <2>2 DEF IsInstant
        <3>2. ToSet(<<x>>) = {x} /\ Head(<<x>>) = x /\ <<x>> # <<>>
            BY DEF ToSet
        <3> QED
            BY <1>3, <2>2, <3>1, <3>2 DEF IsKnown
    <2> QED
        BY <2>1, <2>2
<1>7. \A then \in ToSet(latest.asOf) : e.asOf # <<>> /\ Head(e.asOf) >= then
    <2>1. CASE asOf = <<>>
        BY <1>5, <2>1 DEF IsKnown
    <2>2. CASE asOf # <<>>
        BY <1>3, <1>5, <2>2 DEF IsKnown
    <2> QED
        BY <2>1, <2>2
<1>8. e.count >= latest.count
    BY <1>1, <1>3 DEF IsTold
<1>9. IsPrefix(latest.anchors, e.anchors)
    BY <1>1, <1>3, PrefixOfItself DEF IsTold
<1>10. e.state \in {"INSUFFICIENT_DATA", EffectiveState(h)} \/ e.state \in NextStates(EffectiveState(h))
    BY <1>2, <1>3, OpenMayEnd
<1>11. MayFollow(h, e)
    BY <1>5, <1>7, <1>8, <1>9, <1>10 DEF MayFollow, latest
<1>12. EnoughAnchors(id.type, e)
    <2>1. state \notin BreakoutStates \cup {"GEOMETRICALLY_VALID"}
        BY <1>2 DEF BreakoutStates
    <2> QED
        BY <1>3, <2>1 DEF EnoughAnchors
<1>13. CanClose(id, h, e) /\ IsKnown(e, asOf)
    BY <1>6, <1>11, <1>12, <1>4 DEF CanAdvance, CanClose
<1> QED
    BY <1>13 DEF e, latest

-----------------------------------------------------------------------------
(* update_instances, candidate by candidate *)

\* A detector's figures on their way from one instant to the next: none tells
\* of anything later than it saw.
\* One of an identity that it did not see was not touched.
IsTaking(acc, own, type, seen, t, asOf) ==
    /\ acc = [figures |-> acc.figures, raised |-> acc.raised]
    /\ \A id \in DOMAIN acc.figures : /\ id.type = type
                                      /\ IsHistory(acc.figures[id], t)
                                      /\ MayKnow(acc.figures[id], asOf)
    /\ \A id \in DOMAIN own : id \in DOMAIN acc.figures /\ GoesOn(own[id], acc.figures[id])
    /\ \A id \in DOMAIN acc.figures \ seen :
          id \in DOMAIN own /\ acc.figures[id] = own[id]

LEMMA FirstIsHistory ==
    ASSUME NEW t, NEW e, IsTold(e), ValidEvaluation(e), e.at \in Int, e.at <= t
    PROVE  IsHistory(<<e>>, t)
<1>1. IsSequence(<<e>>)
    BY <<e>> \in Seq({e}), SequenceOf
<1>2. Len(<<e>>) = 1 /\ DOMAIN <<e>> = {1} /\ <<e>>[1] = e /\ <<e>> # <<>> /\ ~(1 < 1)
    OBVIOUS
<1> DEFINE h == <<e>>
<1>3. IsSequence(h) /\ Len(h) = 1 /\ DOMAIN h = {1} /\ h[1] = e /\ h # <<>>
    BY <1>1, <1>2
<1> HIDE DEF h
<1>4. IsHistory(h, t)
    BY <1>2, <1>3 DEF IsHistory
<1> QED
    BY <1>4 DEF h

LEMMA EvaluationIsTaken ==
    ASSUME NEW t \in Int, NEW asOf, NEW own, NEW type, NEW seen, NEW acc,
           IsTaking(acc, own, type, seen, t, asOf), \A x \in DOMAIN own : IsHistory(own[x], t),
           NEW id \in seen, id.type = type,
           NEW e, IsMadeAt(e, t), ValidEvaluation(e), IsKnown(e, asOf),
           id \in DOMAIN acc.figures => Adds(acc.figures[id], e),
           NEW after, after = [figures |-> after.figures, raised |-> after.raised],
           after.figures = WithEvaluation(acc.figures, id, e)
    PROVE  IsTaking(after, own, type, seen, t, asOf)
<1> DEFINE old == acc.figures
           new == WithEvaluation(old, id, e)
<1>1. after.figures = new
    OBVIOUS
<1>2. /\ DOMAIN new = DOMAIN old \cup {id}
      /\ \A x \in DOMAIN old : x # id => new[x] = old[x]
      /\ id \in DOMAIN old => new[id] = Append(old[id], e)
      /\ id \notin DOMAIN old => new[id] = <<e>>
    BY DEF WithEvaluation
<1> HIDE DEF new
<1>3. IsTold(e) /\ e.at \in Int /\ e.at <= t
    BY DEF IsMadeAt
<1>4. \A x \in DOMAIN old : x.type = type /\ IsHistory(old[x], t) /\ MayKnow(old[x], asOf)
    BY DEF IsTaking
<1>5. IsHistory(new[id], t) /\ MayKnow(new[id], asOf)
    <2>1. CASE id \in DOMAIN old
        <3>1. IsHistory(Append(old[id], e), t) /\ MayKnow(Append(old[id], e), asOf)
            <4>1. Adds(old[id], e)
                BY <2>1
            <4>2. Last(Append(old[id], e)) = e
                BY <1>4, <2>1, AddedIs DEF IsHistory, Last
            <4> QED
                BY <1>3, <1>4, <2>1, <4>1, <4>2, AddedIsHistory DEF MayKnow
        <3> QED
            BY <1>2, <2>1, <3>1
    <2>2. CASE id \notin DOMAIN old
        <3>1. IsHistory(<<e>>, t) /\ MayKnow(<<e>>, asOf)
            <4>1. Last(<<e>>) = e
                BY DEF Last
            <4> QED
                BY <1>3, <4>1, FirstIsHistory DEF MayKnow
        <3> QED
            BY <1>2, <2>2, <3>1
    <2> QED
        BY <2>1, <2>2
<1>6. \A x \in DOMAIN new : x.type = type /\ IsHistory(new[x], t) /\ MayKnow(new[x], asOf)
    BY <1>2, <1>4, <1>5
<1>7. \A x \in DOMAIN own : x \in DOMAIN old /\ GoesOn(own[x], old[x])
    BY DEF IsTaking
<1>8. ASSUME NEW x \in DOMAIN own
      PROVE  x \in DOMAIN new /\ GoesOn(own[x], new[x])
    <2>1. CASE x = id
        <3>1. new[id] = Append(old[id], e) /\ Adds(old[id], e)
            BY <1>2, <1>7, <2>1
        <3>2. GoesOn(own[id], Append(old[id], e))
            BY <1>4, <1>7, <2>1, <3>1, GoesOnByOne
        <3> QED
            BY <1>2, <2>1, <3>1, <3>2
    <2>2. CASE x # id
        BY <1>2, <1>7, <2>2
    <2> QED
        BY <2>1, <2>2
<1>9. \A x \in DOMAIN new \ seen : x \in DOMAIN own /\ new[x] = own[x]
    BY <1>2 DEF IsTaking
<1> QED
    BY <1>1, <1>6, <1>8, <1>9 DEF IsTaking

LEMMA AdvancedIsAdded ==
    ASSUME NEW id, NEW h, NEW e, CanAdvance(id, h, e)
    PROVE  Adds(h, e)
BY DEF CanAdvance, MayFollow, Adds, IsTerminal

\* What a detector brings at t, of the last candle it sees.
IsDetected(result, type, t) ==
    /\ IsSequence(result.candidates)
    /\ IsInstant(result.asOf) /\ \A then \in ToSet(result.asOf) : then <= t
    /\ \A e \in ToSet(result.candidates) : /\ IsMadeAt(e, t) /\ e.asOf = result.asOf
                                           /\ ValidEvaluation(e) /\ EnoughAnchors(type, e)

LEMMA InstantIsKnown ==
    ASSUME NEW e, NEW asOf, IsInstant(asOf), e.asOf = asOf
    PROVE  IsKnown(e, asOf)
<1>1. CASE asOf = <<>>
    BY <1>1 DEF IsKnown, ToSet
<1>2. CASE asOf # <<>>
    <2>1. PICK x \in Int : asOf = <<x>>
        BY <1>2 DEF IsInstant
    <2>2. ToSet(<<x>>) = {x} /\ Head(<<x>>) = x /\ <<x>> # <<>>
        BY DEF ToSet
    <2> QED
        BY <2>1, <2>2 DEF IsKnown
<1> QED
    BY <1>1, <1>2

\* A candidate ends a round in an error only if its figure was seen before in it.
LEMMA CandidateIsTaken ==
    ASSUME NEW t \in Int, NEW asOf, IsInstant(asOf), \A then \in ToSet(asOf) : then <= t,
           NEW own, NEW type, NEW before, NEW acc,
           IsTaking(acc, own, type, before, t, asOf),
           \A x \in DOMAIN own : IsHistory(own[x], t) /\ Last(own[x]).at < t,
           NEW e, IsMadeAt(e, t), e.asOf = asOf, ValidEvaluation(e), EnoughAnchors(type, e)
    PROVE  /\ IsTaking(TakeCandidate(acc, type, e, t, asOf), own, type,
                       before \cup {InstanceId(type, e)}, t, asOf)
           /\ TakeCandidate(acc, type, e, t, asOf).raised =>
                 acc.raised \/ InstanceId(type, e) \in before
<1> DEFINE id == InstanceId(type, e)
           seen == before \cup {id}
           known == acc.figures[id]
           closing == ClosingEvaluation(Last(known), t, asOf, "INVALIDATED",
                                        {"SUPERSEDED"}, {})
           after == TakeCandidate(acc, type, e, t, asOf)
           with(x) == [acc EXCEPT !.figures = WithEvaluation(@, id, x)]
<1>1. \/ after = acc
      \/ /\ after = Raised(acc) /\ id \in DOMAIN acc.figures
         /\ ~IsTerminal(known) /\ ~CanClose(id, known, closing)
      \/ id \notin DOMAIN acc.figures /\ ~acc.raised /\ after = with(e)
      \/ id \in DOMAIN acc.figures /\ ~acc.raised /\ CanAdvance(id, known, e) /\ after = with(e)
      \/ /\ id \in DOMAIN acc.figures /\ ~acc.raised
         /\ CanClose(id, known, closing) /\ after = with(closing)
    BY DEF TakeCandidate
<1>2. id.type = type /\ id \in seen
    BY DEF InstanceId
<1>3. IsTaking(acc, own, type, seen, t, asOf)
    BY DEF IsTaking
<1>4. IsTaking(Raised(acc), own, type, seen, t, asOf)
    <2>1. /\ Raised(acc).figures = acc.figures
          /\ Raised(acc) = [figures |-> Raised(acc).figures, raised |-> Raised(acc).raised]
        BY DEF Raised
    <2> HIDE DEF seen
    <2> QED
        BY <1>3, <2>1 DEF IsTaking
<1>5. id \in DOMAIN acc.figures =>
         /\ IsHistory(known, t) /\ MayKnow(known, asOf) /\ IsMadeAt(closing, t)
    <2>1. SUFFICES ASSUME id \in DOMAIN acc.figures
                   PROVE  /\ IsHistory(known, t) /\ MayKnow(known, asOf) /\ IsMadeAt(closing, t)
        OBVIOUS
    <2>2. IsHistory(known, t) /\ MayKnow(known, asOf)
        BY <2>1 DEF IsTaking
    <2> HIDE DEF id, known
    <2>3. IsTold(Last(known)) /\ "INVALIDATED" \in PatternState
        BY <2>2, LastIsTold DEF PatternState
    <2> QED
        BY <2>2, <2>3, ClosingIs DEF IsMadeAt
<1>6. IsKnown(e, asOf)
    BY InstantIsKnown
<1>7. EndsOrPauses("INVALIDATED", {"SUPERSEDED"}, {})
    BY DEF EndsOrPauses
<1>8. id \in DOMAIN acc.figures \ before => Last(known).at < t
    BY DEF IsTaking
<1> SUFFICES IsTaking(after, own, type, seen, t, asOf) /\ (after.raised => acc.raised \/ id \in before)
    OBVIOUS
<1> HIDE DEF id, known, closing, after, seen
<1>9. id \in DOMAIN acc.figures /\ ~IsTerminal(known) /\ ~CanClose(id, known, closing) =>
         id \in before
    <2>1. SUFFICES ASSUME id \in DOMAIN acc.figures, ~IsTerminal(known), id \notin before
                   PROVE  CanClose(id, known, closing)
        OBVIOUS
    <2>2. IsHistory(known, t) /\ MayKnow(known, asOf) /\ Last(known).at < t
        BY <1>5, <1>8, <2>1
    <2> QED
        BY <1>7, <2>1, <2>2, ClosingMayFollow DEF closing
<1>10. ASSUME NEW x
      PROVE  /\ with(x) = [figures |-> with(x).figures, raised |-> with(x).raised]
             /\ with(x).figures = WithEvaluation(acc.figures, id, x)
             /\ with(x).raised = acc.raised
    <2>1. acc = [figures |-> acc.figures, raised |-> acc.raised]
        BY DEF IsTaking
    <2> QED
        BY <2>1
<1> HIDE DEF with
<1>11. \A x \in DOMAIN own : IsHistory(own[x], t)
    OBVIOUS
<1>12. CASE after = acc
    BY <1>3, <1>12
<1>13. CASE /\ after = Raised(acc) /\ id \in DOMAIN acc.figures
            /\ ~IsTerminal(known) /\ ~CanClose(id, known, closing)
    BY <1>4, <1>9, <1>13
<1>14. CASE id \notin DOMAIN acc.figures /\ ~acc.raised /\ after = with(e)
    <2>1. IsTaking(after, own, type, seen, t, asOf)
        BY <1>2, <1>3, <1>6, <1>10, <1>11, <1>14, EvaluationIsTaken
    <2> QED
        BY <1>10, <1>14, <2>1
<1>15. CASE id \in DOMAIN acc.figures /\ ~acc.raised /\ CanAdvance(id, known, e) /\ after = with(e)
    <2>1. Adds(acc.figures[id], e)
        BY <1>15, AdvancedIsAdded DEF known
    <2>2. IsTaking(after, own, type, seen, t, asOf)
        BY <1>2, <1>3, <1>6, <1>10, <1>11, <1>15, <2>1, EvaluationIsTaken
    <2> QED
        BY <1>10, <1>15, <2>2
<1>16. CASE /\ id \in DOMAIN acc.figures /\ ~acc.raised
            /\ CanClose(id, known, closing) /\ after = with(closing)
    <2>1. Adds(acc.figures[id], closing)
        BY <1>16, AdvancedIsAdded DEF known, CanClose
    <2>2. IsMadeAt(closing, t) /\ ValidEvaluation(closing) /\ IsKnown(closing, asOf)
        <3>1. IsHistory(known, t) /\ MayKnow(known, asOf) /\ IsMadeAt(closing, t)
            BY <1>5, <1>16
        <3>2. Last(known).at < t /\ ~IsTerminal(known)
            BY <1>16, <3>1 DEF CanClose, CanAdvance, MayFollow, IsTerminal, IsMadeAt
        <3>3. CanClose(id, known, closing) /\ IsKnown(closing, asOf)
            BY <1>7, <3>1, <3>2, ClosingMayFollow DEF closing
        <3> QED
            BY <3>1, <3>3 DEF CanClose
    <2>3. IsTaking(after, own, type, seen, t, asOf)
        BY <1>2, <1>3, <1>10, <1>11, <1>16, <2>1, <2>2, EvaluationIsTaken
    <2> QED
        BY <1>10, <1>16, <2>3
<1> QED
    BY <1>1, <1>12, <1>13, <1>14, <1>15, <1>16

\* The loop.
IsRound(f, own, type, result, t, n) ==
    f = [k \in 0 .. n |->
            IF k = 0 THEN [figures |-> own, raised |-> FALSE]
            ELSE TakeCandidate(f[k - 1], type, result.candidates[k], t, result.asOf)]

LEMMA RoundExists ==
    ASSUME NEW own, NEW type, NEW result, NEW t, NEW n \in Nat
    PROVE  \E f : IsRound(f, own, type, result, t, n)
<1> DEFINE T == {k \in Nat : \E f : IsRound(f, own, type, result, t, k)}
<1>1. 0 \in T
    <2>1. IsRound([k \in 0 .. 0 |-> [figures |-> own, raised |-> FALSE]],
                  own, type, result, t, 0)
        BY DEF IsRound
    <2> QED
        BY <2>1
<1>2. ASSUME NEW k \in Nat, k \in T
      PROVE  k + 1 \in T
    <2>1. PICK f : IsRound(f, own, type, result, t, k)
        BY <1>2
    <2> DEFINE step(x, i) == IF i = 0 THEN [figures |-> own, raised |-> FALSE]
                             ELSE TakeCandidate(x, type, result.candidates[i], t, result.asOf)
               g == [i \in 0 .. (k + 1) |-> step(f[i - 1], i)]
    <2>2. f = [i \in 0 .. k |-> step(f[i - 1], i)]
        BY <2>1 DEF IsRound
    <2>3. \A x, y : step(x, 0) = step(y, 0)
        OBVIOUS
    <2> HIDE DEF step
    <2>4. \A i \in 0 .. k : g[i] = f[i]
        <3>1. \A i \in 0 .. k : f[i] = step(f[i - 1], i)
            BY <2>2
        <3>2. \A i \in 0 .. k : g[i] = step(f[i - 1], i)
            OBVIOUS
        <3> QED
            BY <3>1, <3>2
    <2>5. g = [i \in 0 .. (k + 1) |-> step(g[i - 1], i)]
        <3>1. \A i \in 0 .. (k + 1) : i # 0 => i - 1 \in 0 .. k
            OBVIOUS
        <3>2. \A i \in 0 .. (k + 1) : step(g[i - 1], i) = step(f[i - 1], i)
            <4> HIDE DEF g
            <4> QED
                BY <2>3, <2>4, <3>1
        <3> QED
            BY <3>2
    <2>6. IsRound(g, own, type, result, t, k + 1)
        <3> HIDE DEF g
        <3> QED
            BY <2>5 DEF IsRound, step
    <2> HIDE DEF g
    <2> QED
        BY <2>6, k + 1 \in Nat
<1>3. n \in T
    <2> HIDE DEF T
    <2> QED
        BY <1>1, <1>2, AllNaturals
<1> QED
    BY <1>3

LEMMA CandidatesAreTaken ==
    ASSUME NEW t \in Int, NEW own, NEW type, NEW result, IsDetected(result, type, t),
           \A id \in DOMAIN own : /\ id.type = type
                                  /\ IsHistory(own[id], t) /\ Last(own[id]).at < t
                                  /\ MayKnow(own[id], result.asOf)
    PROVE  /\ IsTaking(TakeCandidates(own, type, result, t), own, type,
                       {InstanceId(type, e) : e \in ToSet(result.candidates)}, t, result.asOf)
           /\ TakeCandidates(own, type, result, t).raised => AreTwins(type, result.candidates)
<1> DEFINE n == Len(result.candidates)
           ids(k) == {InstanceId(type, result.candidates[i]) : i \in 1 .. k}
           f == CHOOSE f : IsRound(f, own, type, result, t, n)
           asOf == result.asOf
           twins == AreTwins(type, result.candidates)
           T == {k \in Nat : k <= n => /\ IsTaking(f[k], own, type, ids(k), t, asOf)
                                       /\ f[k].raised => twins}
<1>1. /\ n \in Nat /\ DOMAIN result.candidates = 1 .. n
      /\ IsInstant(asOf) /\ \A then \in ToSet(asOf) : then <= t
    BY SequenceHasLast DEF IsDetected
<1>2. IsRound(f, own, type, result, t, n)
    BY <1>1, RoundExists
<1>3. TakeCandidates(own, type, result, t) = f[n]
    BY DEF TakeCandidates, IsRound
<1>4. \A k \in 1 .. n : /\ IsMadeAt(result.candidates[k], t)
                        /\ result.candidates[k].asOf = asOf
                        /\ ValidEvaluation(result.candidates[k])
                        /\ EnoughAnchors(type, result.candidates[k])
    BY <1>1 DEF IsDetected, ToSet
<1>5. ids(n) = {InstanceId(type, e) : e \in ToSet(result.candidates)}
    BY <1>1 DEF ToSet
<1>6. ids(0) = {}
    OBVIOUS
<1>7. \A k \in Nat : ids(k + 1) = ids(k) \cup {InstanceId(type, result.candidates[k + 1])}
    <2>1. \A k \in Nat : 1 .. (k + 1) = (1 .. k) \cup {k + 1}
        OBVIOUS
    <2> QED
        BY <2>1
<1>8. \A k \in Nat : k + 1 <= n /\ InstanceId(type, result.candidates[k + 1]) \in ids(k) => twins
    <2>1. SUFFICES ASSUME NEW k \in Nat, k + 1 <= n,
                          NEW i \in 1 .. k,
                          InstanceId(type, result.candidates[i])
                             = InstanceId(type, result.candidates[k + 1])
                   PROVE  twins
        BY Zenon
    <2>2. i \in DOMAIN result.candidates /\ k + 1 \in DOMAIN result.candidates /\ i < k + 1
        BY <1>1, <2>1
    <2> QED
        BY <2>1, <2>2 DEF AreTwins
<1>9. \A x \in DOMAIN own : IsHistory(own[x], t) /\ Last(own[x]).at < t
    OBVIOUS
<1>10. ASSUME NEW S
       PROVE  IsTaking([figures |-> own, raised |-> FALSE], own, type, S, t, asOf)
    <2>1. \A id \in DOMAIN own : GoesOn(own[id], own[id])
        BY GoesOnAsItIs
    <2> QED
        BY <2>1 DEF IsTaking
<1> HIDE DEF f, n, ids, asOf, twins
<1>11. 0 \in T
    <2>1. f[0] = [figures |-> own, raised |-> FALSE]
        BY <1>1, <1>2 DEF IsRound
    <2>2. f[0].raised = FALSE
        BY <2>1
    <2> QED
        BY <1>10, <2>1, <2>2
<1>12. ASSUME NEW k \in Nat, k \in T
       PROVE  k + 1 \in T
    <2>1. SUFFICES ASSUME k + 1 <= n
                   PROVE  /\ IsTaking(f[k + 1], own, type, ids(k + 1), t, asOf)
                          /\ f[k + 1].raised => twins
        OBVIOUS
    <2>2. IsTaking(f[k], own, type, ids(k), t, asOf) /\ (f[k].raised => twins)
        BY <1>1, <1>12, <2>1
    <2>3. k + 1 \in 0 .. n /\ k + 1 # 0 /\ (k + 1) - 1 = k /\ k + 1 \in 1 .. n
        BY <1>1, <2>1
    <2> DEFINE e == result.candidates[k + 1]
               acc == f[k]
    <2>4. f[k + 1] = TakeCandidate(acc, type, e, t, asOf)
        BY <1>2, <2>3 DEF IsRound, asOf
    <2>5. IsMadeAt(e, t) /\ e.asOf = asOf /\ ValidEvaluation(e) /\ EnoughAnchors(type, e)
        BY <1>4, <2>3
    <2>6. ids(k + 1) = ids(k) \cup {InstanceId(type, e)}
        BY <1>7
    <2>7. InstanceId(type, e) \in ids(k) => twins
        BY <1>8, <2>1
    <2>8. IsTaking(acc, own, type, ids(k), t, asOf) /\ (acc.raised => twins)
        BY <2>2
    <2> HIDE DEF e, acc
    <2>9. /\ IsTaking(TakeCandidate(acc, type, e, t, asOf), own, type,
                      ids(k) \cup {InstanceId(type, e)}, t, asOf)
          /\ TakeCandidate(acc, type, e, t, asOf).raised =>
                acc.raised \/ InstanceId(type, e) \in ids(k)
        BY <1>1, <1>9, <2>5, <2>8, CandidateIsTaken
    <2> QED
        BY <2>4, <2>6, <2>7, <2>8, <2>9
<1>13. n \in T
    <2> HIDE DEF T
    <2> QED
        BY <1>1, <1>11, <1>12, AllNaturals
<1>14. IsTaking(f[n], own, type, ids(n), t, asOf) /\ (f[n].raised => twins)
    BY <1>1, <1>13
<1> QED
    BY <1>3, <1>5, <1>14 DEF asOf, twins

-----------------------------------------------------------------------------
(* All the figures from one instant to the next *)

LEMMA JoinedIs ==
    ASSUME NEW h, IsSequence(h), NEW e
    PROVE  h \o <<>> = h /\ h \o <<e>> = Append(h, e)
<1>1. h \in Seq(ToSet(h) \cup {e})
    BY DEF IsSequence
<1> QED
    BY <1>1

\* What follows a figure that was not seen: nothing, or an evaluation that closes
\* or pauses it, and that always may.
LEMMA UnseenIs ==
    ASSUME NEW t \in Int, NEW h, IsHistory(h, t), Last(h).at < t,
           NEW unfit, NEW asOf, IsInstant(asOf), \A then \in ToSet(asOf) : then <= t,
           MayKnow(h, asOf), NEW id
    PROVE  /\ IsHistory(h \o Unseen(h, unfit, t, asOf), t)
           /\ MayKnow(h \o Unseen(h, unfit, t, asOf), asOf)
           /\ GoesOn(h, h \o Unseen(h, unfit, t, asOf))
           /\ \A e \in ToSet(Unseen(h, unfit, t, asOf)) : CanClose(id, h, e)
<1> DEFINE more == Unseen(h, unfit, t, asOf)
           latest == Last(h)
<1>1. \/ more = <<>>
      \/ /\ ~IsTerminal(h)
         /\ \E state, reasons, missing :
               /\ EndsOrPauses(state, reasons, missing)
               /\ more = <<ClosingEvaluation(latest, t, asOf, state, reasons, missing)>>
    <2>1. /\ EndsOrPauses("INVALIDATED", {"GEOMETRY_BROKEN"}, {})
          /\ unfit # {} => EndsOrPauses("INSUFFICIENT_DATA", {}, unfit)
        BY DEF EndsOrPauses
    <2>2. \/ more = <<>>
          \/ /\ ~IsTerminal(h) /\ unfit # {}
             /\ more = <<ClosingEvaluation(latest, t, asOf, "INSUFFICIENT_DATA", {}, unfit)>>
          \/ /\ ~IsTerminal(h)
             /\ more = <<ClosingEvaluation(latest, t, asOf, "INVALIDATED", {"GEOMETRY_BROKEN"}, {})>>
        BY DEF Unseen
    <2> HIDE DEF more, latest
    <2> QED
        BY <2>1, <2>2
<1>2. IsSequence(h)
    BY DEF IsHistory
<1>3. IsTold(latest) /\ latest.at \in Int /\ latest.at < t
    BY LastIsTold
<1> HIDE DEF more, latest
<1>4. CASE more = <<>>
    <2>1. h \o more = h
        BY <1>2, <1>4, JoinedIs
    <2>2. ToSet(more) = {}
        BY <1>4 DEF ToSet
    <2> QED
        BY <2>1, <2>2, GoesOnAsItIs DEF more
<1>5. ASSUME ~IsTerminal(h), NEW state, NEW reasons, NEW missing,
             EndsOrPauses(state, reasons, missing),
             more = <<ClosingEvaluation(latest, t, asOf, state, reasons, missing)>>
      PROVE  /\ IsHistory(h \o more, t) /\ MayKnow(h \o more, asOf)
             /\ GoesOn(h, h \o more)
             /\ \A e \in ToSet(more) : CanClose(id, h, e)
    <2> DEFINE e == ClosingEvaluation(latest, t, asOf, state, reasons, missing)
    <2>1. state \in PatternState
        BY <1>5 DEF EndsOrPauses, PatternState
    <2>2. IsTold(e) /\ e.at = t
        BY <1>3, <2>1, ClosingIs
    <2>3. CanClose(id, h, e) /\ IsKnown(e, asOf)
        BY <1>3, <1>5, ClosingMayFollow DEF latest
    <2>4. more = <<e>>
        BY <1>5
    <2> HIDE DEF e
    <2>5. h \o more = Append(h, e) /\ ToSet(more) = {e}
        <3>1. ToSet(<<e>>) = {e}
            BY DEF ToSet
        <3> QED
            BY <1>2, <2>4, <3>1, JoinedIs
    <2>6. Adds(h, e)
        BY <2>3, AdvancedIsAdded DEF CanClose
    <2>7. GoesOn(h, Append(h, e))
        BY <2>6, GoesOnAsItIs, GoesOnByOne
    <2>8. IsHistory(Append(h, e), t)
        BY <2>2, <2>3, <2>6, AddedIsHistory DEF CanClose
    <2>9. Last(Append(h, e)) = e
        BY <1>2, AddedIs DEF Last
    <2>10. MayKnow(Append(h, e), asOf)
        BY <2>3, <2>9 DEF MayKnow
    <2> QED
        BY <2>3, <2>5, <2>7, <2>8, <2>10
<1> QED
    BY <1>1, <1>4, <1>5 DEF more

\* update_instances ends in an error only for two candidates of one identity.
LEMMA UpdatedGoOn ==
    ASSUME NEW t \in Int, NEW own, NEW type, NEW result, IsDetected(result, type, t),
           \A id \in DOMAIN own : /\ id.type = type
                                  /\ IsHistory(own[id], t) /\ Last(own[id]).at < t
                                  /\ MayKnow(own[id], result.asOf)
    PROVE  LET after == UpdateInstances(own, type, result, t)
           IN  /\ \A id \in DOMAIN after.figures : /\ id.type = type
                                                   /\ IsHistory(after.figures[id], t)
                                                   /\ MayKnow(after.figures[id], result.asOf)
               /\ \A id \in DOMAIN own : /\ id \in DOMAIN after.figures
                                         /\ GoesOn(own[id], after.figures[id])
               /\ after.raised => AreTwins(type, result.candidates)
<1> DEFINE taken == TakeCandidates(own, type, result, t)
           seen == {InstanceId(type, e) : e \in ToSet(result.candidates)}
           after == UpdateInstances(own, type, result, t)
           asOf == result.asOf
           unseen(id) == Unseen(taken.figures[id], result.unfit, t, asOf)
<1>1. IsTaking(taken, own, type, seen, t, asOf) /\ (taken.raised => AreTwins(type, result.candidates))
    BY CandidatesAreTaken
<1>2. /\ DOMAIN after.figures = DOMAIN taken.figures
      /\ \A id \in DOMAIN taken.figures \cap seen : after.figures[id] = taken.figures[id]
      /\ \A id \in DOMAIN taken.figures \ seen :
            after.figures[id] = taken.figures[id] \o unseen(id)
      /\ after.raised =>
            \/ taken.raised
            \/ \E id \in DOMAIN taken.figures \ seen :
               \E e \in ToSet(unseen(id)) : ~CanClose(id, taken.figures[id], e)
    <2> HIDE DEF taken, seen
    <2> QED
        BY DEF UpdateInstances, taken, seen
<1>3. IsInstant(asOf) /\ \A then \in ToSet(asOf) : then <= t
    BY DEF IsDetected
<1>4. \A id \in DOMAIN own : /\ id.type = type
                             /\ IsHistory(own[id], t) /\ Last(own[id]).at < t
                             /\ MayKnow(own[id], asOf)
    OBVIOUS
<1> HIDE DEF taken, seen, after, asOf
<1>5. ASSUME NEW id \in DOMAIN taken.figures, id \notin seen
      PROVE  /\ IsHistory(own[id] \o unseen(id), t) /\ MayKnow(own[id] \o unseen(id), asOf)
             /\ GoesOn(own[id], own[id] \o unseen(id))
             /\ \A e \in ToSet(unseen(id)) : CanClose(id, taken.figures[id], e)
             /\ id \in DOMAIN own /\ taken.figures[id] = own[id]
    <2>1. id \in DOMAIN own /\ taken.figures[id] = own[id]
        BY <1>1, <1>5 DEF IsTaking
    <2> DEFINE h == own[id]
    <2>2. IsHistory(h, t) /\ Last(h).at < t /\ MayKnow(h, asOf)
        BY <1>4, <2>1
    <2>3. unseen(id) = Unseen(h, result.unfit, t, asOf)
        BY <2>1
    <2> HIDE DEF h
    <2> DEFINE more == Unseen(h, result.unfit, t, asOf)
    <2>4. /\ IsHistory(h \o more, t) /\ MayKnow(h \o more, asOf)
          /\ GoesOn(h, h \o more)
          /\ \A e \in ToSet(more) : CanClose(id, h, e)
        BY <1>3, <2>2, UnseenIs
    <2> HIDE DEF more
    <2>5. unseen(id) = more
        BY <2>3 DEF more
    <2> HIDE DEF unseen
    <2> QED
        BY <2>1, <2>4, <2>5 DEF h
<1> HIDE DEF unseen
<1>6. ASSUME NEW id \in DOMAIN after.figures
      PROVE  /\ id.type = type /\ IsHistory(after.figures[id], t)
             /\ MayKnow(after.figures[id], asOf)
             /\ id \in DOMAIN own => GoesOn(own[id], after.figures[id])
    <2>1. id.type = type
        BY <1>1, <1>2 DEF IsTaking
    <2>2. CASE id \in seen
        BY <1>1, <1>2, <2>2 DEF IsTaking
    <2>3. CASE id \notin seen
        BY <1>2, <1>5, <2>1, <2>3
    <2> QED
        BY <2>2, <2>3
<1>7. \A id \in DOMAIN own : id \in DOMAIN after.figures
    BY <1>1, <1>2 DEF IsTaking
<1>8. after.raised => AreTwins(type, result.candidates)
    BY <1>1, <1>2, <1>5
<1>9. /\ \A id \in DOMAIN after.figures : /\ id.type = type
                                          /\ IsHistory(after.figures[id], t)
                                          /\ MayKnow(after.figures[id], asOf)
      /\ \A id \in DOMAIN own : /\ id \in DOMAIN after.figures
                                /\ GoesOn(own[id], after.figures[id])
      /\ after.raised => AreTwins(type, result.candidates)
    BY <1>6, <1>7, <1>8
<1> QED
    BY <1>9 DEF after, asOf

-----------------------------------------------------------------------------
(* All detectors *)

\* What a detector brings is of the last candle it may read.
LEMMA DetectedIs ==
    ASSUME NEW t \in Int, NEW candles, HaveClosed(candles, t), NEW type \in PatternType
    PROVE  LET result == Detect(type, candles, t)
           IN  /\ IsDetected(result, type, t)
               /\ \A c \in ToSet(candles) :
                     MayRead(type, c, t) =>
                        result.asOf # <<>> /\ CloseTime(c.at) <= Head(result.asOf)
               /\ result.asOf # <<>> =>
                     \E c \in ToSet(candles) :
                        MayRead(type, c, t) /\ Head(result.asOf) = CloseTime(c.at)
<1> DEFINE result == Detect(type, candles, t)
           seen == Seen(type, candles, t)
           last == CloseTime(Last(seen).at)
           asOf == result.asOf
           found == result.candidates
<1>1. HaveClosed(seen, t) /\ AllFound(found, type, seen, t)
    BY DetectedAreFound
<1>2. ToSet(seen) = {c \in ToSet(candles) : MayRead(type, c, t)}
    BY SeenIs DEF HaveClosed
<1>3. /\ asOf = IF seen = <<>> THEN <<>> ELSE <<last>>
      /\ seen = <<>> => found = <<>>
    <2>1. asOf = IF seen = <<>> THEN <<>> ELSE <<last>>
        BY DEF Detect
    <2>2. MissingDataReasons({c.at : c \in ToSet(seen)}, t, TrendHistory) # {} => found = <<>>
        BY DEF Detect
    <2>3. seen = <<>> => {c.at : c \in ToSet(seen)} = {}
        BY DEF ToSet
    <2>4. \A h : MissingDataReasons({}, t, h) # {}
        BY DEF MissingDataReasons
    <2> HIDE DEF seen, found, asOf, last
    <2> QED
        BY <2>1, <2>2, <2>3, <2>4
<1> HIDE DEF result, seen, asOf, found
<1>4. /\ seen \in Seq(ClosedCandle) /\ AreInOrder(seen)
      /\ DOMAIN seen = 1 .. Len(seen) /\ Len(seen) \in Nat
      /\ \A n \in DOMAIN seen : seen[n] \in ClosedCandle /\ seen[n].at \in Nat
    <2>1. seen \in Seq(ClosedCandle) /\ AreInOrder(seen)
        BY <1>1 DEF HaveClosed
    <2> QED
        BY <2>1, CandlesAre
<1>5. ASSUME seen # <<>>
      PROVE  /\ last \in Int /\ last <= t /\ Last(seen) \in ToSet(seen)
             /\ \A c \in ToSet(seen) : CloseTime(c.at) <= last
    <2>1. Len(seen) \in DOMAIN seen /\ Last(seen) = seen[Len(seen)]
        BY <1>4, <1>5 DEF Last
    <2>2. last \in Int
        <3>1. Last(seen).at \in Int
            BY <1>4, <2>1
        <3> QED
            BY <3>1, TicksPass
    <2>3. Last(seen) \in ToSet(seen)
        BY <2>1 DEF ToSet
    <2>4. ASSUME NEW n \in DOMAIN seen
          PROVE  CloseTime(seen[n].at) <= last
        <3>1. CASE n = Len(seen)
            BY <2>1, <2>2, <3>1
        <3>2. CASE n # Len(seen)
            <4>1. n < Len(seen)
                BY <1>4, <3>2
            <4>2. seen[n].at < Last(seen).at /\ seen[n].at \in Int /\ Last(seen).at \in Int
                BY <1>4, <2>1, <4>1 DEF AreInOrder
            <4> QED
                BY <4>2, TicksPass
        <3> QED
            BY <3>1, <3>2
    <2>5. \A c \in ToSet(seen) : \E n \in DOMAIN seen : c = seen[n]
        BY DEF ToSet
    <2>6. last <= t
        BY <1>1, <2>1 DEF HaveClosed
    <2> QED
        BY <2>2, <2>3, <2>4, <2>5, <2>6
<1>6. seen # <<>> => asOf # <<>> /\ Head(asOf) = last /\ asOf = <<last>>
    BY <1>3
<1>7. IsInstant(asOf) /\ \A then \in ToSet(asOf) : then <= t
    <2>1. CASE seen = <<>>
        BY <1>3, <2>1 DEF IsInstant, ToSet
    <2>2. CASE seen # <<>>
        <3>1. ToSet(<<last>>) = {last}
            BY DEF ToSet
        <3> QED
            BY <1>3, <1>5, <2>2, <3>1 DEF IsInstant
    <2> QED
        BY <2>1, <2>2
<1>8. /\ IsSequence(found)
      /\ \A e \in ToSet(found) : /\ IsMadeAt(e, t) /\ e.asOf = asOf
                                 /\ ValidEvaluation(e) /\ EnoughAnchors(type, e)
    <2>1. CASE seen = <<>>
        <3>1. ToSet(found) = {}
            BY <1>3, <2>1 DEF ToSet
        <3> QED
            BY <1>1, <3>1 DEF AllFound
    <2>2. CASE seen # <<>>
        BY <1>1, <1>6, <2>2 DEF AllFound, IsFound
    <2> QED
        BY <2>1, <2>2
<1>9. IsDetected(result, type, t)
    BY <1>7, <1>8 DEF IsDetected, asOf, found
<1>10. \A c \in ToSet(candles) :
          MayRead(type, c, t) => asOf # <<>> /\ CloseTime(c.at) <= Head(asOf)
    <2>1. SUFFICES ASSUME NEW c \in ToSet(seen)
                   PROVE  asOf # <<>> /\ CloseTime(c.at) <= Head(asOf)
        BY <1>2
    <2>2. seen # <<>>
        BY DEF ToSet
    <2> QED
        BY <1>5, <1>6, <2>1, <2>2
<1>11. asOf # <<>> =>
         \E c \in ToSet(candles) : MayRead(type, c, t) /\ Head(asOf) = CloseTime(c.at)
    BY <1>2, <1>3, <1>5, <1>6
<1> QED
    BY <1>9, <1>10, <1>11 DEF result, asOf

\* What a figure tells of is a candle that its detector may read by t, or earlier.
IsBased(h, type, candles, t) ==
    \A then \in ToSet(Last(h).asOf) :
       \E c \in ToSet(candles) : MayRead(type, c, t) /\ then <= CloseTime(c.at)

\* A candle that may be read may be read ever after.
LEMMA BasisLasts ==
    ASSUME NEW h, NEW type, NEW candles \in Seq(ClosedCandle), NEW t \in Int,
           NEW more, ToSet(candles) \subseteq ToSet(more), NEW later \in Int, t <= later,
           IsBased(h, type, candles, t)
    PROVE  IsBased(h, type, more, later)
<1>1. ASSUME NEW c \in ToSet(candles), MayRead(type, c, t)
      PROVE  MayRead(type, c, later)
    <2>1. c.seen \in Seq(Int)
        BY CandlesAre
    <2>2. \A s \in ToSet(c.seen) : s \in Int
        BY <2>1 DEF ToSet
    <2>3. \A s \in ToSet(c.seen) : s <= t => s <= later
        BY <2>2
    <2> QED
        BY <1>1, <2>3 DEF MayRead
<1> QED
    BY <1>1 DEF IsBased

LEMMA BasedMayKnow ==
    ASSUME NEW t \in Int, NEW candles, HaveClosed(candles, t), NEW type \in PatternType,
           NEW h, NEW u, IsHistory(h, u)
    PROVE  LET asOf == Detect(type, candles, t).asOf
           IN  IsBased(h, type, candles, t) <=> MayKnow(h, asOf)
<1> DEFINE asOf == Detect(type, candles, t).asOf
           thens == ToSet(Last(h).asOf)
           base == {c \in ToSet(candles) : MayRead(type, c, t)}
<1>1. /\ IsInstant(asOf)
      /\ \A c \in base : asOf # <<>> /\ CloseTime(c.at) <= Head(asOf)
      /\ asOf # <<>> => \E c \in base : Head(asOf) = CloseTime(c.at)
    BY DetectedIs DEF IsDetected
<1>2. thens \subseteq Int
    <2>1. IsTold(Last(h))
        BY LastIsTold
    <2>2. CASE Last(h).asOf = <<>>
        BY <2>2 DEF ToSet
    <2>3. CASE Last(h).asOf # <<>>
        <3>1. PICK x \in Int : Last(h).asOf = <<x>>
            BY <2>1, <2>3 DEF IsTold
        <3>2. ToSet(<<x>>) = {x}
            BY DEF ToSet
        <3> QED
            BY <3>1, <3>2
    <2> QED
        BY <2>2, <2>3
<1>3. \A c \in base : CloseTime(c.at) \in Int
    <2>1. \A c \in base : c.at \in Int
        BY CandlesAre DEF HaveClosed
    <2> QED
        BY <2>1, TicksPass
<1>4. /\ IsBased(h, type, candles, t) <=>
            \A then \in thens : \E c \in base : then <= CloseTime(c.at)
      /\ MayKnow(h, asOf) <=> \A then \in thens : asOf # <<>> /\ Head(asOf) >= then
    BY DEF IsBased, MayKnow, IsKnown
<1> HIDE DEF asOf, thens, base
<1>5. asOf # <<>> => Head(asOf) \in Int
    BY <1>1, <1>3
<1>6. ASSUME \A then \in thens : \E c \in base : then <= CloseTime(c.at)
      PROVE  \A then \in thens : asOf # <<>> /\ Head(asOf) >= then
    <2>1. SUFFICES ASSUME NEW then \in thens
                   PROVE  asOf # <<>> /\ Head(asOf) >= then
        OBVIOUS
    <2>2. PICK c \in base : then <= CloseTime(c.at)
        BY <1>6
    <2>3. asOf # <<>> /\ CloseTime(c.at) <= Head(asOf) /\ CloseTime(c.at) \in Int /\ then \in Int
        BY <1>1, <1>2, <1>3
    <2> QED
        BY <1>5, <2>2, <2>3
<1>7. ASSUME \A then \in thens : asOf # <<>> /\ Head(asOf) >= then
      PROVE  \A then \in thens : \E c \in base : then <= CloseTime(c.at)
    <2>1. SUFFICES ASSUME NEW then \in thens
                   PROVE  \E c \in base : then <= CloseTime(c.at)
        OBVIOUS
    <2>2. asOf # <<>> /\ Head(asOf) >= then /\ then \in Int /\ Head(asOf) \in Int
        BY <1>2, <1>5, <1>7
    <2>3. PICK c \in base : Head(asOf) = CloseTime(c.at)
        BY <1>1, <2>2
    <2> QED
        BY <2>2, <2>3
<1>8. IsBased(h, type, candles, t) <=> MayKnow(h, asOf)
    BY <1>4, <1>6, <1>7
<1> QED
    BY <1>8 DEF asOf

\* Detector.detect: carrying the figures forward ends in an error only for two
\* candidates of one identity.
LEMMA EvaluatedGoOn ==
    ASSUME NEW t \in Int, NEW earlier \in Int, earlier < t,
           NEW candles, HaveClosed(candles, t), opening.watched \subseteq PatternType,
           \A id \in DOMAIN figures : /\ id.type \in opening.watched
                                      /\ IsHistory(figures[id], earlier)
                                      /\ IsBased(figures[id], id.type, candles, t)
    PROVE  LET after == Evaluate(candles, t)
           IN  /\ \A id \in DOMAIN after.figures :
                     /\ id.type \in opening.watched
                     /\ IsHistory(after.figures[id], t)
                     /\ IsBased(after.figures[id], id.type, candles, t)
               /\ \A id \in DOMAIN figures : /\ id \in DOMAIN after.figures
                                             /\ GoesOn(figures[id], after.figures[id])
               /\ after.raised => \E type \in opening.watched :
                                     AreTwins(type, Detect(type, candles, t).candidates)
<1> DEFINE own(type) == [id \in {x \in DOMAIN figures : x.type = type} |-> figures[id]]
           carried(type) == Carry(type, Detect(type, candles, t), t)
           after == Evaluate(candles, t)
<1>1. ASSUME NEW type \in opening.watched
      PROVE  /\ \A id \in DOMAIN carried(type).figures :
                   /\ id.type = type /\ IsHistory(carried(type).figures[id], t)
                   /\ IsBased(carried(type).figures[id], type, candles, t)
             /\ \A id \in DOMAIN figures :
                   id.type = type => /\ id \in DOMAIN carried(type).figures
                                     /\ GoesOn(figures[id], carried(type).figures[id])
             /\ carried(type).raised => AreTwins(type, Detect(type, candles, t).candidates)
    <2> DEFINE result == Detect(type, candles, t)
               updated == UpdateInstances(own(type), type, result, t)
               mine == own(type)
               one == carried(type)
    <2>1. /\ one.figures = updated.figures
          /\ one.raised <=> (updated.raised \/ \E e \in ToSet(result.candidates) : ~ValidEvaluation(e))
        BY DEF Carry
    <2>2. type \in PatternType
        OBVIOUS
    <2>3. IsDetected(result, type, t)
        BY <2>2, DetectedIs
    <2>4. \A id \in DOMAIN figures :
             id.type = type => id \in DOMAIN mine /\ mine[id] = figures[id]
        OBVIOUS
    <2>5. ASSUME NEW id \in DOMAIN mine
          PROVE  /\ id.type = type /\ IsHistory(mine[id], earlier)
                 /\ IsBased(mine[id], type, candles, t)
        OBVIOUS
    <2> HIDE DEF mine, one, updated
    <2>6. ASSUME NEW id \in DOMAIN mine
          PROVE  /\ id.type = type /\ IsHistory(mine[id], t) /\ Last(mine[id]).at < t
                 /\ MayKnow(mine[id], result.asOf)
        <3> DEFINE h == mine[id]
        <3>1. id.type = type /\ IsHistory(h, earlier) /\ IsBased(h, type, candles, t)
            BY <2>5
        <3> HIDE DEF h, result
        <3>2. IsHistory(h, t)
            BY <3>1, HistoryLasts
        <3>3. Last(h).at < t
            <4>1. Last(h).at \in Int /\ Last(h).at <= earlier
                BY <3>1, LastIsTold
            <4> QED
                BY <4>1
        <3>4. MayKnow(h, result.asOf)
            BY <2>2, <3>1, BasedMayKnow DEF result
        <3> QED
            BY <3>1, <3>2, <3>3, <3>4 DEF h
    <2>7. updated = UpdateInstances(mine, type, result, t)
        BY DEF updated, mine
    <2> HIDE DEF result
    <2>8. /\ \A id \in DOMAIN updated.figures : /\ id.type = type
                                                /\ IsHistory(updated.figures[id], t)
                                                /\ MayKnow(updated.figures[id], result.asOf)
          /\ \A id \in DOMAIN mine : /\ id \in DOMAIN updated.figures
                                     /\ GoesOn(mine[id], updated.figures[id])
          /\ updated.raised => AreTwins(type, result.candidates)
        BY <2>3, <2>6, <2>7, UpdatedGoOn
    <2>9. ASSUME NEW id \in DOMAIN updated.figures
          PROVE  IsBased(updated.figures[id], type, candles, t)
        <3> DEFINE h == updated.figures[id]
        <3>1. IsHistory(h, t) /\ MayKnow(h, result.asOf)
            BY <2>8
        <3> HIDE DEF h
        <3>2. IsBased(h, type, candles, t)
            BY <2>2, <3>1, BasedMayKnow DEF result
        <3> QED
            BY <3>2 DEF h
    <2>10. one.raised => AreTwins(type, result.candidates)
        BY <2>1, <2>3, <2>8 DEF IsDetected
    <2>11. /\ \A id \in DOMAIN one.figures : /\ id.type = type /\ IsHistory(one.figures[id], t)
                                             /\ IsBased(one.figures[id], type, candles, t)
           /\ \A id \in DOMAIN figures :
                 id.type = type => /\ id \in DOMAIN one.figures
                                   /\ GoesOn(figures[id], one.figures[id])
        BY <2>1, <2>4, <2>8, <2>9
    <2> QED
        BY <2>10, <2>11 DEF one, result
<1> HIDE DEF carried
<1>2. /\ DOMAIN after.figures = UNION {DOMAIN carried(type).figures : type \in opening.watched}
      /\ \A id \in DOMAIN after.figures :
            id.type \in opening.watched => after.figures[id] = carried(id.type).figures[id]
      /\ after.raised <=> \E type \in opening.watched : carried(type).raised
    BY DEF Evaluate, Joined, carried
<1> HIDE DEF after
<1>3. ASSUME NEW id \in DOMAIN after.figures
      PROVE  /\ id.type \in opening.watched /\ IsHistory(after.figures[id], t)
             /\ IsBased(after.figures[id], id.type, candles, t)
             /\ after.figures[id] = carried(id.type).figures[id]
    <2>1. PICK type \in opening.watched : id \in DOMAIN carried(type).figures
        BY <1>2
    <2>2. id.type = type
        BY <1>1, <2>1
    <2> QED
        BY <1>1, <1>2, <2>1, <2>2
<1>4. ASSUME NEW id \in DOMAIN figures
      PROVE  id \in DOMAIN after.figures /\ GoesOn(figures[id], after.figures[id])
    <2>1. id.type \in opening.watched
        OBVIOUS
    <2>2. id \in DOMAIN carried(id.type).figures /\ GoesOn(figures[id], carried(id.type).figures[id])
        BY <1>1, <2>1
    <2>3. id \in DOMAIN after.figures
        BY <1>2, <2>1, <2>2
    <2> QED
        BY <1>2, <2>1, <2>2, <2>3
<1>5. after.raised => \E type \in opening.watched :
                         AreTwins(type, Detect(type, candles, t).candidates)
    BY <1>1, <1>2
<1>6. /\ \A id \in DOMAIN after.figures : /\ id.type \in opening.watched
                                          /\ IsHistory(after.figures[id], t)
                                          /\ IsBased(after.figures[id], id.type, candles, t)
      /\ \A id \in DOMAIN figures : /\ id \in DOMAIN after.figures
                                    /\ GoesOn(figures[id], after.figures[id])
    BY <1>3, <1>4
<1> QED
    BY <1>5, <1>6 DEF after

-----------------------------------------------------------------------------
(* The patterns of candles *)

\* The patterns whose last candle is at a position.
PatternsEndingAt(candles, n) ==
    (IF HaveRange(candles, n, n)
     THEN SinglePatterns(candles[n], TrendBefore(candles, n)) ELSE {})
      \cup (IF n > 1 /\ HaveRange(candles, n - 1, n) THEN PairPatterns(candles, n) ELSE {})
      \cup (IF n > 2 /\ HaveRange(candles, n - 2, n) THEN TriplePatterns(candles, n) ELSE {})

\* What the patterns that end at a position read stays as candles are added.
LEMMA ReadTheSame ==
    ASSUME NEW candles \in Seq(ClosedCandle), NEW c \in ClosedCandle,
           NEW n \in 1 .. Len(candles)
    PROVE  LET more == Append(candles, c)
           IN  /\ \A m \in 1 .. n : more[m] = candles[m]
               /\ \A m \in 1 .. n : SubSeq(more, 1, m - 1) = SubSeq(candles, 1, m - 1)
               /\ n > 2 => SubSeq(more, n - 2, n) = SubSeq(candles, n - 2, n)
<1> DEFINE more == Append(candles, c)
<1>1. Len(candles) \in Nat
    OBVIOUS
<1>2. \A m \in 1 .. Len(candles) : more[m] = candles[m]
    OBVIOUS
<1> HIDE DEF more
<1>3. ASSUME NEW a \in Int, NEW b \in Int, a >= 1, b <= Len(candles)
      PROVE  SubSeq(more, a, b) = SubSeq(candles, a, b)
    <2>1. \A i \in 1 .. (b - a + 1) : i + a - 1 \in 1 .. Len(candles)
        BY <1>1, <1>3
    <2>2. \A i \in 1 .. (b - a + 1) : more[i + a - 1] = candles[i + a - 1]
        BY <1>2, <2>1
    <2>3. /\ SubSeq(more, a, b) = [i \in 1 .. (b - a + 1) |-> more[i + a - 1]]
          /\ SubSeq(candles, a, b) = [i \in 1 .. (b - a + 1) |-> candles[i + a - 1]]
        OBVIOUS
    <2> QED
        BY <2>2, <2>3
<1>4. \A m \in 1 .. n : more[m] = candles[m]
    BY <1>1, <1>2
<1>5. \A m \in 1 .. n : SubSeq(more, 1, m - 1) = SubSeq(candles, 1, m - 1)
    <2>1. \A m \in 1 .. n : 1 \in Int /\ m - 1 \in Int /\ 1 >= 1 /\ m - 1 <= Len(candles)
        BY <1>1
    <2> QED
        BY <1>3, <2>1
<1>6. n > 2 => SubSeq(more, n - 2, n) = SubSeq(candles, n - 2, n)
    <2>1. n > 2 => n - 2 \in Int /\ n \in Int /\ n - 2 >= 1 /\ n <= Len(candles)
        BY <1>1
    <2> QED
        BY <1>3, <2>1
<1> QED
    BY <1>4, <1>5, <1>6 DEF more

LEMMA PatternsStay ==
    ASSUME NEW candles \in Seq(ClosedCandle), NEW c \in ClosedCandle,
           NEW n \in 1 .. Len(candles)
    PROVE  /\ PatternsEndingAt(Append(candles, c), n) = PatternsEndingAt(candles, n)
           /\ Append(candles, c)[n] = candles[n]
           /\ TrendBefore(Append(candles, c), n) = TrendBefore(candles, n)
           /\ HaveRange(Append(candles, c), n, n) <=> HaveRange(candles, n, n)
<1> DEFINE more == Append(candles, c)
<1>1. /\ \A m \in 1 .. n : more[m] = candles[m]
      /\ \A m \in 1 .. n : SubSeq(more, 1, m - 1) = SubSeq(candles, 1, m - 1)
      /\ n > 2 => SubSeq(more, n - 2, n) = SubSeq(candles, n - 2, n)
    BY ReadTheSame
<1> HIDE DEF more
<1>2. \A m \in 1 .. n : TrendBefore(more, m) = TrendBefore(candles, m)
    BY <1>1 DEF TrendBefore
<1>3. \A a \in 1 .. n : HaveRange(more, a, n) <=> HaveRange(candles, a, n)
    <2>1. ASSUME NEW a \in 1 .. n
          PROVE  HaveRange(more, a, n) <=> HaveRange(candles, a, n)
        <3>1. \A m \in a .. n : more[m] = candles[m]
            BY <1>1
        <3> QED
            BY <3>1 DEF HaveRange
    <2> QED
        BY <2>1
<1>4. n \in 1 .. n /\ (n > 1 => n - 1 \in 1 .. n) /\ (n > 2 => n - 2 \in 1 .. n)
    OBVIOUS
<1>5. n > 1 => PairPatterns(more, n) = PairPatterns(candles, n)
    <2> DEFINE pairs(first, second, observed) ==
                  UNION {{Recorded(NameOf(shape, side), <<first, second>>, {Against(side)},
                                   observed) :
                             shape \in PairShapes(Facing(side, first), Facing(side, second))} :
                           side \in Bias}
    <2>1. \A x : PairPatterns(x, n) = pairs(x[n - 1], x[n], TrendBefore(x, n - 1))
        BY Zenon DEF PairPatterns
    <2>2. n > 1 => /\ more[n - 1] = candles[n - 1] /\ more[n] = candles[n]
                   /\ TrendBefore(more, n - 1) = TrendBefore(candles, n - 1)
        BY <1>1, <1>2, <1>4
    <2> HIDE DEF pairs
    <2> QED
        BY <2>1, <2>2
<1>6. n > 2 => TriplePatterns(more, n) = TriplePatterns(candles, n)
    <2> DEFINE triples(part, observed) ==
                  UNION {{Recorded(NameOf(shape, side), part,
                                   IF shape = "SOLDIERS" THEN {} ELSE {Against(side)},
                                   observed) :
                             shape \in TripleShapes(Facing(side, part[1]), Facing(side, part[2]),
                                                    Facing(side, part[3]))} :
                           side \in Bias}
    <2>1. \A x : TriplePatterns(x, n) = triples(SubSeq(x, n - 2, n), TrendBefore(x, n - 2))
        BY Zenon DEF TriplePatterns
    <2>2. n > 2 => /\ SubSeq(more, n - 2, n) = SubSeq(candles, n - 2, n)
                   /\ TrendBefore(more, n - 2) = TrendBefore(candles, n - 2)
        BY <1>1, <1>2, <1>4
    <2> HIDE DEF triples
    <2> QED
        BY <2>1, <2>2
<1>7. PatternsEndingAt(more, n) = PatternsEndingAt(candles, n)
    BY <1>1, <1>2, <1>3, <1>4, <1>5, <1>6 DEF PatternsEndingAt
<1>8. more[n] = candles[n] /\ TrendBefore(more, n) = TrendBefore(candles, n)
    BY <1>1, <1>2, <1>4
<1>9. HaveRange(more, n, n) <=> HaveRange(candles, n, n)
    BY <1>3, <1>4
<1> QED
    BY <1>7, <1>8, <1>9 DEF more

\* A pattern is dated when its last candle closed.
LEMMA PatternsAreDated ==
    ASSUME NEW candles \in Seq(ClosedCandle), NEW n \in 1 .. Len(candles),
           NEW p \in PatternsEndingAt(candles, n)
    PROVE  p.at = CloseTime(candles[n].at)
<1>1. ASSUME NEW type, NEW part, NEW needs, NEW observed
      PROVE  Recorded(type, part, needs, observed).at = CloseTime(Last(part).at)
    BY DEF Recorded
<1>2. \A x, y : Last(<<x>>) = x /\ Last(<<x, y>>) = y
    BY DEF Last
<1>3. p \in SinglePatterns(candles[n], TrendBefore(candles, n)) => p.at = CloseTime(candles[n].at)
    <2>1. ASSUME NEW c, NEW trend, p \in SinglePatterns(c, trend)
          PROVE  \E type, needs : p = Recorded(type, <<c>>, needs, trend)
        <3> DEFINE record(type, needs) == Recorded(type, <<c>>, needs, trend)
                   dojis == IF AtMostShare(Body(c), SingleParams.doji_max_body_ratio, Span(c))
                            THEN {record("DOJI", {})} ELSE {}
                   named == UNION {{record(NameOf(shape, side), {Against(side)}) :
                                       shape \in SingleShapes(Facing(side, c)) \ {"HAMMER"}} :
                                     side \in Bias}
                   hammers == UNION {{record(name, {trend}) :
                                         name \in ToSet(HammerName(side, trend))} :
                                       side \in {s \in Bias :
                                                  "HAMMER" \in SingleShapes(Facing(s, c))}}
        <3>1. SinglePatterns(c, trend) = dojis \cup named \cup hammers
            BY DEF SinglePatterns
        <3>2. p \in dojis => p = record("DOJI", {})
            OBVIOUS
        <3>3. p \in named => \E shape, side : p = record(NameOf(shape, side), {Against(side)})
            OBVIOUS
        <3>4. p \in hammers => \E name : p = record(name, {trend})
            OBVIOUS
        <3> HIDE DEF dojis, named, hammers
        <3> QED
            BY <2>1, <3>1, <3>2, <3>3, <3>4
    <2>2. SUFFICES ASSUME p \in SinglePatterns(candles[n], TrendBefore(candles, n))
                   PROVE  p.at = CloseTime(candles[n].at)
        OBVIOUS
    <2>3. PICK type, needs : p = Recorded(type, <<candles[n]>>, needs, TrendBefore(candles, n))
        BY <2>1, <2>2
    <2> QED
        BY <1>1, <1>2, <2>3
<1>4. p \in PairPatterns(candles, n) => p.at = CloseTime(candles[n].at)
    <2>1. p \in PairPatterns(candles, n) =>
             \E type, needs, observed :
                p = Recorded(type, <<candles[n - 1], candles[n]>>, needs, observed)
        BY Zenon DEF PairPatterns
    <2> QED
        BY <1>1, <1>2, <2>1
<1>5. n > 2 /\ p \in TriplePatterns(candles, n) => p.at = CloseTime(candles[n].at)
    <2>1. n > 2 => Last(SubSeq(candles, n - 2, n)) = candles[n]
        <3>1. SUFFICES ASSUME n > 2
                       PROVE  Last(SubSeq(candles, n - 2, n)) = candles[n]
            OBVIOUS
        <3>2. /\ DOMAIN SubSeq(candles, n - 2, n) = 1 .. 3
              /\ \A i \in 1 .. 3 : SubSeq(candles, n - 2, n)[i] = candles[i + (n - 2) - 1]
              /\ Len(SubSeq(candles, n - 2, n)) = 3
            BY <3>1
        <3> QED
            BY <3>2, 3 \in 1 .. 3, 3 + (n - 2) - 1 = n DEF Last
    <2>2. p \in TriplePatterns(candles, n) =>
             \E type, needs, observed :
                p = Recorded(type, SubSeq(candles, n - 2, n), needs, observed)
        BY DEF TriplePatterns
    <2> QED
        BY <1>1, <2>1, <2>2
<1> QED
    BY <1>3, <1>4, <1>5 DEF PatternsEndingAt

LEMMA PatternsAre ==
    ASSUME NEW candles \in Seq(ClosedCandle)
    PROVE  CandlePatternsOf(candles)
             = IF ~Authorized THEN {}
               ELSE UNION {PatternsEndingAt(candles, n) : n \in 1 .. Len(candles)}
<1>1. CandlePatternsOf(candles)
        = IF ~Authorized THEN {}
          ELSE UNION {PatternsEndingAt(candles, n) : n \in DOMAIN candles}
    BY Zenon DEF CandlePatternsOf, PatternsEndingAt
<1>2. DOMAIN candles = 1 .. Len(candles)
    OBVIOUS
<1> QED
    BY <1>1, <1>2, Zenon

\* One more candle adds the patterns that end at it.
LEMMA ReadingsStay ==
    ASSUME NEW candles \in Seq(ClosedCandle), NEW c \in ClosedCandle
    PROVE  /\ CandlePatternsOf(candles) \subseteq CandlePatternsOf(Append(candles, c))
           /\ \A p \in CandlePatternsOf(Append(candles, c)) \ CandlePatternsOf(candles) :
                 p.at = CloseTime(c.at)
           /\ AmbiguousOf(candles) \subseteq AmbiguousOf(Append(candles, c))
<1> DEFINE more == Append(candles, c)
           n == Len(candles)
<1>1. /\ more \in Seq(ClosedCandle) /\ Len(more) = n + 1 /\ more[n + 1] = c
      /\ n \in Nat /\ DOMAIN more = 1 .. (n + 1) /\ DOMAIN candles = 1 .. n
    OBVIOUS
<1>2. \A i \in 1 .. n : /\ PatternsEndingAt(more, i) = PatternsEndingAt(candles, i)
                        /\ more[i] = candles[i]
                        /\ TrendBefore(more, i) = TrendBefore(candles, i)
                        /\ HaveRange(more, i, i) <=> HaveRange(candles, i, i)
    BY PatternsStay
<1> HIDE DEF more, n
<1>3. \A i \in 1 .. n : i \in 1 .. (n + 1)
    BY <1>1
<1>4. \A i \in 1 .. (n + 1) : i \in 1 .. n \/ i = n + 1
    BY <1>1
<1>5. /\ CandlePatternsOf(candles) = IF ~Authorized THEN {}
             ELSE UNION {PatternsEndingAt(candles, i) : i \in 1 .. n}
      /\ CandlePatternsOf(more) = IF ~Authorized THEN {}
             ELSE UNION {PatternsEndingAt(more, i) : i \in 1 .. (n + 1)}
    BY <1>1, PatternsAre DEF n
<1>6. CandlePatternsOf(candles) \subseteq CandlePatternsOf(more)
    BY <1>2, <1>3, <1>5
<1>7. ASSUME NEW p \in CandlePatternsOf(more) \ CandlePatternsOf(candles)
      PROVE  p.at = CloseTime(c.at)
    <2>1. PICK i \in 1 .. (n + 1) : p \in PatternsEndingAt(more, i)
        BY <1>5
    <2>2. i = n + 1
        BY <1>2, <1>4, <1>5, <2>1
    <2> QED
        BY <1>1, <2>1, <2>2, PatternsAreDated
<1>8. AmbiguousOf(candles) \subseteq AmbiguousOf(more)
    BY <1>1, <1>2, <1>3 DEF AmbiguousOf
<1> QED
    BY <1>6, <1>7, <1>8 DEF more

\* The names of the patterns of one candle, of two and of three.
NamesOf(size) ==
    CASE size = 1 -> {"DOJI", "HAMMER", "HANGING_MAN", "INVERTED_HAMMER", "SHOOTING_STAR",
                      "DRAGONFLY_DOJI", "GRAVESTONE_DOJI", "BULLISH_PIN_BAR",
                      "BEARISH_PIN_BAR"}
      [] size = 2 -> {"BULLISH_ENGULFING", "BEARISH_ENGULFING", "BULLISH_HARAMI",
                      "BEARISH_HARAMI", "TWEEZER_BOTTOM", "TWEEZER_TOP",
                      "PIERCING_PATTERN", "DARK_CLOUD_COVER"}
      [] size = 3 -> {"MORNING_STAR", "EVENING_STAR", "THREE_WHITE_SOLDIERS",
                      "THREE_BLACK_CROWS", "THREE_INSIDE_UP", "THREE_INSIDE_DOWN"}

LEMMA NamesAre ==
    ASSUME NEW side \in Bias
    PROVE  /\ \A shape \in {"TAIL_DOJI", "PIN_BAR"} : NameOf(shape, side) \in NamesOf(1)
           /\ \A shape \in {"ENGULFING", "HARAMI", "TWEEZER", "PIERCING"} :
                 NameOf(shape, side) \in NamesOf(2)
           /\ \A shape \in {"STAR", "SOLDIERS", "INSIDE"} : NameOf(shape, side) \in NamesOf(3)
           /\ \A trend : ToSet(HammerName(side, trend)) \subseteq NamesOf(1)
           /\ "DOJI" \in NamesOf(1)
<1>1. side = "BULLISH" \/ side = "BEARISH"
    BY DEF Bias
<1>2. \A shape \in {"TAIL_DOJI", "PIN_BAR"} : NameOf(shape, side) \in NamesOf(1)
    BY <1>1 DEF NameOf, NamesOf
<1>3. \A shape \in {"ENGULFING", "HARAMI", "TWEEZER", "PIERCING"} :
         NameOf(shape, side) \in NamesOf(2)
    BY <1>1 DEF NameOf, NamesOf
<1>4. \A shape \in {"STAR", "SOLDIERS", "INSIDE"} : NameOf(shape, side) \in NamesOf(3)
    BY <1>1 DEF NameOf, NamesOf
<1>5. \A trend : ToSet(HammerName(side, trend)) \subseteq NamesOf(1)
    <2>1. \A x : ToSet(<<x>>) = {x}
        BY DEF ToSet
    <2>2. ToSet(<<>>) = {}
        BY DEF ToSet
    <2> QED
        BY <1>1, <2>1, <2>2 DEF HammerName, NamesOf
<1>6. "DOJI" \in NamesOf(1)
    BY DEF NamesOf
<1> QED
    BY <1>2, <1>3, <1>4, <1>5, <1>6

LEMMA NamesDiffer ==
    ASSUME NEW i \in 1 .. 3, NEW j \in 1 .. 3, NEW type, type \in NamesOf(i), type \in NamesOf(j)
    PROVE  i = j
BY DEF NamesOf

\* A pattern is made of as many candles as its name says, and begins at the first.
LEMMA PatternsBegin ==
    ASSUME NEW candles \in Seq(ClosedCandle), NEW n \in 1 .. Len(candles),
           NEW p \in PatternsEndingAt(candles, n)
    PROVE  \E size \in 1 .. 3 : /\ p.type \in NamesOf(size)
                                /\ n - size + 1 \in 1 .. Len(candles)
                                /\ p.start = candles[n - size + 1].at
<1>1. ASSUME NEW type, NEW part, NEW needs, NEW observed
      PROVE  /\ Recorded(type, part, needs, observed).type = type
             /\ Recorded(type, part, needs, observed).start = Head(part).at
    BY DEF Recorded
<1>2. CASE p \in SinglePatterns(candles[n], TrendBefore(candles, n))
    <2>1. ASSUME NEW c, NEW trend, p \in SinglePatterns(c, trend)
          PROVE  \E type, needs : type \in NamesOf(1) /\ p = Recorded(type, <<c>>, needs, trend)
        <3> DEFINE record(type, needs) == Recorded(type, <<c>>, needs, trend)
                   dojis == IF AtMostShare(Body(c), SingleParams.doji_max_body_ratio, Span(c))
                            THEN {record("DOJI", {})} ELSE {}
                   named == UNION {{record(NameOf(shape, side), {Against(side)}) :
                                       shape \in SingleShapes(Facing(side, c)) \ {"HAMMER"}} :
                                     side \in Bias}
                   hammers == UNION {{record(name, {trend}) :
                                         name \in ToSet(HammerName(side, trend))} :
                                       side \in {s \in Bias :
                                                  "HAMMER" \in SingleShapes(Facing(s, c))}}
        <3>1. SinglePatterns(c, trend) = dojis \cup named \cup hammers
            BY DEF SinglePatterns
        <3>2. p \in dojis => p = record("DOJI", {})
            OBVIOUS
        <3>3. p \in named => \E side \in Bias, shape \in {"TAIL_DOJI", "PIN_BAR"} :
                                p = record(NameOf(shape, side), {Against(side)})
            <4>1. \A x : SingleShapes(x) \ {"HAMMER"} \subseteq {"TAIL_DOJI", "PIN_BAR"}
                BY DEF SingleShapes
            <4>2. p \in named => \E side \in Bias :
                     \E shape \in SingleShapes(Facing(side, c)) \ {"HAMMER"} :
                        p = record(NameOf(shape, side), {Against(side)})
                OBVIOUS
            <4> HIDE DEF named, record
            <4>3. p \in named => \E side \in Bias : \E shape \in {"TAIL_DOJI", "PIN_BAR"} :
                     p = record(NameOf(shape, side), {Against(side)})
                BY <4>1, <4>2
            <4> QED
                BY <4>3
        <3>4. p \in hammers => \E side \in Bias :
                 \E name \in ToSet(HammerName(side, trend)) : p = record(name, {trend})
            OBVIOUS
        <3>5. "BULLISH" \in Bias
            BY DEF Bias
        <3> HIDE DEF dojis, named, hammers
        <3>6. CASE p \in dojis
            BY <3>2, <3>5, <3>6, NamesAre
        <3>7. CASE p \in named
            BY <3>3, <3>7, NamesAre
        <3>8. CASE p \in hammers
            BY <3>4, <3>8, NamesAre
        <3> QED
            BY <2>1, <3>1, <3>6, <3>7, <3>8
    <2>2. PICK type, needs : type \in NamesOf(1) /\
             p = Recorded(type, <<candles[n]>>, needs, TrendBefore(candles, n))
        BY <1>2, <2>1
    <2>3. Head(<<candles[n]>>) = candles[n]
        OBVIOUS
    <2> QED
        BY <1>1, <2>2, <2>3, n - 1 + 1 = n, 1 \in 1 .. 3
<1>3. CASE n > 1 /\ p \in PairPatterns(candles, n)
    <2>1. PICK side \in Bias, shape \in {"ENGULFING", "HARAMI", "TWEEZER", "PIERCING"} :
             \E needs, observed :
                p = Recorded(NameOf(shape, side), <<candles[n - 1], candles[n]>>, needs, observed)
        <3>1. \A x, y : PairShapes(x, y) \subseteq {"ENGULFING", "HARAMI", "TWEEZER", "PIERCING"}
            BY DEF PairShapes
        <3>2. \E side \in Bias : \E shape \in PairShapes(Facing(side, candles[n - 1]),
                                                        Facing(side, candles[n])) :
                 p = Recorded(NameOf(shape, side), <<candles[n - 1], candles[n]>>,
                              {Against(side)}, TrendBefore(candles, n - 1))
            BY <1>3 DEF PairPatterns
        <3> QED
            BY <3>1, <3>2
    <2>2. p.type \in NamesOf(2) /\ p.start = Head(<<candles[n - 1], candles[n]>>).at
        BY <1>1, <2>1, NamesAre
    <2>3. Head(<<candles[n - 1], candles[n]>>) = candles[n - 1]
        OBVIOUS
    <2> QED
        BY <1>3, <2>2, <2>3, n - 2 + 1 = n - 1, 2 \in 1 .. 3
<1>4. CASE n > 2 /\ p \in TriplePatterns(candles, n)
    <2> DEFINE part == SubSeq(candles, n - 2, n)
    <2>1. PICK side \in Bias, shape \in {"STAR", "SOLDIERS", "INSIDE"} :
             \E needs, observed : p = Recorded(NameOf(shape, side), part, needs, observed)
        <3>1. \A x, y, z : TripleShapes(x, y, z) \subseteq {"STAR", "SOLDIERS", "INSIDE"}
            BY DEF TripleShapes
        <3>2. \E side \in Bias : \E shape \in TripleShapes(Facing(side, part[1]),
                                             Facing(side, part[2]), Facing(side, part[3])) :
                 p = Recorded(NameOf(shape, side), part,
                              IF shape = "SOLDIERS" THEN {} ELSE {Against(side)},
                              TrendBefore(candles, n - 2))
            <4> HIDE DEF part
            <4> QED
                BY <1>4 DEF TriplePatterns, part
        <3> HIDE DEF part
        <3> QED
            BY <3>1, <3>2
    <2>2. p.type \in NamesOf(3) /\ p.start = Head(part).at
        <3> HIDE DEF part
        <3> QED
            BY <1>1, <2>1, NamesAre
    <2>3. Head(part) = candles[n - 2]
        <3>1. n - 2 \in Int /\ n \in Int /\ n - (n - 2) + 1 = 3 /\ 1 + (n - 2) - 1 = n - 2
            OBVIOUS
        <3>2. \A i \in 1 .. (n - (n - 2) + 1) : part[i] = candles[i + (n - 2) - 1]
            BY <3>1, PartIsSequence
        <3>3. part[1] = candles[1 + (n - 2) - 1]
            BY <3>1, <3>2, 1 \in 1 .. 3
        <3> HIDE DEF part
        <3> QED
            BY <3>1, <3>3
    <2> QED
        BY <1>4, <2>2, <2>3, n - 3 + 1 = n - 2, 3 \in 1 .. 3
<1> QED
    BY <1>2, <1>3, <1>4 DEF PatternsEndingAt

\* An identity is that of one instant, and the last candle closed by then.
LEMMA PatternsAreTold ==
    ASSUME NEW candles \in Seq(ClosedCandle), AreInOrder(candles),
           NEW p \in CandlePatternsOf(candles), NEW q \in CandlePatternsOf(candles)
    PROVE  /\ PatternId(p) = PatternId(q) => p.at = q.at
           /\ \E n \in DOMAIN candles : p.at = CloseTime(candles[n].at)
<1>1. PICK m \in 1 .. Len(candles) : p \in PatternsEndingAt(candles, m)
    BY PatternsAre
<1>2. PICK n \in 1 .. Len(candles) : q \in PatternsEndingAt(candles, n)
    BY PatternsAre
<1>3. p.at = CloseTime(candles[m].at) /\ q.at = CloseTime(candles[n].at)
    BY <1>1, <1>2, PatternsAreDated
<1>4. PICK i \in 1 .. 3 : /\ p.type \in NamesOf(i) /\ m - i + 1 \in 1 .. Len(candles)
                          /\ p.start = candles[m - i + 1].at
    BY <1>1, PatternsBegin
<1>5. PICK j \in 1 .. 3 : /\ q.type \in NamesOf(j) /\ n - j + 1 \in 1 .. Len(candles)
                          /\ q.start = candles[n - j + 1].at
    BY <1>2, PatternsBegin
<1>6. ASSUME PatternId(p) = PatternId(q)
      PROVE  p.at = q.at
    <2>1. p.type = q.type /\ p.start = q.start
        BY <1>6 DEF PatternId
    <2>2. i = j
        BY <1>4, <1>5, <2>1, NamesDiffer
    <2>3. candles[m - i + 1].at = candles[n - i + 1].at
        BY <1>4, <1>5, <2>1, <2>2
    <2>4. DOMAIN candles = 1 .. Len(candles)
        OBVIOUS
    <2>5. \A x \in 1 .. Len(candles) : candles[x].at \in Nat
        BY <2>4, CandlesAre
    <2>6. m - i + 1 = n - i + 1
        <3> DEFINE a == m - i + 1
                   b == n - i + 1
        <3>1. a \in DOMAIN candles /\ b \in DOMAIN candles /\ a \in Int /\ b \in Int
            BY <1>4, <1>5, <2>2, <2>4
        <3>2. candles[a].at = candles[b].at /\ candles[a].at \in Nat
            BY <2>3, <2>4, <2>5, <3>1
        <3> HIDE DEF a, b
        <3>3. ~(a < b) /\ ~(b < a)
            BY <3>1, <3>2 DEF AreInOrder
        <3>4. a = b
            BY <3>1, <3>3
        <3> QED
            BY <3>4 DEF a, b
    <2> QED
        BY <1>3, <2>6
<1> QED
    BY <1>1, <1>3, <1>6

-----------------------------------------------------------------------------
(* The replay: its candles and figures *)

\* What has closed, in order and before now.
ClosedOK ==
    /\ opening \in Openings
    /\ now \in Nat
    /\ closed \in Seq(ClosedCandle)
    /\ AreInOrder(closed)
    /\ \A n \in DOMAIN closed : closed[n].at < now

\* Every figure is of a kind that is looked for, with what was said of it by now
\* from candles that could be read by now.
FiguresOK ==
    \A id \in DOMAIN figures :
       /\ id.type \in opening.watched
       /\ IsHistory(figures[id], CloseTime(now - 1))
       /\ IsBased(figures[id], id.type, closed, CloseTime(now - 1))

\* The location of a pattern: told from its own instant on.
IsPlace(place, from) ==
    /\ IsSequence(place) /\ place # <<>>
    /\ \A n \in DOMAIN place : place[n].at \in Int /\ place[n].at >= from

\* A location that is on record is that of a pattern on record.
PlacesOK ==
    \A id \in DOMAIN places :
       \E p \in Spotted(closed) : PatternId(p) = id /\ IsPlace(places[id], p.at)

ReplayInv == ClosedOK /\ FiguresOK /\ PlacesOK /\ OnlyTwinsEndAReplay

\* The next candle is one, and closes now.
LEMMA NextCandlesAre ==
    ASSUME ClosedOK
    PROVE  /\ NextCandles \subseteq ClosedCandle
           /\ \A c \in NextCandles : c.at = now
<1> DEFINE arrives(delay) == IF Receipts
                             THEN [k \in DOMAIN delay |-> CloseTime(now) + delay[k]]
                             ELSE <<>>
           next == IF now + 1 <= Len(opening.candles) THEN {opening.candles[now + 1]}
                   ELSE opening.further
           candle(c) == [at |-> now, open |-> c.shape.open, low |-> c.shape.low,
                         high |-> c.shape.high, close |-> c.shape.close,
                         seen |-> arrives(c.delay)]
<1>1. /\ now \in Nat /\ opening \in Openings
      /\ opening.candles \in Seq(PlannedCandle) /\ opening.further \subseteq PlannedCandle
    BY ReplayAssumption DEF ClosedOK
<1>2. next \subseteq PlannedCandle
    <2>1. CASE now + 1 <= Len(opening.candles)
        <3>1. now + 1 \in 1 .. Len(opening.candles)
            BY <1>1, <2>1
        <3>2. opening.candles[now + 1] \in PlannedCandle
            BY <1>1, <3>1
        <3> QED
            BY <2>1, <3>2
    <2>2. CASE ~(now + 1 <= Len(opening.candles))
        BY <1>1, <2>2
    <2> QED
        BY <2>1, <2>2
<1>3. CloseTime(now) \in Int
    BY <1>1, TicksPass
<1>4. ASSUME NEW delay \in Seq(Nat)
      PROVE  arrives(delay) \in Seq(Int)
    <2>1. /\ Len(delay) \in Nat /\ DOMAIN delay = 1 .. Len(delay)
          /\ \A k \in 1 .. Len(delay) : delay[k] \in Nat
        OBVIOUS
    <2>2. \A k \in 1 .. Len(delay) : CloseTime(now) + delay[k] \in Int
        BY <1>3, <2>1
    <2>3. [k \in DOMAIN delay |-> CloseTime(now) + delay[k]] \in Seq(Int)
        BY <2>1, <2>2
    <2>4. <<>> \in Seq(Int)
        OBVIOUS
    <2> QED
        BY <2>3, <2>4
<1>5. NextCandles = {candle(c) : c \in next}
    BY Zenon DEF NextCandles
<1>6. ASSUME NEW c \in PlannedCandle
      PROVE  candle(c) \in ClosedCandle /\ candle(c).at = now
    <2>1. /\ c.shape.open \in Int /\ c.shape.low \in Int /\ c.shape.high \in Int
          /\ c.shape.close \in Int /\ c.delay \in Seq(Nat)
        BY DEF PlannedCandle
    <2>2. arrives(c.delay) \in Seq(Int)
        BY <1>4, <2>1
    <2> HIDE DEF arrives
    <2> QED
        BY <1>1, <2>1, <2>2 DEF ClosedCandle
<1> HIDE DEF candle, next
<1> QED
    BY <1>2, <1>5, <1>6

\* More candles keep the order.
LEMMA OrderIsKept ==
    ASSUME ClosedOK, NEW c \in ClosedCandle, c.at = now
    PROVE  /\ Append(closed, c) \in Seq(ClosedCandle)
           /\ AreInOrder(Append(closed, c))
           /\ \A n \in DOMAIN Append(closed, c) : Append(closed, c)[n].at < now + 1
<1> DEFINE more == Append(closed, c)
<1>1. /\ closed \in Seq(ClosedCandle) /\ now \in Nat
      /\ \A n \in DOMAIN closed : closed[n].at \in Nat /\ closed[n].at < now
    BY CandlesAre DEF ClosedOK
<1>2. /\ more \in Seq(ClosedCandle)
      /\ DOMAIN more = 1 .. (Len(closed) + 1) /\ DOMAIN closed = 1 .. Len(closed)
      /\ Len(closed) \in Nat
      /\ \A n \in 1 .. Len(closed) : more[n] = closed[n]
      /\ more[Len(closed) + 1] = c
    BY <1>1
<1> HIDE DEF more
<1>3. \A n \in DOMAIN more : more[n].at < now + 1
    BY <1>1, <1>2
<1>4. ASSUME NEW m \in DOMAIN more, NEW n \in DOMAIN more, m < n
      PROVE  more[m].at < more[n].at
    <2>1. m \in 1 .. Len(closed)
        BY <1>2, <1>4
    <2>2. CASE n = Len(closed) + 1
        BY <1>1, <1>2, <2>1, <2>2
    <2>3. CASE n # Len(closed) + 1
        <3>1. n \in 1 .. Len(closed)
            BY <1>2, <2>3
        <3> QED
            BY <1>2, <1>4, <2>1, <3>1 DEF ClosedOK, AreInOrder
    <2> QED
        BY <2>2, <2>3
<1> QED
    BY <1>2, <1>3, <1>4 DEF AreInOrder, more

\* A candle closes: it is the last of those that did, and the figures go on.
LEMMA ClosingGoesOn ==
    ASSUME ClosedOK, FiguresOK, CandleCloses
    PROVE  /\ \E c \in ClosedCandle : c.at = now /\ closed' = Append(closed, c)
           /\ now' = now + 1 /\ opening' = opening
           /\ HaveClosed(closed', CloseTime(now))
           /\ figures' = figures \/ figures' = Evaluate(closed', CloseTime(now)).figures
           /\ \A id \in DOMAIN figures' :
                 /\ id.type \in opening.watched
                 /\ IsHistory(figures'[id], CloseTime(now))
                 /\ IsBased(figures'[id], id.type, closed', CloseTime(now))
           /\ \A id \in DOMAIN figures : /\ id \in DOMAIN figures'
                                         /\ GoesOn(figures[id], figures'[id])
           /\ raised' => \E type \in opening.watched :
                            AreTwins(type, Detect(type, closed', CloseTime(now)).candidates)
<1>1. PICK c \in NextCandles :
         /\ closed' = Append(closed, c)
         /\ \/ figures' = figures /\ raised' = FALSE
            \/ /\ figures' = Evaluate(Append(closed, c), CloseTime(now)).figures
               /\ raised' = Evaluate(Append(closed, c), CloseTime(now)).raised
    BY DEF CandleCloses
<1>2. c \in ClosedCandle /\ c.at = now
    BY NextCandlesAre
<1>3. now' = now + 1 /\ opening' = opening
    BY DEF CandleCloses
<1> DEFINE candles == Append(closed, c)
           t == CloseTime(now)
           earlier == CloseTime(now - 1)
<1>4. /\ candles \in Seq(ClosedCandle) /\ AreInOrder(candles)
      /\ \A n \in DOMAIN candles : candles[n].at < now + 1
    BY <1>2, OrderIsKept
<1>5. t \in Int /\ earlier \in Int /\ earlier < t /\ now \in Int
    <2>1. now \in Int /\ now - 1 \in Int /\ now - 1 < now
        BY DEF ClosedOK
    <2> QED
        BY <2>1, TicksPass
<1>6. opening.watched \subseteq PatternType
    BY ReplayAssumption DEF ClosedOK
<1>7. ToSet(closed) \subseteq ToSet(candles) /\ closed \in Seq(ClosedCandle)
    <2>1. closed \in Seq(ClosedCandle)
        BY DEF ClosedOK
    <2>2. \A n \in DOMAIN closed : n \in DOMAIN candles /\ candles[n] = closed[n]
        BY <1>2, <2>1
    <2> HIDE DEF candles
    <2> QED
        BY <2>1, <2>2 DEF ToSet
<1> HIDE DEF candles, t, earlier
<1>8. HaveClosed(candles, t)
    <2>1. \A n \in DOMAIN candles : candles[n].at \in Int /\ candles[n].at <= now
        <3>1. \A n \in DOMAIN candles : candles[n].at \in Nat
            BY <1>4, CandlesAre
        <3> QED
            BY <1>4, <1>5, <3>1
    <2>2. \A n \in DOMAIN candles : CloseTime(candles[n].at) <= t
        <3>1. ASSUME NEW i \in Int, i <= now
              PROVE  CloseTime(i) <= t
            <4>1. CASE i = now
                BY <1>5, <4>1 DEF t
            <4>2. CASE i < now
                BY <1>5, <4>2, TicksPass DEF t
            <4> QED
                BY <1>5, <3>1, <4>1, <4>2
        <3> QED
            BY <2>1, <3>1
    <2> QED
        BY <1>4, <2>2 DEF HaveClosed
<1>9. ASSUME NEW id \in DOMAIN figures
      PROVE  /\ id.type \in opening.watched
             /\ IsHistory(figures[id], earlier) /\ IsHistory(figures[id], t)
             /\ IsBased(figures[id], id.type, candles, t)
    <2> DEFINE h == figures[id]
    <2>1. /\ id.type \in opening.watched /\ IsHistory(h, earlier)
          /\ IsBased(h, id.type, closed, earlier)
        BY DEF FiguresOK, earlier
    <2> HIDE DEF h
    <2>2. earlier <= t
        BY <1>5
    <2>3. IsHistory(h, t)
        BY <1>5, <2>1, <2>2, HistoryLasts
    <2>4. IsBased(h, id.type, candles, t)
        BY <1>5, <1>7, <2>1, <2>2, BasisLasts
    <2> QED
        BY <2>1, <2>3, <2>4 DEF h
<1>10. CASE figures' = figures /\ raised' = FALSE
    <2>1. \A id \in DOMAIN figures : GoesOn(figures[id], figures[id])
        BY <1>9, GoesOnAsItIs
    <2>2. closed' = candles
        BY <1>1 DEF candles
    <2> QED
        BY <1>1, <1>2, <1>3, <1>8, <1>9, <1>10, <2>1, <2>2 DEF t
<1>11. CASE /\ figures' = Evaluate(candles, t).figures
            /\ raised' = Evaluate(candles, t).raised
    <2> DEFINE after == Evaluate(candles, t)
    <2>1. /\ \A id \in DOMAIN after.figures :
                /\ id.type \in opening.watched
                /\ IsHistory(after.figures[id], t)
                /\ IsBased(after.figures[id], id.type, candles, t)
          /\ \A id \in DOMAIN figures : /\ id \in DOMAIN after.figures
                                        /\ GoesOn(figures[id], after.figures[id])
          /\ after.raised => \E type \in opening.watched :
                                AreTwins(type, Detect(type, candles, t).candidates)
        BY <1>5, <1>6, <1>8, <1>9, EvaluatedGoOn
    <2> HIDE DEF after
    <2>2. figures' = after.figures /\ raised' = after.raised /\ closed' = candles
        BY <1>1, <1>11 DEF after, candles
    <2>3. /\ \A id \in DOMAIN figures' :
                /\ id.type \in opening.watched
                /\ IsHistory(figures'[id], CloseTime(now))
                /\ IsBased(figures'[id], id.type, closed', CloseTime(now))
          /\ \A id \in DOMAIN figures : /\ id \in DOMAIN figures'
                                        /\ GoesOn(figures[id], figures'[id])
        BY <2>1, <2>2 DEF t
    <2>4. raised' => \E type \in opening.watched :
                        AreTwins(type, Detect(type, closed', CloseTime(now)).candidates)
        BY <2>1, <2>2 DEF t
    <2>5. HaveClosed(closed', CloseTime(now)) /\ figures' = Evaluate(closed', CloseTime(now)).figures
        BY <1>8, <2>2 DEF t, after
    <2> QED
        BY <1>1, <1>2, <1>3, <2>3, <2>4, <2>5
<1> QED
    BY <1>1, <1>10, <1>11 DEF candles, t

-----------------------------------------------------------------------------
(* Where a pattern stands *)

\* The levels of pivots were known by the cutoff, and none is published.
LEMMA PivotLevelsAre ==
    ASSUME NEW candles \in Seq(ClosedCandle), NEW cutoff \in Int,
           NEW l \in PivotLevels(candles, cutoff)
    PROVE  l.known \in Int /\ l.known <= cutoff /\ l.published = <<>>
<1>1. PICK x \in Confirmed(DetectPivots(SeriesOf(candles))) :
         /\ CloseTime(x.at + K) <= cutoff
         /\ l.known = CloseTime(x.at + K) /\ l.published = <<>>
    BY DEF PivotLevels
<1>2. x.at \in DOMAIN SeriesOf(candles)
    BY <1>1, SeriesAre, ConfirmedPivotsAre DEF ConfirmedPivots
<1>3. x.at \in Int
    <2>1. DOMAIN SeriesOf(candles) = Ats(candles)
        BY SeriesAre
    <2>2. PICK n \in DOMAIN candles : candles[n].at = x.at
        BY <1>2, <2>1 DEF Ats
    <2>3. candles[n] \in ClosedCandle
        BY CandlesAre
    <2> QED
        BY <2>2, <2>3, CandlesAre
<1>4. CloseTime(x.at + K) \in Int
    <2>1. x.at + K \in Int
        BY <1>3, PivotAssumption
    <2> QED
        BY <2>1, TicksPass
<1> QED
    BY <1>1, <1>4

\* Those of figures were known, and offered, by then.
LEMMA FigureLevelsAre ==
    ASSUME NEW t, \A id \in DOMAIN figures : IsHistory(figures[id], t),
           NEW at, NEW cutoff \in Int, NEW l \in FigureLevels(figures, at, cutoff)
    PROVE  /\ l.known \in Int /\ l.known <= cutoff
           /\ \A x \in ToSet(l.published) : x \in Int /\ x <= cutoff
<1>1. PICK id \in DOMAIN figures :
         LET timing == Last(figures[id]).timing
         IN  /\ timing.known # <<>> /\ timing.known[1] <= cutoff
             /\ \A x \in ToSet(timing.published) : x <= cutoff
             /\ l.known = timing.known[1] /\ l.published = timing.published
    BY DEF FigureLevels
<1> DEFINE timing == Last(figures[id]).timing
<1>2. IsTiming(timing)
    <2>1. IsSequence(figures[id]) /\ figures[id] # <<>>
        BY DEF IsHistory
    <2>2. Len(figures[id]) \in DOMAIN figures[id]
        BY <2>1, SequenceHasLast
    <2> QED
        BY <2>2 DEF IsHistory, IsTold, Last
<1>3. /\ timing.known # <<>> /\ timing.known[1] <= cutoff
      /\ \A x \in ToSet(timing.published) : x <= cutoff
      /\ l.known = timing.known[1] /\ l.published = timing.published
    BY <1>1
<1> HIDE DEF timing
<1>4. timing.known \in Seq(Int) /\ timing.published \in Seq(Int)
    BY <1>2 DEF IsTiming
<1>5. timing.known[1] \in Int
    <2>1. 1 \in 1 .. Len(timing.known)
        BY <1>3, <1>4
    <2> QED
        BY <1>4, <2>1
<1>6. \A x \in ToSet(timing.published) : x \in Int
    BY <1>4 DEF ToSet
<1> QED
    BY <1>3, <1>5, <1>6

\* An evaluation is dated after its pattern, and not after what it may read.
LEMMA PlacedWithin ==
    ASSUME NEW candles \in Seq(ClosedCandle),
           NEW u, \A id \in DOMAIN figures : IsHistory(figures[id], u),
           NEW p, p.at \in Int, NEW cutoff \in Int, p.at <= cutoff, NEW asOf, NEW t
    PROVE  LET e == Placed(candles, figures, p, cutoff, asOf, t)
           IN  e.at \in Int /\ p.at <= e.at /\ e.at <= cutoff
<1> DEFINE levels == PivotLevels(candles, cutoff) \cup FigureLevels(figures, p.at, cutoff)
           S == {p.at} \cup {l.known : l \in levels} \cup UNION {ToSet(l.published) : l \in levels}
<1>1. ASSUME NEW l \in levels
      PROVE  /\ l.known \in Int /\ l.known <= cutoff
             /\ \A x \in ToSet(l.published) : x \in Int /\ x <= cutoff
    <2>1. CASE l \in PivotLevels(candles, cutoff)
        <3>1. l.known \in Int /\ l.known <= cutoff /\ l.published = <<>>
            BY <2>1, PivotLevelsAre
        <3>2. ToSet(<<>>) = {}
            BY DEF ToSet
        <3> QED
            BY <3>1, <3>2
    <2>2. CASE l \in FigureLevels(figures, p.at, cutoff)
        BY <2>2, FigureLevelsAre
    <2> QED
        BY <2>1, <2>2
<1>2. Placed(candles, figures, p, cutoff, asOf, t).at = Max(S)
    BY DEF Placed
<1> HIDE DEF levels
<1>3. S \in SUBSET Int /\ S # {} /\ p.at \in S /\ \A x \in S : x <= cutoff
    BY <1>1
<1> HIDE DEF S
<1>4. Max(S) \in S /\ \A x \in S : x <= Max(S)
    BY <1>3, GreatestOfBounded
<1> QED
    BY <1>2, <1>3, <1>4

LEMMA LocatedWithin ==
    ASSUME NEW candles \in Seq(ClosedCandle),
           NEW u, \A id \in DOMAIN figures : IsHistory(figures[id], u),
           NEW p, p.at \in Int, NEW t \in Int, p.at <= t, NEW previous
    PROVE  LET e == LocationEvaluation(candles, figures, p, previous, t)
           IN  e.at \in Int /\ p.at <= e.at
<1> DEFINE cutoff == IF previous = <<>> THEN p.at ELSE t
           asOf == <<CloseTime(Last(candles).at)>>
           missing == MissingDataReasons({c.at : c \in ToSet(candles)}, t, TrendHistory)
           e == LocationEvaluation(candles, figures, p, previous, t)
<1>1. cutoff \in Int /\ p.at <= cutoff
    OBVIOUS
<1>2. e = IF missing # {} THEN Unplaced(missing, cutoff, asOf, t)
          ELSE Placed(candles, figures, p, cutoff, asOf, t)
    BY Zenon DEF LocationEvaluation
<1> HIDE DEF cutoff, asOf, missing, e
<1>3. Unplaced(missing, cutoff, asOf, t).at = cutoff
    BY DEF Unplaced
<1>4. LET told == Placed(candles, figures, p, cutoff, asOf, t)
      IN  told.at \in Int /\ p.at <= told.at
    BY <1>1, PlacedWithin
<1> QED
    BY <1>1, <1>2, <1>3, <1>4 DEF e

\* A location begins, or goes on later.
LEMMA AdvancedIs ==
    ASSUME NEW previous, NEW e, NEW after, after = AdvanceLocation(previous, e),
           after # <<>>, after # <<previous>>
    PROVE  \/ previous = <<>> /\ after[1] = <<e>>
           \/ /\ previous # <<>> /\ e.at > Last(previous).at
              /\ after[1] = Append(previous, e)
BY DEF AdvanceLocation

LEMMA PlaceGoesOn ==
    ASSUME NEW place, NEW from \in Int, IsPlace(place, from), NEW e, e.at \in Int,
           e.at > Last(place).at
    PROVE  /\ IsPlace(Append(place, e), from)
           /\ LocationAsOf(Append(place, e), from) = LocationAsOf(place, from)
<1> DEFINE n == Len(place)
           more == Append(place, e)
<1>1. /\ IsSequence(place) /\ place # <<>>
      /\ \A i \in DOMAIN place : place[i].at \in Int /\ place[i].at >= from
    BY DEF IsPlace
<1>2. n \in Nat /\ DOMAIN place = 1 .. n /\ n \in DOMAIN place
    BY <1>1, SequenceHasLast
<1>3. e.at > from
    <2>1. place[n].at \in Int /\ place[n].at >= from /\ e.at > place[n].at
        BY <1>1, <1>2 DEF Last
    <2> HIDE DEF n
    <2> QED
        BY <2>1
<1>4. /\ IsSequence(more) /\ Len(more) = n + 1
      /\ \A i \in 1 .. n : more[i] = place[i]
      /\ more[n + 1] = e
    BY <1>1, AddedIs
<1>5. DOMAIN more = 1 .. (n + 1)
    BY <1>4, SequenceHasLast
<1> HIDE DEF n, more
<1>6. \A i \in DOMAIN more : i \in 1 .. n \/ i = n + 1
    BY <1>2, <1>5
<1>7. IsPlace(more, from)
    <2>1. more # <<>>
        BY <1>2, <1>5
    <2>2. \A i \in DOMAIN more : more[i].at \in Int /\ more[i].at >= from
        BY <1>1, <1>2, <1>3, <1>4, <1>6
    <2> QED
        BY <1>4, <2>1, <2>2 DEF IsPlace
<1>8. LocationAsOf(more, from) = LocationAsOf(place, from)
    <2> DEFINE before == {i \in DOMAIN place : place[i].at <= from}
               after == {i \in DOMAIN more : more[i].at <= from}
    <2>1. after = before
        <3>1. \A i \in after : i \in before
            BY <1>2, <1>3, <1>4, <1>6
        <3>2. \A i \in before : i \in after
            BY <1>2, <1>4, <1>5
        <3> QED
            BY <3>1, <3>2
    <2>2. before \subseteq 1 .. n
        BY <1>2
    <2>3. /\ LocationAsOf(more, from) = IF after = {} THEN <<>> ELSE <<more[Max(after)]>>
          /\ LocationAsOf(place, from) = IF before = {} THEN <<>> ELSE <<place[Max(before)]>>
        BY Zenon DEF LocationAsOf
    <2> HIDE DEF before, after
    <2>4. ASSUME before # {}
          PROVE  Max(before) \in 1 .. n
        <3>1. before \in SUBSET Int /\ (\A i \in before : i <= n) /\ n \in Int
            BY <1>2, <2>2
        <3>2. Max(before) \in before
            BY <2>4, <3>1, GreatestOfBounded
        <3> QED
            BY <2>2, <3>2
    <2> QED
        BY <1>4, <2>1, <2>3, <2>4
<1> QED
    BY <1>7, <1>8 DEF more

-----------------------------------------------------------------------------
(* The claim of a pattern *)

\* Patterns told later say nothing in a claim.
LEMMA LaterAreNotRelated ==
    ASSUME NEW p, NEW pool, NEW more, pool \subseteq more,
           \A q \in more \ pool : ~(q.at <= p.at)
    PROVE  RelatedCandles(p, more) = RelatedCandles(p, pool)
BY DEF RelatedCandles

LEMMA ClaimDependsOn ==
    ASSUME NEW p, NEW pool, NEW more, RelatedCandles(p, more) = RelatedCandles(p, pool),
           NEW before, NEW after, LocationAsOf(after, p.at) = LocationAsOf(before, p.at)
    PROVE  CandleHypothesisFor(p, more, after) = CandleHypothesisFor(p, pool, before)
<1> DEFINE bias == FixedBias(p.type)
           claim(among, place) ==
              LET related == IF bias = {} THEN {} ELSE among
              IN  IF p.state # "CONFIRMED" THEN <<>>
                  ELSE <<[at |-> p.at, bias |-> bias,
                          supporting |-> {PatternId(q) :
                                             q \in {x \in related : FixedBias(x.type) = bias}},
                          conflicting |-> {PatternId(q) :
                                             q \in {x \in related : FixedBias(x.type) # bias}},
                          location |-> [n \in DOMAIN place |->
                                           [state |-> place[n].state, at |-> place[n].at,
                                            operability |-> place[n].operability]],
                          operability |->
                             Worst({"UNPROVEN"} \cup {e.operability : e \in ToSet(place)})]>>
<1>1. \A among, place :
         CandleHypothesisFor(p, among, place)
           = claim(RelatedCandles(p, among), LocationAsOf(place, p.at))
    BY Zenon DEF CandleHypothesisFor
<1> HIDE DEF claim
<1> QED
    BY <1>1

-----------------------------------------------------------------------------
(* The replay: its steps *)

\* A pattern on record closed before now.
LEMMA SpottedAreTold ==
    ASSUME ClosedOK, NEW p \in CandlePatternsOf(closed)
    PROVE  /\ p.at \in Int /\ p.at <= CloseTime(now - 1) /\ p.at < CloseTime(now)
           /\ \A q \in CandlePatternsOf(closed) : PatternId(p) = PatternId(q) => p.at = q.at
<1>1. /\ closed \in Seq(ClosedCandle) /\ AreInOrder(closed) /\ now \in Nat
    BY DEF ClosedOK
<1>2. PICK n \in DOMAIN closed : p.at = CloseTime(closed[n].at)
    BY <1>1, PatternsAreTold
<1>3. closed[n].at \in Int /\ closed[n].at < now
    BY <1>1, CandlesAre DEF ClosedOK
<1>4. /\ now \in Int /\ now - 1 \in Int /\ closed[n].at < now
      /\ closed[n].at < now - 1 \/ closed[n].at = now - 1
    BY <1>1, <1>3
<1>5. /\ p.at \in Int /\ CloseTime(now - 1) \in Int /\ CloseTime(now) \in Int
      /\ p.at < CloseTime(now)
      /\ p.at < CloseTime(now - 1) \/ p.at = CloseTime(now - 1)
    BY <1>2, <1>3, <1>4, TicksPass
<1>6. \A q \in CandlePatternsOf(closed) : PatternId(p) = PatternId(q) => p.at = q.at
    BY <1>1, PatternsAreTold
<1> QED
    BY <1>5, <1>6

\* The next close leaves the locations, and what is on record stays on record.
LEMMA ClosesKeep ==
    ASSUME ReplayInv, NextClose
    PROVE  /\ opening' = opening /\ now' = now + 1 /\ places' = places
           /\ ClosedOK' /\ FiguresOK' /\ OnlyTwinsEndAReplay'
           /\ \A id \in DOMAIN figures : /\ id \in DOMAIN figures'
                                         /\ GoesOn(figures[id], figures'[id])
           /\ closed' = closed \/ \E c \in ClosedCandle : c.at = now /\ closed' = Append(closed, c)
<1>1. ClosedOK /\ FiguresOK /\ places' = places
    BY DEF ReplayInv, NextClose
<1>2. now \in Nat /\ now + 1 - 1 = now /\ now + 1 \in Nat
    BY <1>1 DEF ClosedOK
<1>3. CASE CandleCloses
    <2>1. PICK c \in ClosedCandle : c.at = now /\ closed' = Append(closed, c)
        BY <1>1, <1>3, ClosingGoesOn
    <2>2. /\ now' = now + 1 /\ opening' = opening
          /\ \A id \in DOMAIN figures' :
                /\ id.type \in opening.watched
                /\ IsHistory(figures'[id], CloseTime(now))
                /\ IsBased(figures'[id], id.type, closed', CloseTime(now))
          /\ \A id \in DOMAIN figures : /\ id \in DOMAIN figures'
                                        /\ GoesOn(figures[id], figures'[id])
          /\ raised' => \E type \in opening.watched :
                           AreTwins(type, Detect(type, closed', CloseTime(now)).candidates)
        BY <1>1, <1>3, ClosingGoesOn
    <2>3. ClosedOK'
        BY <1>1, <1>2, <2>1, <2>2, OrderIsKept DEF ClosedOK
    <2>4. now' - 1 = now
        BY <1>2, <2>2
    <2>5. FiguresOK'
        BY <2>2, <2>4 DEF FiguresOK
    <2>6. OnlyTwinsEndAReplay'
        BY <2>2, <2>4 DEF OnlyTwinsEndAReplay, Twins
    <2> QED
        BY <1>1, <2>1, <2>2, <2>3, <2>5, <2>6
<1>4. CASE CandleIsMissing
    <2>1. /\ now' = now + 1 /\ opening' = opening /\ closed' = closed /\ figures' = figures
          /\ raised' = raised /\ ~raised
        BY <1>4 DEF CandleIsMissing
    <2> DEFINE t == CloseTime(now)
               earlier == CloseTime(now - 1)
    <2>2. earlier \in Int /\ t \in Int /\ earlier < t /\ earlier <= t
        <3>1. now \in Int /\ now - 1 \in Int /\ now - 1 < now
            BY <1>2
        <3>2. earlier \in Int /\ t \in Int /\ earlier < t
            BY <3>1, TicksPass
        <3> HIDE DEF t, earlier
        <3> QED
            BY <3>2
    <2>3. closed \in Seq(ClosedCandle) /\ ToSet(closed) \subseteq ToSet(closed)
        BY <1>1 DEF ClosedOK
    <2>4. ASSUME NEW id \in DOMAIN figures
          PROVE  /\ id.type \in opening.watched
                 /\ IsHistory(figures[id], earlier) /\ IsHistory(figures[id], t)
                 /\ IsBased(figures[id], id.type, closed, t)
        <3>1. /\ id.type \in opening.watched /\ IsHistory(figures[id], earlier)
              /\ IsBased(figures[id], id.type, closed, earlier)
            BY <1>1 DEF FiguresOK
        <3> HIDE DEF t, earlier
        <3>2. IsHistory(figures[id], t)
            BY <2>2, <3>1, HistoryLasts
        <3>3. IsBased(figures[id], id.type, closed, t)
            BY <2>2, <2>3, <3>1, BasisLasts
        <3> QED
            BY <3>1, <3>2, <3>3
    <2>5. ClosedOK'
        <3>1. \A n \in DOMAIN closed : closed[n].at < now + 1
            <4>1. \A n \in DOMAIN closed : closed[n].at \in Nat /\ closed[n].at < now
                BY <1>1, CandlesAre DEF ClosedOK
            <4> QED
                BY <1>2, <4>1
        <3> QED
            BY <1>1, <1>2, <2>1, <3>1 DEF ClosedOK
    <2>6. FiguresOK'
        <3>1. now' - 1 = now
            BY <1>2, <2>1
        <3> QED
            BY <2>1, <2>4, <3>1 DEF FiguresOK
    <2>7. OnlyTwinsEndAReplay'
        BY <2>1 DEF OnlyTwinsEndAReplay
    <2>8. \A id \in DOMAIN figures : GoesOn(figures[id], figures[id])
        BY <2>4, GoesOnAsItIs
    <2> QED
        BY <1>1, <2>1, <2>5, <2>6, <2>7, <2>8
<1> QED
    BY <1>3, <1>4 DEF NextClose

\* A location that is told goes on where it stood.
LEMMA LocateKeeps ==
    ASSUME ReplayInv, Locate
    PROVE  /\ UNCHANGED <<opening, now, closed, figures>>
           /\ PlacesOK'
           /\ \A id \in DOMAIN places, p \in Spotted(closed) :
                 PatternId(p) = id =>
                    id \in DOMAIN places'
                      /\ LocationAsOf(places'[id], p.at) = LocationAsOf(places[id], p.at)
<1>1. PICK p \in Spotted(closed) :
         LET id == PatternId(p)
             previous == IF id \in DOMAIN places THEN places[id] ELSE <<>>
             t == CloseTime(now - 1)
             after == AdvanceLocation(previous,
                        LocationEvaluation(closed, figures, p, previous, t))
         IN  /\ after # <<previous>>
             /\ places' = IF after = <<>> THEN places
                          ELSE [x \in DOMAIN places \cup {id} |->
                                   IF x = id THEN after[1] ELSE places[x]]
    BY DEF Locate
<1> DEFINE id == PatternId(p)
           previous == IF id \in DOMAIN places THEN places[id] ELSE <<>>
           t == CloseTime(now - 1)
           e == LocationEvaluation(closed, figures, p, previous, t)
           after == AdvanceLocation(previous, e)
<1>2. UNCHANGED <<opening, now, closed, figures>>
    BY DEF Locate
<1>3. /\ after # <<previous>>
      /\ places' = IF after = <<>> THEN places
                   ELSE [x \in DOMAIN places \cup {id} |->
                            IF x = id THEN after[1] ELSE places[x]]
    BY <1>1
<1>4. /\ ClosedOK /\ p \in CandlePatternsOf(closed)
      /\ closed \in Seq(ClosedCandle) /\ now \in Nat
      /\ \A x \in DOMAIN figures : IsHistory(figures[x], CloseTime(now - 1))
    BY <1>1 DEF ReplayInv, ClosedOK, FiguresOK, Spotted
<1>5. p.at \in Int /\ t \in Int /\ p.at <= t
    <2>1. now - 1 \in Int
        BY <1>4
    <2> QED
        BY <1>4, <2>1, SpottedAreTold, TicksPass
<1>6. e.at \in Int /\ p.at <= e.at
    BY <1>4, <1>5, LocatedWithin
<1>7. \A x \in DOMAIN places : \E q \in Spotted(closed) : /\ PatternId(q) = x
                                                           /\ IsPlace(places[x], q.at)
    BY DEF ReplayInv, PlacesOK
<1>8. ASSUME NEW x \in DOMAIN places, NEW q \in Spotted(closed), PatternId(q) = x
      PROVE  IsPlace(places[x], q.at) /\ q.at \in Int
    <2>1. PICK r \in Spotted(closed) : PatternId(r) = x /\ IsPlace(places[x], r.at)
        BY <1>7
    <2>2. q \in CandlePatternsOf(closed) /\ r \in CandlePatternsOf(closed)
        BY <2>1 DEF Spotted
    <2>3. q.at \in Int /\ q.at = r.at
        BY <1>4, <1>8, <2>1, <2>2, SpottedAreTold
    <2> QED
        BY <2>1, <2>3
<1>9. id \in DOMAIN places => /\ previous = places[id] /\ previous # <<>>
                              /\ IsPlace(previous, p.at)
    BY <1>8 DEF IsPlace
<1> HIDE DEF id, previous, t, e, after
<1>10. PatternId(p) = id
    BY DEF id
<1>11. CASE after = <<>>
    <2>1. places' = places
        BY <1>3, <1>11
    <2>2. PlacesOK'
        BY <1>2, <1>7, <2>1 DEF PlacesOK, Spotted
    <2> QED
        BY <1>2, <2>1, <2>2
<1>12. CASE after # <<>> /\ id \notin DOMAIN places
    <2>1. previous = <<>>
        BY <1>12 DEF previous
    <2>2. after[1] = <<e>>
        BY <1>3, <1>12, <2>1, AdvancedIs DEF after
    <2>3. IsPlace(<<e>>, p.at)
        <3>1. <<e>> \in Seq({e}) /\ <<e>> # <<>> /\ DOMAIN <<e>> = {1} /\ <<e>>[1] = e
            OBVIOUS
        <3> QED
            BY <1>5, <1>6, <3>1, SequenceOf DEF IsPlace
    <2>4. /\ DOMAIN places' = DOMAIN places \cup {id}
          /\ places'[id] = <<e>>
          /\ \A x \in DOMAIN places : places'[x] = places[x]
        BY <1>3, <1>12, <2>2
    <2>5. PlacesOK'
        BY <1>1, <1>2, <1>7, <1>10, <2>3, <2>4 DEF PlacesOK, Spotted
    <2> QED
        BY <1>2, <2>4, <2>5
<1>13. CASE after # <<>> /\ id \in DOMAIN places
    <2>1. previous = places[id] /\ previous # <<>> /\ IsPlace(previous, p.at)
        BY <1>9, <1>13
    <2>2. after[1] = Append(previous, e) /\ e.at > Last(previous).at
        BY <1>3, <1>13, <2>1, AdvancedIs DEF after
    <2>3. /\ IsPlace(Append(previous, e), p.at)
          /\ LocationAsOf(Append(previous, e), p.at) = LocationAsOf(previous, p.at)
        BY <1>5, <1>6, <2>1, <2>2, PlaceGoesOn
    <2>4. /\ DOMAIN places' = DOMAIN places
          /\ places'[id] = Append(previous, e)
          /\ \A x \in DOMAIN places \ {id} : places'[x] = places[x]
        BY <1>3, <1>13, <2>2
    <2>5. PlacesOK'
        BY <1>1, <1>2, <1>7, <1>10, <2>3, <2>4 DEF PlacesOK, Spotted
    <2>6. ASSUME NEW x \in DOMAIN places, NEW q \in Spotted(closed), PatternId(q) = x
          PROVE  LocationAsOf(places'[x], q.at) = LocationAsOf(places[x], q.at)
        <3>1. CASE x # id
            BY <2>4, <3>1
        <3>2. CASE x = id
            <4>1. q \in CandlePatternsOf(closed)
                BY DEF Spotted
            <4>2. q.at = p.at
                BY <1>4, <1>10, <2>6, <3>2, <4>1, SpottedAreTold
            <4> QED
                BY <2>1, <2>3, <2>4, <3>2, <4>2
        <3> QED
            BY <3>1, <3>2
    <2> QED
        BY <1>2, <2>4, <2>5, <2>6
<1> QED
    BY <1>11, <1>12, <1>13

LEMMA InvIsKept ==
    ASSUME ReplayInv, [CandleNext]_candleVars
    PROVE  ReplayInv'
<1>1. CASE NextClose
    <2>1. /\ opening' = opening /\ places' = places /\ ClosedOK' /\ FiguresOK'
          /\ OnlyTwinsEndAReplay'
          /\ closed' = closed \/ \E c \in ClosedCandle : closed' = Append(closed, c)
        BY <1>1, ClosesKeep
    <2>2. closed \in Seq(ClosedCandle)
        BY DEF ReplayInv, ClosedOK
    <2>3. CandlePatternsOf(closed) \subseteq CandlePatternsOf(closed')
        BY <2>1, <2>2, ReadingsStay
    <2>4. PlacesOK'
        BY <2>1, <2>3 DEF ReplayInv, PlacesOK, Spotted
    <2> QED
        BY <2>1, <2>4 DEF ReplayInv
<1>2. CASE Locate
    <2>1. UNCHANGED <<opening, now, closed, figures>> /\ PlacesOK' /\ raised' = raised
        BY <1>2, LocateKeeps DEF Locate
    <2>2. ClosedOK' /\ FiguresOK'
        BY <2>1 DEF ReplayInv, ClosedOK, FiguresOK
    <2>3. OnlyTwinsEndAReplay'
        BY <2>1 DEF ReplayInv, OnlyTwinsEndAReplay, Twins
    <2> QED
        BY <2>1, <2>2, <2>3 DEF ReplayInv
<1>3. CASE UNCHANGED candleVars
    <2>1. ClosedOK' /\ FiguresOK' /\ PlacesOK'
        BY <1>3 DEF candleVars, ReplayInv, ClosedOK, FiguresOK, PlacesOK, Spotted, IsPlace
    <2>2. OnlyTwinsEndAReplay'
        BY <1>3 DEF candleVars, ReplayInv, OnlyTwinsEndAReplay, Twins
    <2> QED
        BY <2>1, <2>2 DEF ReplayInv
<1> QED
    BY <1>1, <1>2, <1>3 DEF CandleNext

-----------------------------------------------------------------------------
(* Where an evaluation on record comes from *)

\* Every evaluation of a figure was on record, was found, or has no breakout.
ComeFrom(after, own, type, found) ==
    \A id \in DOMAIN after :
       /\ id.type = type /\ IsSequence(after[id]) /\ after[id] # <<>>
       /\ \A e \in ToSet(after[id]) :
             /\ IsTold(e)
             /\ \/ id \in DOMAIN own /\ e \in ToSet(own[id])
                \/ e \in found
                \/ e.breakout = <<>>

LEMMA AppendedHas ==
    ASSUME NEW h, IsSequence(h), NEW e
    PROVE  ToSet(Append(h, e)) = ToSet(h) \cup {e} /\ Append(h, e) # <<>>
<1> DEFINE g == Append(h, e)
<1>1. /\ DOMAIN g = 1 .. (Len(h) + 1) /\ DOMAIN h = 1 .. Len(h) /\ Len(h) \in Nat
      /\ \A n \in 1 .. Len(h) : g[n] = h[n]
      /\ g[Len(h) + 1] = e
    BY AddedIs DEF IsSequence
<1> HIDE DEF g
<1>2. DOMAIN g = DOMAIN h \cup {Len(h) + 1}
    BY <1>1
<1>3. ToSet(g) = ToSet(h) \cup {e}
    BY <1>1, <1>2 DEF ToSet
<1>4. g # <<>>
    BY <1>3 DEF ToSet
<1> QED
    BY <1>3, <1>4 DEF g

LEMMA LastIsIn ==
    ASSUME NEW h, IsSequence(h), h # <<>>
    PROVE  Last(h) \in ToSet(h)
BY SequenceHasLast DEF Last, ToSet

\* What a round of the detector carries on.
IsCarried(acc) == acc = [figures |-> acc.figures, raised |-> acc.raised]

LEMMA WithComesFrom ==
    ASSUME NEW own, NEW type, NEW found, NEW old, ComeFrom(old, own, type, found),
           NEW id, id.type = type,
           NEW e, IsTold(e), e \in found \/ e.breakout = <<>>
    PROVE  ComeFrom(WithEvaluation(old, id, e), own, type, found)
<1> DEFINE new == WithEvaluation(old, id, e)
<1>1. /\ DOMAIN new = DOMAIN old \cup {id}
      /\ \A x \in DOMAIN old : x # id => new[x] = old[x]
      /\ id \in DOMAIN old => new[id] = Append(old[id], e)
      /\ id \notin DOMAIN old => new[id] = <<e>>
    BY DEF WithEvaluation
<1> HIDE DEF new
<1>2. ASSUME NEW x \in DOMAIN new
      PROVE  /\ x.type = type /\ IsSequence(new[x]) /\ new[x] # <<>>
             /\ \A y \in ToSet(new[x]) :
                   /\ IsTold(y)
                   /\ \/ x \in DOMAIN own /\ y \in ToSet(own[x])
                      \/ y \in found
                      \/ y.breakout = <<>>
    <2>1. CASE x # id
        BY <1>1, <2>1 DEF ComeFrom
    <2>2. CASE x = id /\ id \in DOMAIN old
        <3>1. IsSequence(old[id]) /\ new[id] = Append(old[id], e)
            BY <1>1, <2>2 DEF ComeFrom
        <3>2. /\ ToSet(new[id]) = ToSet(old[id]) \cup {e} /\ new[id] # <<>>
              /\ IsSequence(new[id])
            BY <3>1, AppendedHas, AddedIs
        <3> QED
            BY <2>2, <3>2 DEF ComeFrom
    <2>3. CASE x = id /\ id \notin DOMAIN old
        <3>1. new[id] = <<e>>
            BY <1>1, <2>3
        <3>2. ToSet(<<e>>) = {e} /\ <<e>> # <<>>
            BY DEF ToSet
        <3>3. IsSequence(<<e>>)
            BY <<e>> \in Seq({e}), SequenceOf
        <3> QED
            BY <2>3, <3>1, <3>2, <3>3
    <2> QED
        BY <2>1, <2>2, <2>3
<1> QED
    BY <1>2 DEF ComeFrom, new

LEMMA CandidateComesFrom ==
    ASSUME NEW t, NEW asOf, IsInstant(asOf), NEW own, NEW type, NEW found,
           NEW acc, IsCarried(acc),
           ComeFrom(acc.figures, own, type, found),
           NEW e \in found, IsTold(e),
           NEW after, after = TakeCandidate(acc, type, e, t, asOf)
    PROVE  /\ IsCarried(after)
           /\ ComeFrom(after.figures, own, type, found)
<1> DEFINE id == InstanceId(type, e)
           known == acc.figures[id]
           closing == ClosingEvaluation(Last(known), t, asOf, "INVALIDATED",
                                        {"SUPERSEDED"}, {})
           with(x) == [acc EXCEPT !.figures = WithEvaluation(@, id, x)]
<1>1. \/ after = acc
      \/ after = Raised(acc)
      \/ after = with(e)
      \/ id \in DOMAIN acc.figures /\ after = with(closing)
    BY DEF TakeCandidate
<1>2. id.type = type
    BY DEF InstanceId
<1>3. id \in DOMAIN acc.figures => IsTold(closing) /\ closing.breakout = <<>>
    <2>1. SUFFICES ASSUME id \in DOMAIN acc.figures
                   PROVE  IsTold(closing) /\ closing.breakout = <<>>
        OBVIOUS
    <2>2. IsSequence(known) /\ known # <<>> /\ \A x \in ToSet(known) : IsTold(x)
        BY <2>1 DEF ComeFrom
    <2> HIDE DEF known
    <2>3. IsTold(Last(known)) /\ "INVALIDATED" \in PatternState
        BY <2>2, LastIsIn DEF PatternState
    <2> QED
        BY <2>3, ClosingIs
<1> HIDE DEF id, known, closing
<1>4. ASSUME NEW x
      PROVE  /\ with(x) = [figures |-> with(x).figures, raised |-> with(x).raised]
             /\ with(x).figures = WithEvaluation(acc.figures, id, x)
    BY DEF IsCarried
<1> HIDE DEF with
<1>5. ComeFrom(WithEvaluation(acc.figures, id, e), own, type, found)
    BY <1>2, WithComesFrom
<1>6. id \in DOMAIN acc.figures =>
         ComeFrom(WithEvaluation(acc.figures, id, closing), own, type, found)
    BY <1>2, <1>3, WithComesFrom
<1>7. CASE after = acc
    BY <1>7
<1>8. CASE after = Raised(acc)
    BY <1>8 DEF Raised, IsCarried
<1>9. CASE after = with(e)
    BY <1>4, <1>5, <1>9 DEF IsCarried
<1>10. CASE id \in DOMAIN acc.figures /\ after = with(closing)
    BY <1>4, <1>6, <1>10 DEF IsCarried
<1> QED
    BY <1>1, <1>7, <1>8, <1>9, <1>10

LEMMA CandidatesComeFrom ==
    ASSUME NEW t \in Int, NEW own, NEW type, NEW result, IsDetected(result, type, t),
           ComeFrom(own, own, type, ToSet(result.candidates))
    PROVE  ComeFrom(TakeCandidates(own, type, result, t).figures, own, type,
                    ToSet(result.candidates))
<1> DEFINE n == Len(result.candidates)
           found == ToSet(result.candidates)
           f == CHOOSE f : IsRound(f, own, type, result, t, n)
           asOf == result.asOf
           T == {k \in Nat :
                    k <= n => /\ IsCarried(f[k])
                              /\ ComeFrom(f[k].figures, own, type, found)}
<1>1. n \in Nat /\ DOMAIN result.candidates = 1 .. n /\ IsInstant(asOf)
    BY SequenceHasLast DEF IsDetected
<1>2. IsRound(f, own, type, result, t, n)
    BY <1>1, RoundExists
<1>3. TakeCandidates(own, type, result, t) = f[n]
    BY DEF TakeCandidates, IsRound
<1>4. \A k \in 1 .. n : result.candidates[k] \in found /\ IsTold(result.candidates[k])
    BY <1>1 DEF IsDetected, IsMadeAt, ToSet
<1> HIDE DEF f, n, asOf, found
<1>5. 0 \in T
    <2>1. f[0] = [figures |-> own, raised |-> FALSE]
        BY <1>1, <1>2 DEF IsRound
    <2> QED
        BY <2>1 DEF found, IsCarried
<1>6. ASSUME NEW k \in Nat, k \in T
      PROVE  k + 1 \in T
    <2>1. SUFFICES ASSUME k + 1 <= n
                   PROVE  /\ IsCarried(f[k + 1])
                          /\ ComeFrom(f[k + 1].figures, own, type, found)
        OBVIOUS
    <2> DEFINE e == result.candidates[k + 1]
               acc == f[k]
               after == f[k + 1]
    <2>2. k + 1 \in 0 .. n /\ k + 1 # 0 /\ (k + 1) - 1 = k /\ k + 1 \in 1 .. n /\ k <= n
        BY <1>1, <2>1
    <2>3. /\ IsCarried(acc)
          /\ ComeFrom(acc.figures, own, type, found)
        BY <1>6, <2>2
    <2>4. after = TakeCandidate(acc, type, e, t, asOf)
        BY <1>2, <2>2 DEF IsRound, asOf
    <2>5. e \in found /\ IsTold(e)
        BY <1>4, <2>2
    <2> HIDE DEF e, acc, after
    <2>6. /\ IsCarried(after)
          /\ ComeFrom(after.figures, own, type, found)
        <3>1. IsInstant(asOf)
            BY <1>1
        <3> QED
            BY <2>3, <2>4, <2>5, <3>1, CandidateComesFrom
    <2> QED
        BY <2>6 DEF after
<1>7. n \in T
    <2> HIDE DEF T
    <2> QED
        BY <1>1, <1>5, <1>6, AllNaturals
<1> QED
    BY <1>1, <1>3, <1>7 DEF found

LEMMA UpdatedComeFrom ==
    ASSUME NEW t \in Int, NEW own, NEW type, NEW result, IsDetected(result, type, t),
           ComeFrom(own, own, type, ToSet(result.candidates))
    PROVE  ComeFrom(UpdateInstances(own, type, result, t).figures, own, type,
                    ToSet(result.candidates))
<1> DEFINE taken == TakeCandidates(own, type, result, t)
           seen == {InstanceId(type, e) : e \in ToSet(result.candidates)}
           after == UpdateInstances(own, type, result, t)
           asOf == result.asOf
           found == ToSet(result.candidates)
           unseen(id) == Unseen(taken.figures[id], result.unfit, t, asOf)
<1>1. ComeFrom(taken.figures, own, type, found)
    BY CandidatesComeFrom, Zenon
<1>2. /\ DOMAIN after.figures = DOMAIN taken.figures
      /\ \A id \in DOMAIN taken.figures \cap seen : after.figures[id] = taken.figures[id]
      /\ \A id \in DOMAIN taken.figures \ seen :
            after.figures[id] = taken.figures[id] \o unseen(id)
    <2> HIDE DEF taken, seen
    <2> QED
        BY DEF UpdateInstances, taken, seen
<1>3. IsInstant(asOf)
    BY DEF IsDetected
<1> HIDE DEF taken, seen, after, asOf, found
<1>4. ASSUME NEW id \in DOMAIN taken.figures
      PROVE  \/ unseen(id) = <<>>
             \/ \E e : unseen(id) = <<e>> /\ IsTold(e) /\ e.breakout = <<>>
    <2> DEFINE h == taken.figures[id]
               closing(state, reasons, missing) ==
                  ClosingEvaluation(Last(h), t, asOf, state, reasons, missing)
    <2>1. IsTold(Last(h))
        <3>1. IsSequence(h) /\ h # <<>> /\ \A x \in ToSet(h) : IsTold(x)
            BY <1>1 DEF ComeFrom
        <3> HIDE DEF h
        <3> QED
            BY <3>1, LastIsIn
    <2>2. \/ unseen(id) = <<>>
          \/ unseen(id) = <<closing("INSUFFICIENT_DATA", {}, result.unfit)>>
          \/ unseen(id) = <<closing("INVALIDATED", {"GEOMETRY_BROKEN"}, {})>>
        BY DEF Unseen
    <2> HIDE DEF h, unseen
    <2>3. \A state \in PatternState : \A reasons, missing :
             /\ IsTold(closing(state, reasons, missing))
             /\ closing(state, reasons, missing).breakout = <<>>
        BY <1>3, <2>1, ClosingIs
    <2>4. "INSUFFICIENT_DATA" \in PatternState /\ "INVALIDATED" \in PatternState
        BY DEF PatternState
    <2> HIDE DEF closing
    <2> QED
        BY <2>2, <2>3, <2>4
<1> HIDE DEF unseen
<1>5. ASSUME NEW id \in DOMAIN after.figures
      PROVE  /\ id.type = type /\ IsSequence(after.figures[id]) /\ after.figures[id] # <<>>
             /\ \A e \in ToSet(after.figures[id]) :
                   /\ IsTold(e)
                   /\ \/ id \in DOMAIN own /\ e \in ToSet(own[id])
                      \/ e \in found
                      \/ e.breakout = <<>>
    <2> DEFINE h == taken.figures[id]
    <2>1. /\ id.type = type /\ IsSequence(h) /\ h # <<>>
          /\ \A e \in ToSet(h) : /\ IsTold(e)
                                 /\ \/ id \in DOMAIN own /\ e \in ToSet(own[id])
                                    \/ e \in found
                                    \/ e.breakout = <<>>
        BY <1>1, <1>2 DEF ComeFrom
    <2>2. after.figures[id] = h \/ after.figures[id] = h \o unseen(id)
        BY <1>2
    <2>3. id \in DOMAIN taken.figures
        BY <1>2
    <2> HIDE DEF h
    <2>4. CASE after.figures[id] = h
        BY <2>1, <2>4
    <2>5. CASE after.figures[id] = h \o unseen(id) /\ unseen(id) = <<>>
        BY <2>1, <2>5, JoinedIs
    <2>6. ASSUME NEW e, unseen(id) = <<e>>, IsTold(e), e.breakout = <<>>,
                 after.figures[id] = h \o unseen(id)
          PROVE  /\ IsSequence(after.figures[id]) /\ after.figures[id] # <<>>
                 /\ ToSet(after.figures[id]) = ToSet(h) \cup {e}
        <3>1. after.figures[id] = Append(h, e)
            BY <2>1, <2>6, JoinedIs
        <3> QED
            BY <2>1, <3>1, AddedIs, AppendedHas
    <2>7. CASE /\ after.figures[id] = h \o unseen(id)
               /\ \E e : unseen(id) = <<e>> /\ IsTold(e) /\ e.breakout = <<>>
        BY <2>1, <2>6, <2>7
    <2> QED
        BY <1>4, <2>2, <2>3, <2>4, <2>5, <2>7
<1> QED
    BY <1>5 DEF ComeFrom, after, found

LEMMA EvaluatedComeFrom ==
    ASSUME NEW t \in Int, NEW earlier, NEW candles, HaveClosed(candles, t),
           opening.watched \subseteq PatternType,
           \A id \in DOMAIN figures : IsHistory(figures[id], earlier)
    PROVE  LET after == Evaluate(candles, t).figures
           IN  \A id \in DOMAIN after : \A e \in ToSet(after[id]) :
                  \/ id \in DOMAIN figures /\ e \in ToSet(figures[id])
                  \/ /\ id.type \in opening.watched
                     /\ e \in ToSet(Detect(id.type, candles, t).candidates)
                  \/ e.breakout = <<>>
<1> DEFINE own(type) == [id \in {x \in DOMAIN figures : x.type = type} |-> figures[id]]
           carried(type) == Carry(type, Detect(type, candles, t), t)
           after == Evaluate(candles, t).figures
<1>1. ASSUME NEW type \in opening.watched
      PROVE  ComeFrom(carried(type).figures, own(type), type,
                      ToSet(Detect(type, candles, t).candidates))
    <2> DEFINE result == Detect(type, candles, t)
               mine == own(type)
               found == ToSet(result.candidates)
    <2>1. carried(type).figures = UpdateInstances(mine, type, result, t).figures
        BY DEF Carry
    <2>2. IsDetected(result, type, t)
        BY DetectedIs
    <2>3. ASSUME NEW id \in DOMAIN mine
          PROVE  id.type = type /\ IsHistory(mine[id], earlier)
        OBVIOUS
    <2> HIDE DEF mine, result, found
    <2>4. ASSUME NEW id \in DOMAIN mine
          PROVE  /\ IsSequence(mine[id]) /\ mine[id] # <<>>
                 /\ \A e \in ToSet(mine[id]) : IsTold(e)
        BY <2>3 DEF IsHistory, ToSet
    <2>5. ComeFrom(mine, mine, type, found)
        BY <2>3, <2>4 DEF ComeFrom
    <2>6. ComeFrom(UpdateInstances(mine, type, result, t).figures, mine, type, found)
        BY <2>2, <2>5, UpdatedComeFrom DEF found
    <2> HIDE DEF carried
    <2> QED
        BY <2>1, <2>6 DEF mine, result, found
<1>2. \A type, id : id \in DOMAIN own(type) => id \in DOMAIN figures /\ own(type)[id] = figures[id]
    OBVIOUS
<1> HIDE DEF carried, own
<1>3. /\ DOMAIN after = UNION {DOMAIN carried(type).figures : type \in opening.watched}
      /\ \A id \in DOMAIN after : after[id] = carried(id.type).figures[id]
    <2>1. /\ DOMAIN after = UNION {DOMAIN carried(type).figures : type \in opening.watched}
          /\ \A id \in DOMAIN after :
                id.type \in opening.watched => after[id] = carried(id.type).figures[id]
        BY DEF Evaluate, Joined, carried
    <2>2. \A id \in DOMAIN after : id.type \in opening.watched
        BY <1>1, <2>1 DEF ComeFrom
    <2> QED
        BY <2>1, <2>2
<1> HIDE DEF after
<1>4. SUFFICES ASSUME NEW id \in DOMAIN after, NEW e \in ToSet(after[id])
               PROVE  \/ id \in DOMAIN figures /\ e \in ToSet(figures[id])
                      \/ /\ id.type \in opening.watched
                         /\ e \in ToSet(Detect(id.type, candles, t).candidates)
                      \/ e.breakout = <<>>
    BY DEF after
<1>5. PICK type \in opening.watched : id \in DOMAIN carried(type).figures
    BY <1>3
<1>6. id.type = type
    BY <1>1, <1>5 DEF ComeFrom
<1>7. \/ id \in DOMAIN own(type) /\ e \in ToSet(own(type)[id])
      \/ e \in ToSet(Detect(type, candles, t).candidates)
      \/ e.breakout = <<>>
    BY <1>1, <1>3, <1>4, <1>5, <1>6 DEF ComeFrom
<1> QED
    BY <1>2, <1>6, <1>7

-----------------------------------------------------------------------------
(* What a breakout that is called LIVE rests on *)

\* Every candle that the figure was made of, as far as its detector could read it,
\* had been received before the candle that broke out opened.
ReceivedInTime(type, e, candles) ==
    e.breakout # <<>> /\ EvidenceProvenance(e) = "LIVE" =>
       \E opened \in ToSet(e.timing.opened) :
          \A c \in ToSet(candles) :
             /\ MayRead(type, c, e.at)
             /\ Head(e.anchors).at <= c.at
             /\ CloseTime(c.at) <= Last(e.anchors).confirmed
             => \E r \in ToSet(c.seen) : r <= opened

AllReceived ==
    \A id \in DOMAIN figures : \A e \in ToSet(figures[id]) :
       ReceivedInTime(id.type, e, closed)

\* It is so when it is found.
LEMMA DetectedIsReceived ==
    ASSUME NEW t \in Int, NEW candles, HaveClosed(candles, t), NEW type \in PatternType,
           NEW e \in ToSet(Detect(type, candles, t).candidates)
    PROVE  ReceivedInTime(type, e, candles)
<1> DEFINE seen == Seen(type, candles, t)
<1>1. IsFound(e, type, seen, t)
    BY DetectedAreFound DEF AllFound
<1>2. ToSet(seen) = {c \in ToSet(candles) : MayRead(type, c, t)}
    BY SeenIs DEF HaveClosed
<1> HIDE DEF seen
<1>3. e.at = t /\ WasReceived(e.timing, e.anchors, seen)
    BY <1>1 DEF IsFound, IsMadeAt
<1>4. EvidenceProvenance(e) = "LIVE" =>
         e.timing.known # <<>> /\ e.timing.provenance # <<>> /\ e.timing.provenance[1] = "LIVE"
    BY DEF EvidenceProvenance
<1>5. \A c \in ToSet(candles) : MayRead(type, c, e.at) => c \in ToSet(seen)
    BY <1>2, <1>3
<1> QED
    BY <1>3, <1>4, <1>5 DEF WasReceived, ReceivedInTime

\* It stays so: a later candle is not one that the figure was made of.
LEMMA ReceivedLasts ==
    ASSUME NEW type, NEW e, NEW candles \in Seq(ClosedCandle), NEW c \in ClosedCandle,
           ReceivedInTime(type, e, candles),
           IsTold(e), ValidEvaluation(e), e.at \in Int, e.at < CloseTime(c.at)
    PROVE  ReceivedInTime(type, e, Append(candles, c))
<1>1. ToSet(Append(candles, c)) = ToSet(candles) \cup {c}
    BY SequenceOf, AppendedHas
<1>2. ~(CloseTime(c.at) <= Last(e.anchors).confirmed)
    <2>1. Len(e.anchors) \in DOMAIN e.anchors
        BY SequenceHasLast DEF IsTold, ValidEvaluation, KnownByThen
    <2>2. Last(e.anchors).confirmed \in Int /\ Last(e.anchors).confirmed <= e.at
        BY <2>1 DEF IsTold, HasDates, ValidEvaluation, KnownByThen, Last
    <2>3. c.at \in Int
        BY CandlesAre
    <2>4. CloseTime(c.at) \in Int
        BY <2>3, TicksPass
    <2> QED
        BY <2>2, <2>4
<1> QED
    BY <1>1, <1>2 DEF ReceivedInTime

LEMMA ClosingIsReceived ==
    ASSUME ClosedOK, FiguresOK, AllReceived, CandleCloses
    PROVE  AllReceived'
<1> DEFINE t == CloseTime(now)
           earlier == CloseTime(now - 1)
<1>1. PICK c \in ClosedCandle : c.at = now /\ closed' = Append(closed, c)
    BY ClosingGoesOn
<1>2. /\ HaveClosed(closed', t)
      /\ figures' = figures \/ figures' = Evaluate(closed', t).figures
    BY ClosingGoesOn
<1>3. closed \in Seq(ClosedCandle) /\ opening.watched \subseteq PatternType
    BY ReplayAssumption DEF ClosedOK
<1>4. \A id \in DOMAIN figures : IsHistory(figures[id], earlier)
    BY DEF FiguresOK
<1>5. t \in Int /\ earlier \in Int /\ earlier < t
    <2>1. now \in Int /\ now - 1 \in Int /\ now - 1 < now
        BY DEF ClosedOK
    <2> QED
        BY <2>1, TicksPass
<1>6. CloseTime(c.at) = t
    BY <1>1
<1> HIDE DEF t, earlier
<1>7. ASSUME NEW id \in DOMAIN figures, NEW e \in ToSet(figures[id])
      PROVE  ReceivedInTime(id.type, e, closed')
    <2>1. ReceivedInTime(id.type, e, closed)
        BY DEF AllReceived
    <2>2. IsTold(e) /\ ValidEvaluation(e) /\ e.at \in Int /\ e.at <= earlier
        BY <1>4 DEF IsHistory, ToSet
    <2>3. e.at < CloseTime(c.at)
        BY <1>5, <1>6, <2>2
    <2>4. ReceivedInTime(id.type, e, Append(closed, c))
        BY <1>3, <2>1, <2>2, <2>3, ReceivedLasts
    <2> QED
        BY <1>1, <2>4
<1>8. ASSUME NEW id \in DOMAIN figures', NEW e \in ToSet(figures'[id])
      PROVE  ReceivedInTime(id.type, e, closed')
    <2>1. CASE figures' = figures
        BY <1>7, <1>8, <2>1
    <2>2. CASE figures' = Evaluate(closed', t).figures
        <3>1. \/ id \in DOMAIN figures /\ e \in ToSet(figures[id])
              \/ /\ id.type \in opening.watched
                 /\ e \in ToSet(Detect(id.type, closed', t).candidates)
              \/ e.breakout = <<>>
            BY <1>2, <1>3, <1>4, <1>5, <1>8, <2>2, EvaluatedComeFrom
        <3>2. CASE id \in DOMAIN figures /\ e \in ToSet(figures[id])
            BY <1>7, <3>2
        <3>3. CASE /\ id.type \in opening.watched
                   /\ e \in ToSet(Detect(id.type, closed', t).candidates)
            <4>1. id.type \in PatternType
                BY <1>3, <3>3
            <4> QED
                BY <1>2, <1>5, <3>3, <4>1, DetectedIsReceived
        <3>4. CASE e.breakout = <<>>
            BY <3>4 DEF ReceivedInTime
        <3> QED
            BY <3>1, <3>2, <3>3, <3>4
    <2> QED
        BY <1>2, <2>1, <2>2
<1> QED
    BY <1>8 DEF AllReceived

LEMMA ReceivedIsKept ==
    ASSUME ReplayInv, AllReceived, [CandleNext]_candleVars
    PROVE  AllReceived'
<1>1. CASE CandleCloses
    BY <1>1, ClosingIsReceived DEF ReplayInv
<1>2. CASE CandleIsMissing
    BY <1>2 DEF CandleIsMissing, AllReceived, ReceivedInTime
<1>3. CASE Locate
    BY <1>3 DEF Locate, AllReceived, ReceivedInTime
<1>4. CASE UNCHANGED candleVars
    BY <1>4 DEF candleVars, AllReceived, ReceivedInTime
<1> QED
    BY <1>1, <1>2, <1>3, <1>4 DEF CandleNext, NextClose

-----------------------------------------------------------------------------
(* What an operable claim rests on *)

ClaimFields ==
    {"at", "asOf", "kind", "compatible", "direction", "supporting", "conflicting",
     "operability", "source"}

IsClaim(claim) == claim = [field \in ClaimFields |-> claim[field]]

LEMMA ReadingIs ==
    ASSUME NEW id, NEW e
    PROVE  /\ IsClaim(Reading(id, e)) /\ Reading(id, e).at = e.at
           /\ Reading(id, e).operability = OperabilityOf(EvidenceProvenance(e))
BY DEF Reading, IsClaim, ClaimFields

\* _build: a breakout is read afresh, and what is not goes on with what was claimed.
LEMMA ClaimIs ==
    ASSUME NEW id, NEW e, NEW figures0, NEW previous, CoherentContent(e)
    PROVE  LET claim == Claim(id, e, figures0, previous)
           IN  \/ /\ e.breakout # <<>> /\ IsClaim(claim) /\ claim.at = e.at
                  /\ claim.operability = OperabilityOf(EvidenceProvenance(e))
               \/ /\ e.state \notin TriggerStates
                  /\ IsClaim(previous) =>
                        /\ IsClaim(claim) /\ claim.at = e.at
                        /\ claim.operability = previous.operability
<1> DEFINE claim == Claim(id, e, figures0, previous)
           reading == Reading(id, e)
<1>1. \/ /\ e.state \in TriggerStates
         /\ \E s, c : claim = [reading EXCEPT !.supporting = s, !.conflicting = c]
      \/ /\ e.breakout # <<>>
         /\ \E d, s, c : claim = [reading EXCEPT !.direction = d, !.supporting = s,
                                                 !.conflicting = c]
      \/ /\ e.state \notin TriggerStates
         /\ \E d, s : claim = [previous EXCEPT !.at = e.at, !.asOf = e.asOf,
                                              !.direction = d, !.source = s]
    <2> DEFINE related == RelatedPatterns(id, figures0, e.at)
               pointing == e.breakout[1].direction
               same == {r \in related : r.direction = pointing}
               other == {r \in related : r.direction # pointing}
               fresh == [reading EXCEPT !.supporting = same, !.conflicting = other]
               ended == [reading EXCEPT !.direction = "UNKNOWN",
                                        !.supporting = previous.supporting,
                                        !.conflicting = previous.conflicting]
               over == [previous EXCEPT !.at = e.at, !.asOf = e.asOf,
                                        !.direction = "UNKNOWN", !.source = Source(e, <<>>)]
    <2>1. \/ e.state \in TriggerStates /\ claim = fresh
          \/ e.breakout # <<>> /\ claim = ended
          \/ e.state \notin TriggerStates /\ claim = over
        <3>1. claim = CASE e.state \in TriggerStates -> fresh
                        [] e.state \in ClosingStates /\ e.breakout # <<>> -> ended
                        [] OTHER -> over
            BY DEF Claim
        <3> HIDE DEF claim, fresh, ended, over
        <3> QED
            BY <3>1
    <2> HIDE DEF reading, related, pointing, claim, same, other
    <2> QED
        BY <2>1
<1>2. e.state \in TriggerStates => e.breakout # <<>>
    BY DEF CoherentContent, TriggerStates, BreakoutStates
<1>3. /\ IsClaim(reading) /\ reading.at = e.at
      /\ reading.operability = OperabilityOf(EvidenceProvenance(e))
    BY ReadingIs
<1> HIDE DEF claim, reading
<1>4. ASSUME NEW s, NEW c, claim = [reading EXCEPT !.supporting = s, !.conflicting = c]
      PROVE  /\ IsClaim(claim) /\ claim.at = e.at
             /\ claim.operability = OperabilityOf(EvidenceProvenance(e))
    BY <1>3, <1>4 DEF IsClaim, ClaimFields
<1>5. ASSUME NEW d, NEW s, NEW c,
             claim = [reading EXCEPT !.direction = d, !.supporting = s, !.conflicting = c]
      PROVE  /\ IsClaim(claim) /\ claim.at = e.at
             /\ claim.operability = OperabilityOf(EvidenceProvenance(e))
    BY <1>3, <1>5 DEF IsClaim, ClaimFields
<1>6. ASSUME NEW d, NEW s, IsClaim(previous),
             claim = [previous EXCEPT !.at = e.at, !.asOf = e.asOf,
                                      !.direction = d, !.source = s]
      PROVE  /\ IsClaim(claim) /\ claim.at = e.at
             /\ claim.operability = previous.operability
    BY <1>6 DEF IsClaim, ClaimFields
<1>7. \/ /\ e.breakout # <<>> /\ IsClaim(claim) /\ claim.at = e.at
         /\ claim.operability = OperabilityOf(EvidenceProvenance(e))
      \/ /\ e.state \notin TriggerStates
         /\ IsClaim(previous) => /\ IsClaim(claim) /\ claim.at = e.at
                                 /\ claim.operability = previous.operability
    BY <1>1, <1>2, <1>4, <1>5, <1>6
<1> QED
    BY <1>7 DEF claim

\* The figure broke out by t with a breakout that is called LIVE.
BrokeLive(h, n, t) ==
    \E m \in 1 .. n : /\ h[m].breakout # <<>> /\ EvidenceProvenance(h[m]) = "LIVE"
                      /\ h[m].at <= t

\* Claims that were read from the first n evaluations of a figure.
AreRead(claims, h, n) ==
    /\ IsSequence(claims)
    /\ \A claim \in ToSet(claims) :
          /\ IsClaim(claim) /\ claim.at \in Int /\ claim.at <= h[n].at
          /\ claim.operability = "OPERABLE" => BrokeLive(h, n, claim.at)

LEMMA ReadingIsTaken ==
    ASSUME NEW t, NEW h, IsHistory(h, t), NEW n \in DOMAIN h, NEW claims, NEW id, NEW figures0,
           \/ claims = <<>> /\ h[n].state \in TriggerStates
           \/ n - 1 \in DOMAIN h /\ claims # <<>> /\ AreRead(claims, h, n - 1)
    PROVE  LET after == TakeReading(claims, id, h[n], figures0)
           IN  after # <<>> /\ AreRead(after, h, n)
<1> DEFINE e == h[n]
           previous == IF claims = <<>> THEN <<>> ELSE Last(claims)
           claim == Claim(id, e, figures0, previous)
           after == TakeReading(claims, id, e, figures0)
<1>1. /\ n \in Int /\ n >= 1 /\ n <= Len(h) /\ Len(h) \in Nat /\ DOMAIN h = 1 .. Len(h)
    BY SequenceHasLast DEF IsHistory
<1>2. IsTold(e) /\ CoherentContent(e) /\ e.at \in Int
    BY DEF IsHistory, ValidEvaluation
<1>3. /\ after = claims \/ after = Append(claims, claim)
      /\ claims = <<>> /\ e.state \in TriggerStates => after = Append(claims, claim)
    BY DEF TakeReading
<1>4. \/ /\ e.breakout # <<>> /\ IsClaim(claim) /\ claim.at = e.at
         /\ claim.operability = OperabilityOf(EvidenceProvenance(e))
      \/ /\ e.state \notin TriggerStates
         /\ IsClaim(previous) =>
               /\ IsClaim(claim) /\ claim.at = e.at
               /\ claim.operability = previous.operability
    BY <1>2, ClaimIs
<1>5. n - 1 \in DOMAIN h => h[n - 1].at \in Int /\ h[n - 1].at < e.at
    <2>1. n - 1 \in DOMAIN h => n - 1 < Len(h) /\ (n - 1) + 1 = n
        BY <1>1
    <2> QED
        BY <2>1 DEF IsHistory
<1>6. previous = IF claims = <<>> THEN <<>> ELSE Last(claims)
    OBVIOUS
<1>7. OperabilityOf(EvidenceProvenance(e)) = "OPERABLE" => EvidenceProvenance(e) = "LIVE"
    BY DEF OperabilityOf
<1> HIDE DEF e, previous, claim, after
<1>8. AreRead(claims, h, n) /\ IsSequence(claims)
    <2>1. CASE claims = <<>>
        <3>1. IsSequence(<<>>) /\ ToSet(<<>>) = {}
            <4>1. IsSequence(<<>>)
                BY <<>> \in Seq({}), SequenceOf
            <4> QED
                BY <4>1 DEF ToSet
        <3> QED
            BY <2>1, <3>1 DEF AreRead
    <2>2. CASE n - 1 \in DOMAIN h /\ claims # <<>> /\ AreRead(claims, h, n - 1)
        <3>1. ASSUME NEW c \in ToSet(claims)
              PROVE  /\ IsClaim(c) /\ c.at \in Int /\ c.at <= h[n].at
                     /\ c.operability = "OPERABLE" => BrokeLive(h, n, c.at)
            <4>1. /\ IsClaim(c) /\ c.at \in Int /\ c.at <= h[n - 1].at
                  /\ c.operability = "OPERABLE" => BrokeLive(h, n - 1, c.at)
                BY <2>2 DEF AreRead
            <4>2. c.at <= h[n].at
                BY <1>2, <1>5, <2>2, <4>1 DEF e
            <4>3. BrokeLive(h, n - 1, c.at) => BrokeLive(h, n, c.at)
                <5>1. 1 .. (n - 1) \subseteq 1 .. n
                    BY <1>1
                <5> QED
                    BY <5>1 DEF BrokeLive
            <4> QED
                BY <4>1, <4>2, <4>3
        <3> QED
            BY <2>2, <3>1 DEF AreRead
    <2> QED
        BY <2>1, <2>2
<1>9. CASE after = claims
    <2>1. claims = <<>> => after = Append(claims, claim)
        BY <1>3 DEF e
    <2>2. Append(claims, claim) # <<>>
        BY <1>8, AppendedHas
    <2>3. after # <<>>
        BY <1>9, <2>1, <2>2
    <2> QED
        BY <1>8, <1>9, <2>3 DEF after, e
<1>10. CASE after = Append(claims, claim)
    <2>1. /\ IsSequence(after) /\ after # <<>> /\ ToSet(after) = ToSet(claims) \cup {claim}
        BY <1>8, <1>10, AppendedHas, AddedIs
    <2>2. /\ IsClaim(claim) /\ claim.at = e.at
          /\ claim.operability = "OPERABLE" => BrokeLive(h, n, e.at)
        <3>1. CASE e.breakout # <<>> /\ IsClaim(claim) /\ claim.at = e.at
                   /\ claim.operability = OperabilityOf(EvidenceProvenance(e))
            <4>1. n \in 1 .. n /\ e.at <= e.at
                BY <1>1, <1>2
            <4> QED
                BY <1>7, <3>1, <4>1 DEF BrokeLive, e
        <3>2. CASE /\ e.state \notin TriggerStates
                   /\ IsClaim(previous) =>
                         /\ IsClaim(claim) /\ claim.at = e.at
                         /\ claim.operability = previous.operability
            <4>1. claims # <<>>
                BY <3>2 DEF e
            <4>2. previous \in ToSet(claims)
                BY <1>6, <1>8, <4>1, LastIsIn
            <4>3. /\ IsClaim(previous) /\ previous.at \in Int /\ previous.at <= e.at
                  /\ previous.operability = "OPERABLE" => BrokeLive(h, n, previous.at)
                BY <1>8, <4>2 DEF AreRead, e
            <4>4. BrokeLive(h, n, previous.at) => BrokeLive(h, n, e.at)
                <5>1. ASSUME NEW m \in 1 .. n, h[m].at <= previous.at
                      PROVE  h[m].at <= e.at
                    <6>1. m \in DOMAIN h
                        BY <1>1
                    <6>2. h[m].at \in Int
                        BY <6>1 DEF IsHistory
                    <6> QED
                        BY <1>2, <4>3, <5>1, <6>2
                <5> QED
                    BY <5>1 DEF BrokeLive
            <4> QED
                BY <3>2, <4>3, <4>4
        <3> QED
            BY <1>4, <3>1, <3>2
    <2>3. claim.at \in Int /\ claim.at <= h[n].at
        BY <1>2, <2>2 DEF e
    <2>4. AreRead(after, h, n)
        BY <1>8, <2>1, <2>2, <2>3 DEF AreRead
    <2> QED
        BY <2>1, <2>4 DEF after, e
<1> QED
    BY <1>3, <1>9, <1>10 DEF after, e

\* The loop, from the first breakout on.
IsReadingOf(f, id, first, n) ==
    f = [k \in 0 .. n |->
            IF k < first \/ k = 0 THEN <<>>
            ELSE TakeReading(f[k - 1], id, figures[id][k], figures)]

LEMMA ReadingExists ==
    ASSUME NEW id, NEW first, NEW n \in Nat
    PROVE  \E f : IsReadingOf(f, id, first, n)
<1> DEFINE T == {k \in Nat : \E f : IsReadingOf(f, id, first, k)}
<1>1. 0 \in T
    <2>1. IsReadingOf([k \in 0 .. 0 |-> <<>>], id, first, 0)
        BY DEF IsReadingOf
    <2> QED
        BY <2>1
<1>2. ASSUME NEW k \in Nat, k \in T
      PROVE  k + 1 \in T
    <2>1. PICK f : IsReadingOf(f, id, first, k)
        BY <1>2
    <2> DEFINE step(x, i) == IF i < first \/ i = 0 THEN <<>>
                             ELSE TakeReading(x, id, figures[id][i], figures)
               g == [i \in 0 .. (k + 1) |-> step(f[i - 1], i)]
    <2>2. f = [i \in 0 .. k |-> step(f[i - 1], i)]
        BY <2>1 DEF IsReadingOf
    <2>3. \A x, y : step(x, 0) = step(y, 0)
        OBVIOUS
    <2> HIDE DEF step
    <2>4. \A i \in 0 .. k : g[i] = f[i]
        <3>1. \A i \in 0 .. k : f[i] = step(f[i - 1], i)
            BY <2>2
        <3>2. \A i \in 0 .. k : g[i] = step(f[i - 1], i)
            OBVIOUS
        <3> QED
            BY <3>1, <3>2
    <2>5. g = [i \in 0 .. (k + 1) |-> step(g[i - 1], i)]
        <3>1. \A i \in 0 .. (k + 1) : i # 0 => i - 1 \in 0 .. k
            OBVIOUS
        <3>2. \A i \in 0 .. (k + 1) : step(g[i - 1], i) = step(f[i - 1], i)
            <4> HIDE DEF g
            <4> QED
                BY <2>3, <2>4, <3>1
        <3> QED
            BY <3>2
    <2>6. IsReadingOf(g, id, first, k + 1)
        <3> HIDE DEF g
        <3> QED
            BY <2>5 DEF IsReadingOf, step
    <2> HIDE DEF g
    <2> QED
        BY <2>6, k + 1 \in Nat
<1>3. n \in T
    <2> HIDE DEF T
    <2> QED
        BY <1>1, <1>2, AllNaturals
<1> QED
    BY <1>3

LEMMA HypothesisIsRead ==
    ASSUME NEW t, NEW id, IsHistory(figures[id], t)
    PROVE  \/ HypothesisFor(id, figures) = <<>>
           \/ AreRead(HypothesisFor(id, figures), figures[id], Len(figures[id]))
<1> DEFINE h == figures[id]
           n == Len(h)
           triggers == {k \in DOMAIN h : h[k].state \in TriggerStates}
           first == Earliest(triggers)
           f == CHOOSE f : IsReadingOf(f, id, first, n)
           T == {k \in Nat : first <= k /\ k <= n => f[k] # <<>> /\ AreRead(f[k], h, k)}
<1>1. n \in Nat /\ DOMAIN h = 1 .. n
    BY SequenceHasLast DEF IsHistory
<1>2. HypothesisFor(id, figures) = IF first = 0 THEN <<>> ELSE f[n]
    BY DEF HypothesisFor, IsReadingOf
<1>3. SUFFICES ASSUME first # 0
               PROVE  AreRead(f[n], h, n)
    BY <1>2
<1>4. first \in DOMAIN h /\ h[first].state \in TriggerStates
    <2>1. \A x \in triggers : x \in Int /\ x >= 1
        BY <1>1
    <2> HIDE DEF triggers
    <2>2. first \in triggers
        BY <1>3, <2>1, EarliestIs
    <2> QED
        BY <2>2 DEF triggers
<1>5. IsReadingOf(f, id, first, n)
    BY <1>1, ReadingExists
<1>6. IsHistory(h, t)
    OBVIOUS
<1> HIDE DEF n, triggers, first, f
<1>7. /\ DOMAIN f = 0 .. n
      /\ \A k \in 0 .. n : k < first \/ k = 0 => f[k] = <<>>
      /\ \A k \in 0 .. n :
            ~(k < first \/ k = 0) => f[k] = TakeReading(f[k - 1], id, h[k], figures)
    BY <1>5 DEF IsReadingOf
<1> HIDE DEF h
<1>8. 0 \in T
    BY <1>1, <1>4
<1>9. ASSUME NEW k \in Nat, k \in T
      PROVE  k + 1 \in T
    <2>1. SUFFICES ASSUME first <= k + 1, k + 1 <= n
                   PROVE  f[k + 1] # <<>> /\ AreRead(f[k + 1], h, k + 1)
        OBVIOUS
    <2>2. /\ k + 1 \in DOMAIN h /\ k + 1 \in 0 .. n /\ (k + 1) - 1 = k
          /\ ~(k + 1 < first \/ k + 1 = 0)
          /\ k \in 0 .. n
          /\ first = k + 1 \/ first <= k
        BY <1>1, <1>4, <2>1
    <2>3. f[k + 1] = TakeReading(f[k], id, h[k + 1], figures)
        BY <1>7, <2>2
    <2>4. \/ f[k] = <<>> /\ h[k + 1].state \in TriggerStates
          \/ k + 1 - 1 \in DOMAIN h /\ f[k] # <<>> /\ AreRead(f[k], h, k + 1 - 1)
        <3>1. CASE first = k + 1
            <4>1. k < first
                BY <3>1
            <4> QED
                BY <1>4, <1>7, <2>2, <3>1, <4>1
        <3>2. CASE first <= k
            <4>1. k \in DOMAIN h /\ k <= n
                BY <1>1, <1>4, <2>2, <3>2
            <4>2. f[k] # <<>> /\ AreRead(f[k], h, k)
                BY <1>9, <3>2, <4>1
            <4> QED
                BY <2>2, <4>1, <4>2
        <3> QED
            BY <2>2, <3>1, <3>2
    <2> DEFINE i == k + 1
               claims == f[k]
    <2>5. /\ i \in DOMAIN h
          /\ \/ claims = <<>> /\ h[i].state \in TriggerStates
             \/ i - 1 \in DOMAIN h /\ claims # <<>> /\ AreRead(claims, h, i - 1)
        BY <2>2, <2>4
    <2> HIDE DEF i, claims
    <2> DEFINE after == TakeReading(claims, id, h[i], figures)
    <2>6. after # <<>> /\ AreRead(after, h, i)
        BY <1>6, <2>5, ReadingIsTaken
    <2> HIDE DEF after
    <2>7. f[k + 1] = after
        BY <2>3 DEF after, i, claims
    <2> QED
        BY <2>6, <2>7 DEF i
<1>10. n \in T
    <2> HIDE DEF T
    <2> QED
        BY <1>1, <1>8, <1>9, AllNaturals
<1> QED
    BY <1>1, <1>4, <1>10

LEMMA ReceivedIsEnough ==
    ASSUME FiguresOK, AllReceived
    PROVE  OperableWasReceived
<1>1. SUFFICES ASSUME NEW id \in DOMAIN figures,
                      NEW claim \in ToSet(HypothesisFor(id, figures)),
                      claim.operability = "OPERABLE"
               PROVE  \E broke \in ToSet(figures[id]) :
                         /\ broke.at <= claim.at
                         /\ \E opened \in ToSet(broke.timing.opened) :
                            \A c \in MadeOf(id.type, broke) :
                               \E received \in ToSet(c.seen) : received <= opened
    BY DEF OperableWasReceived
<1> DEFINE h == figures[id]
<1>2. IsHistory(h, CloseTime(now - 1))
    BY DEF FiguresOK
<1>3. AreRead(HypothesisFor(id, figures), h, Len(h))
    <2>1. ToSet(<<>>) = {}
        BY DEF ToSet
    <2> QED
        BY <1>1, <1>2, <2>1, HypothesisIsRead
<1>4. BrokeLive(h, Len(h), claim.at)
    BY <1>1, <1>3 DEF AreRead
<1>5. PICK m \in 1 .. Len(h) : /\ h[m].breakout # <<>> /\ EvidenceProvenance(h[m]) = "LIVE"
                               /\ h[m].at <= claim.at
    BY <1>4 DEF BrokeLive
<1>6. h[m] \in ToSet(h)
    BY <1>2, SequenceHasLast DEF IsHistory, ToSet
<1>7. ReceivedInTime(id.type, h[m], closed)
    BY <1>6 DEF AllReceived
<1> QED
    BY <1>5, <1>6, <1>7 DEF ReceivedInTime, MadeOf

-----------------------------------------------------------------------------
(* A trend does not flip *)

\* The last two swings of each side, both higher (or, with -1, lower) than those
\* before them.
Climbs(swings, sign) ==
    LET n == Len(swings)
    IN  /\ sign * (swings[n].price - swings[n - 2].price) > 0
        /\ sign * (swings[n - 1].price - swings[n - 3].price) > 0

Alternate(swings) ==
    \A n \in 1 .. (Len(swings) - 1) : swings[n].kind # swings[n + 1].kind

\* A real step in a swing range is one.
LEMMA StepIsReal ==
    ASSUME NEW d \in Int, NEW height \in Int, height > 0, IsStep(d, height)
    PROVE  d > 0
<1> DEFINE num == Significance[1]
           den == Significance[2]
<1>1. num \in Nat /\ num > 0 /\ den \in Nat /\ den > 0
    BY TrendAssumption DEF IsTrendParams, IsFraction
<1>2. d * den > height * num
    BY DEF IsStep
<1> HIDE DEF num, den
<1>3. height * num > 0
    BY <1>1
<1>4. d <= 0 => d * den <= 0
    BY <1>1
<1>5. d * den \in Int /\ height * num \in Int
    BY <1>1
<1> QED
    BY <1>2, <1>3, <1>4, <1>5

\* The structure of an uptrend rises on both sides.
LEMMA TrendIsRead ==
    ASSUME NEW used, NEW window
    PROVE  LET height == UpperLimit(used) - LowerLimit(used)
               rises(sign) == \A kind \in PivotKind : \A m, n \in SideOfSwings(used, kind) :
                                 AreNeighbours(SideOfSwings(used, kind), m, n) =>
                                    IsStep(sign * (used[n].price - used[m].price), height)
           IN  /\ ReadStructure(used, window) = "UPTREND" => height > 0 /\ rises(1)
               /\ ReadStructure(used, window) = "DOWNTREND" => height > 0 /\ rises(-1)
<1> DEFINE height == UpperLimit(used) - LowerLimit(used)
           sided(kind, sign) == \A m, n \in SideOfSwings(used, kind) :
                              AreNeighbours(SideOfSwings(used, kind), m, n) =>
                                 IsStep(sign * (used[n].price - used[m].price), height)
           both(step) == height > 0 /\ BothSides(used, step, height)
<1>1. /\ ReadStructure(used, window) = "UPTREND" => both("RISING")
      /\ ReadStructure(used, window) = "DOWNTREND" => both("FALLING")
    BY DEF ReadStructure
<1>2. \A kind : /\ Steps(used, kind, height) = "RISING" => sided(kind, 1)
                /\ Steps(used, kind, height) = "FALLING" => sided(kind, -1)
    <2> HIDE DEF height
    <2> QED
        BY DEF Steps
<1> HIDE DEF height, sided
<1>3. /\ both("RISING") => height > 0 /\ \A kind \in PivotKind : sided(kind, 1)
      /\ both("FALLING") => height > 0 /\ \A kind \in PivotKind : sided(kind, -1)
    BY <1>2 DEF BothSides
<1> QED
    BY <1>1, <1>3 DEF sided, height

\* The range of some swings is a number.
LEMMA HeightIsInt ==
    ASSUME NEW used, Len(used) \in Nat, DOMAIN used = 1 .. Len(used),
           \A n \in DOMAIN used : used[n].price \in Int,
           \A kind \in PivotKind : SideOfSwings(used, kind) # {}
    PROVE  UpperLimit(used) - LowerLimit(used) \in Int
<1> DEFINE prices(kind) == {used[n].price : n \in SideOfSwings(used, kind)}
<1>1. ASSUME NEW kind \in PivotKind
      PROVE  prices(kind) \in SUBSET Int /\ IsFiniteSet(prices(kind)) /\ prices(kind) # {}
    <2>1. SideOfSwings(used, kind) \subseteq 1 .. Len(used)
        BY DEF SideOfSwings
    <2> DEFINE side == SideOfSwings(used, kind)
    <2>2. IsFiniteSet(side)
        <3>1. IsFiniteSet(1 .. Len(used))
            <4>1. 1 \in Int /\ Len(used) \in Int
                OBVIOUS
            <4> QED
                BY <4>1, FS_Interval
        <3> HIDE DEF side
        <3> QED
            BY <2>1, <3>1, FS_Subset DEF side
    <2>3. IsFiniteSet(prices(kind))
        <3> DEFINE price == [n \in side |-> used[n].price]
                   all == {used[n].price : n \in side}
        <3>1. price \in Surjection(side, all)
            BY DEF Surjection
        <3> HIDE DEF price, side, all
        <3>2. IsFiniteSet(all)
            BY <2>2, <3>1, FS_Surjection
        <3> QED
            BY <3>2 DEF all, side
    <2> QED
        BY <1>1, <2>1, <2>3
<1>2. Max(prices("HIGH")) \in Int
    BY <1>1, FiniteIsBounded DEF PivotKind
<1>3. Min(prices("LOW")) \in Int
    <2> DEFINE S == prices("LOW")
               T == {-x : x \in S}
    <2>1. S \in SUBSET Int /\ IsFiniteSet(S) /\ S # {}
        BY <1>1 DEF PivotKind
    <2> HIDE DEF S
    <2>2. T \in SUBSET Int /\ IsFiniteSet(T) /\ T # {}
        <3> DEFINE f == [x \in S |-> -x]
        <3>1. f \in Surjection(S, T)
            BY DEF Surjection
        <3> HIDE DEF f
        <3>2. IsFiniteSet(T)
            <4> HIDE DEF T
            <4> QED
                BY <2>1, <3>1, FS_Surjection
        <3>3. T # {}
            BY <2>1
        <3>4. \A x \in S : -x \in Int
            BY <2>1
        <3>5. T \in SUBSET Int
            BY <3>4
        <3> QED
            BY <3>2, <3>3, <3>5
    <2>3. PICK m \in T : \A x \in T : x <= m
        <3> HIDE DEF T
        <3> QED
            BY <2>2, FiniteIsBounded
    <2>4. PICK x \in S : m = -x
        BY <2>3
    <2>5. \A y \in S : x <= y
        <3>1. ASSUME NEW y \in S
              PROVE  x <= y
            <4>1. -y <= m
                BY <2>3
            <4> QED
                BY <2>1, <2>4, <4>1
        <3> QED
            BY <3>1
    <2>6. Min(S) \in S
        BY <2>5 DEF Min
    <2> QED
        BY <2>1, <2>6 DEF S
<1> QED
    BY <1>2, <1>3 DEF UpperLimit, LowerLimit

\* The last four swings of a trend.
LEMMA TrendClimbs ==
    ASSUME NEW S, \A p \in S : p.kind \in PivotKind /\ p.price \in Int,
           NEW swings \in Seq(S), Alternate(swings), Len(swings) >= WindowSwings, NEW window
    PROVE  LET used == SubSeq(swings, Len(swings) - WindowSwings + 1, Len(swings))
           IN  /\ ReadStructure(used, window) = "UPTREND" => Climbs(swings, 1)
               /\ ReadStructure(used, window) = "DOWNTREND" => Climbs(swings, -1)
<1> DEFINE l == Len(swings)
           w == WindowSwings
           used == SubSeq(swings, l - w + 1, l)
           height == UpperLimit(used) - LowerLimit(used)
<1>1. w \in Nat /\ w >= 4 /\ l \in Nat /\ l >= w
    BY TrendAssumption DEF IsTrendParams
<1>2. /\ Len(used) = w /\ DOMAIN used = 1 .. w
      /\ \A n \in 1 .. w : used[n] = swings[l - w + n]
    <2>1. l - w + 1 \in 1 .. (l + 1)
        BY <1>1
    <2> HIDE DEF w
    <2>2. used \in Seq(S) /\ used = [n \in 1 .. (l - (l - w + 1) + 1) |-> swings[(l - w + 1) + n - 1]]
        BY <1>1, <2>1
    <2>3. l - (l - w + 1) + 1 = w /\ \A n \in 1 .. w : (l - w + 1) + n - 1 = l - w + n
        BY <1>1
    <2> HIDE DEF l, used
    <2>4. used = [n \in 1 .. w |-> swings[l - w + n]]
        BY <2>2, <2>3
    <2> QED
        BY <1>1, <2>4
<1>3. \A n \in 1 .. l : swings[n] \in S
    OBVIOUS
<1>4. \A n \in 1 .. w : /\ l - w + n \in 1 .. l
                        /\ used[n].kind \in PivotKind /\ used[n].price \in Int
    <2>1. \A n \in 1 .. w : l - w + n \in 1 .. l
        BY <1>1
    <2> HIDE DEF used, l, w
    <2> QED
        BY <1>2, <1>3, <2>1
<1>5. \A n \in 1 .. (w - 1) : used[n].kind # used[n + 1].kind
    <2>1. ASSUME NEW n \in 1 .. (w - 1)
          PROVE  used[n].kind # used[n + 1].kind
        <3>1. /\ l - w + n \in 1 .. (l - 1) /\ (l - w + n) + 1 = l - w + (n + 1)
              /\ n \in 1 .. w /\ n + 1 \in 1 .. w
            BY <1>1
        <3>2. \A m \in 1 .. (l - 1) : swings[m].kind # swings[m + 1].kind
            BY DEF Alternate
        <3> HIDE DEF used, w, l
        <3>3. swings[l - w + n].kind # swings[l - w + (n + 1)].kind
            BY <3>1, <3>2
        <3> QED
            BY <1>2, <3>1, <3>3
    <2> QED
        BY <2>1
<1> HIDE DEF used, l, w
<1>6. \A n \in 3 .. w : AreNeighbours(SideOfSwings(used, used[n].kind), n - 2, n)
                        /\ n \in SideOfSwings(used, used[n].kind)
                        /\ n - 2 \in SideOfSwings(used, used[n].kind)
    <2>1. ASSUME NEW n \in 3 .. w
          PROVE  AreNeighbours(SideOfSwings(used, used[n].kind), n - 2, n)
                        /\ n \in SideOfSwings(used, used[n].kind)
                        /\ n - 2 \in SideOfSwings(used, used[n].kind)
        <3>1. /\ n - 2 \in 1 .. (w - 1) /\ (n - 2) + 1 = n - 1
              /\ n - 1 \in 1 .. (w - 1) /\ (n - 1) + 1 = n /\ n \in 1 .. w
            BY <1>1
        <3>2. used[n - 2].kind # used[n - 1].kind /\ used[n - 1].kind # used[n].kind
            BY <1>5, <3>1
        <3>3. used[n - 2].kind = used[n].kind
            <4>1. n - 2 \in 1 .. w /\ n - 1 \in 1 .. w
                BY <1>1, <3>1
            <4>2. /\ used[n - 2].kind \in PivotKind /\ used[n - 1].kind \in PivotKind
                  /\ used[n].kind \in PivotKind
                BY <1>4, <3>1, <4>1
            <4> QED
                BY <3>2, <4>2 DEF PivotKind
        <3>4. n \in SideOfSwings(used, used[n].kind) /\ n - 2 \in SideOfSwings(used, used[n].kind)
            BY <1>2, <3>1, <3>3 DEF SideOfSwings
        <3>5. \A x \in SideOfSwings(used, used[n].kind) : x <= n - 2 \/ x >= n
            <4>1. ASSUME NEW x \in SideOfSwings(used, used[n].kind)
                  PROVE  x <= n - 2 \/ x >= n
                <5>1. x \in 1 .. w /\ x # n - 1
                    BY <1>2, <3>2 DEF SideOfSwings
                <5> QED
                    BY <5>1
            <4> QED
                BY <4>1
        <3> QED
            BY <3>4, <3>5 DEF AreNeighbours
    <2> QED
        BY <2>1
<1>7. \A kind \in PivotKind : SideOfSwings(used, kind) # {}
    <2>1. /\ w - 1 \in 1 .. w /\ w \in 1 .. w /\ w - 1 \in 1 .. (w - 1) /\ (w - 1) + 1 = w
          /\ w \in 3 .. w /\ w - 1 \in 3 .. w
        BY <1>1
    <2>2. used[w - 1].kind # used[w].kind
        BY <1>5, <2>1
    <2>3. \A kind \in PivotKind : kind = used[w].kind \/ kind = used[w - 1].kind
        BY <1>4, <2>1, <2>2 DEF PivotKind
    <2> QED
        BY <1>6, <2>1, <2>3
<1>8. height \in Int
    <2>1. Len(used) \in Nat /\ DOMAIN used = 1 .. Len(used)
        BY <1>1, <1>2
    <2>2. \A n \in DOMAIN used : used[n].price \in Int
        BY <1>2, <1>4
    <2> QED
        BY <1>7, <2>1, <2>2, HeightIsInt
<1>9. ASSUME NEW sign \in {1, -1}, height > 0,
             \A kind \in PivotKind : \A m, n \in SideOfSwings(used, kind) :
                AreNeighbours(SideOfSwings(used, kind), m, n) =>
                   IsStep(sign * (used[n].price - used[m].price), height)
      PROVE  Climbs(swings, sign)
    <2>1. ASSUME NEW n \in 3 .. w
          PROVE  sign * (used[n].price - used[n - 2].price) > 0
        <3> DEFINE d == sign * (used[n].price - used[n - 2].price)
        <3>1. n \in 1 .. w /\ n - 2 \in 1 .. w
            BY <1>1
        <3>2. used[n].kind \in PivotKind /\ used[n].price \in Int /\ used[n - 2].price \in Int
            BY <1>4, <3>1
        <3>3. d \in Int
            BY <3>2
        <3>4. IsStep(d, height)
            BY <1>6, <1>9, <3>2
        <3> HIDE DEF d, height
        <3> QED
            BY <1>8, <1>9, <3>3, <3>4, StepIsReal DEF d
    <2>2. /\ w \in 3 .. w /\ w - 1 \in 3 .. w /\ (w - 1) - 2 = w - 3
          /\ w - 3 \in 1 .. w /\ w - 2 \in 1 .. w /\ w - 1 \in 1 .. w /\ w \in 1 .. w
          /\ l - w + w = l /\ l - w + (w - 1) = l - 1 /\ l - w + (w - 2) = l - 2
          /\ l - w + (w - 3) = l - 3
        BY <1>1 DEF l, w
    <2>3. /\ used[w] = swings[l] /\ used[w - 1] = swings[l - 1]
          /\ used[w - 2] = swings[l - 2] /\ used[w - 3] = swings[l - 3]
        BY <1>2, <2>2
    <2>4. /\ sign * (used[w].price - used[w - 2].price) > 0
          /\ sign * (used[w - 1].price - used[w - 3].price) > 0
        BY <2>1, <2>2
    <2> QED
        BY <2>3, <2>4 DEF Climbs, l
<1> HIDE DEF height
<1> QED
    BY <1>9, TrendIsRead DEF used, height, l, w

\* What is left of some swings ends as they do.
LEMMA CutEndsAlike ==
    ASSUME NEW S, \A p \in S : p.kind \in PivotKind /\ p.price \in Int,
           NEW A, NEW kept, AreCut(S, A, kept), Len(A) >= 4
    PROVE  LET n == Len(A)
               r == Len(kept)
           IN  /\ n \in Nat /\ r \in Nat /\ r >= 3
               /\ kept[r] = A[n] /\ kept[r - 1] = A[n - 1] /\ kept[r - 2] = A[n - 2]
               /\ r >= 4 => /\ kept[r - 3].kind = A[n - 3].kind
                            /\ kept[r - 3].price \in Int
                            /\ ~Beyond(A[n - 3].kind, kept[r - 3].price, A[n - 3].price)
<1> DEFINE n == Len(A)
           r == Len(kept)
<1>1. /\ n \in Nat /\ r \in Nat /\ n >= 4
      /\ \A i \in 1 .. n : A[i] \in S
      /\ \A i \in 1 .. r : kept[i] \in S
    BY DEF AreCut
<1>2. \A i \in 1 .. r : kept[i].price \in Int
    BY <1>1
<1>3. \A kind, p : p \in Int => ~Beyond(kind, p, p)
    BY DEF Beyond
<1>4. CASE kept = A
    <2>1. r = n /\ n - 3 \in 1 .. r
        BY <1>1, <1>4
    <2> HIDE DEF n, r
    <2> QED
        BY <1>1, <1>2, <1>3, <1>4, <2>1 DEF n, r
<1>5. CASE n = r + 1 /\ \A i \in 1 .. r : kept[i] = A[i + 1]
    <2>1. /\ r \in 1 .. r /\ r - 1 \in 1 .. r /\ r - 2 \in 1 .. r /\ r >= 3
          /\ r + 1 = n /\ (r - 1) + 1 = n - 1 /\ (r - 2) + 1 = n - 2
        BY <1>1, <1>5
    <2>2. r >= 4 => r - 3 \in 1 .. r /\ (r - 3) + 1 = n - 3
        BY <1>1, <1>5
    <2> HIDE DEF n, r
    <2> QED
        BY <1>1, <1>2, <1>3, <1>5, <2>1, <2>2 DEF n, r
<1>6. CASE /\ n = r /\ \A i \in 2 .. r : kept[i] = A[i]
           /\ kept[1].kind = A[1].kind
           /\ ~Beyond(kept[1].kind, kept[1].price, A[1].price)
    <2>1. /\ r \in 2 .. r /\ r - 1 \in 2 .. r /\ r - 2 \in 2 .. r /\ r >= 4 /\ r = n
          /\ r - 3 \in 1 .. r /\ (r - 3 = 1 \/ r - 3 \in 2 .. r)
        BY <1>1, <1>6
    <2>2. CASE r - 3 = 1
        <3>1. n - 3 = 1
            BY <1>6, <2>2
        <3> HIDE DEF n, r
        <3>2. kept[r] = A[n] /\ kept[r - 1] = A[n - 1] /\ kept[r - 2] = A[n - 2]
            BY <1>6, <2>1
        <3>3. /\ kept[r - 3].kind = A[n - 3].kind
              /\ kept[r - 3].price \in Int
              /\ ~Beyond(A[n - 3].kind, kept[r - 3].price, A[n - 3].price)
            BY <1>2, <1>6, <2>1, <2>2, <3>1
        <3> QED
            BY <1>1, <2>1, <3>2, <3>3 DEF n, r
    <2>3. CASE r - 3 \in 2 .. r
        <3> HIDE DEF n, r
        <3>1. kept[r] = A[n] /\ kept[r - 1] = A[n - 1] /\ kept[r - 2] = A[n - 2]
            BY <1>6, <2>1
        <3>2. kept[r - 3] = A[n - 3] /\ kept[r - 3].price \in Int
            BY <1>2, <1>6, <2>1, <2>3
        <3> QED
            BY <1>1, <1>3, <2>1, <3>1, <3>2 DEF n, r
    <2> QED
        BY <2>1, <2>2, <2>3
<1> QED
    BY <1>4, <1>5, <1>6 DEF AreCut, Cut

\* Swings that rose do not fall once they moved, and the other way round: what they
\* took and lost does not turn both sides.
LEMMA NoFlip ==
    ASSUME NEW S, \A p \in S : p.kind \in PivotKind /\ p.price \in Int,
           NEW A, Alternate(A), Len(A) >= 4, NEW B, Len(B) >= 4, Moved(S, A, B),
           NEW sign \in {1, -1}, NEW other \in {1, -1} \ {sign}, Climbs(A, sign)
    PROVE  ~Climbs(B, other)
<1> DEFINE n == Len(A)
<1>1. PICK kept : /\ AreCut(S, A, kept)
                  /\ B = kept \/ \E z \in S : B = AddToSwings(kept, z)
    BY DEF Moved
<1> DEFINE r == Len(kept)
           m == Len(B)
<1>2. /\ n \in Nat /\ r \in Nat /\ r >= 3 /\ n >= 4
      /\ kept[r] = A[n] /\ kept[r - 1] = A[n - 1] /\ kept[r - 2] = A[n - 2]
      /\ r >= 4 => /\ kept[r - 3].kind = A[n - 3].kind
                   /\ kept[r - 3].price \in Int
                   /\ ~Beyond(A[n - 3].kind, kept[r - 3].price, A[n - 3].price)
    BY <1>1, CutEndsAlike
<1>3. /\ kept \in Seq(S)
      /\ n \in 1 .. n /\ n - 1 \in 1 .. n /\ n - 2 \in 1 .. n /\ n - 3 \in 1 .. n
      /\ \A i \in 1 .. n : A[i] \in S
    BY <1>1, <1>2 DEF AreCut
<1>4. /\ A[n].price \in Int /\ A[n - 1].price \in Int
      /\ A[n - 2].price \in Int /\ A[n - 3].price \in Int
      /\ A[n].kind \in PivotKind /\ A[n - 1].kind \in PivotKind
      /\ A[n - 2].kind \in PivotKind /\ A[n - 3].kind \in PivotKind
    <2> HIDE DEF n
    <2> QED
        BY <1>3
<1>5. A[n].kind # A[n - 1].kind /\ A[n - 3].kind # A[n - 2].kind /\ A[n - 2].kind # A[n - 1].kind
    <2>1. /\ n - 1 \in 1 .. (n - 1) /\ (n - 1) + 1 = n
          /\ n - 2 \in 1 .. (n - 1) /\ (n - 2) + 1 = n - 1
          /\ n - 3 \in 1 .. (n - 1) /\ (n - 3) + 1 = n - 2
        BY <1>2
    <2>2. \A i \in 1 .. (n - 1) : A[i].kind # A[i + 1].kind
        BY DEF Alternate
    <2> HIDE DEF n
    <2> QED
        BY <2>1, <2>2
<1>6. /\ sign * (A[n].price - A[n - 2].price) > 0
      /\ sign * (A[n - 1].price - A[n - 3].price) > 0
    BY DEF Climbs
<1>7. SUFFICES ASSUME Climbs(B, other)
               PROVE  FALSE
    OBVIOUS
<1>8. /\ other * (B[m].price - B[m - 2].price) > 0
      /\ other * (B[m - 1].price - B[m - 3].price) > 0
    BY <1>7 DEF Climbs
<1> HIDE DEF n, r, m
<1>9. \A d \in Int : sign * d > 0 => ~(other * d > 0)
    <2>1. CASE sign = 1 /\ other = -1
        BY <2>1
    <2>2. CASE sign = -1 /\ other = 1
        BY <2>2
    <2> QED
        BY <2>1, <2>2
<1>10. A[n].price - A[n - 2].price \in Int
    BY <1>4
<1>11. CASE B = kept
    <2>1. m = r /\ B[m] = A[n] /\ B[m - 2] = A[n - 2]
        BY <1>2, <1>11 DEF m, r
    <2> QED
        BY <1>6, <1>8, <1>9, <1>10, <2>1
<1>12. ASSUME NEW z \in S, B = AddToSwings(kept, z)
       PROVE  FALSE
    <2>1. Taken(kept, z, B)
        BY <1>3, <1>12, PivotIsTaken
    <2>2. CASE m = r + 1 /\ \A i \in 1 .. r : B[i] = kept[i]
        <3>1. /\ m - 1 = r /\ m - 3 = r - 2 /\ r \in 1 .. r /\ r - 2 \in 1 .. r
            BY <1>2, <2>2
        <3>2. B[m - 1] = A[n] /\ B[m - 3] = A[n - 2]
            BY <1>2, <2>2, <3>1
        <3> QED
            BY <1>6, <1>8, <1>9, <1>10, <3>2
    <2>3. CASE /\ m = r /\ B[m] = z /\ kept[r].kind = z.kind
               /\ Beyond(z.kind, z.price, kept[r].price)
               /\ \A i \in 1 .. r : i # r => B[i] = kept[i]
        <3>1. /\ m >= 4 /\ r >= 4
              /\ r - 1 \in 1 .. r /\ r - 2 \in 1 .. r /\ r - 3 \in 1 .. r
              /\ r - 1 # r /\ r - 2 # r /\ r - 3 # r
            BY <1>2, <2>3 DEF m
        <3>2. /\ B[m] = z /\ B[m - 1] = A[n - 1] /\ B[m - 2] = A[n - 2]
              /\ B[m - 3] = kept[r - 3]
            BY <1>2, <2>3, <3>1
        <3> DEFINE a == A[n].price
                   b == A[n - 1].price
                   c == A[n - 2].price
                   d == A[n - 3].price
                   e == kept[r - 3].price
                   x == z.price
        <3>3. a \in Int /\ b \in Int /\ c \in Int /\ d \in Int /\ e \in Int /\ x \in Int
            BY <1>2, <1>4, <3>1
        <3>4. /\ sign * (a - c) > 0 /\ sign * (b - d) > 0
              /\ other * (x - c) > 0 /\ other * (b - e) > 0
            BY <1>6, <1>8, <3>2
        <3>5. Beyond(A[n].kind, x, a) /\ ~Beyond(A[n - 3].kind, e, d)
            BY <1>2, <2>3, <3>1
        <3>6. A[n].kind # A[n - 3].kind
            BY <1>4, <1>5 DEF PivotKind
        <3>7. \/ A[n].kind = "HIGH" /\ A[n - 3].kind = "LOW"
              \/ A[n].kind = "LOW" /\ A[n - 3].kind = "HIGH"
            BY <1>4, <3>6 DEF PivotKind
        <3>8. \/ x > a /\ ~(e < d)
              \/ x < a /\ ~(e > d)
            BY <3>5, <3>7 DEF Beyond
        <3> HIDE DEF a, b, c, d, e, x
        <3>9. CASE sign = 1 /\ other = -1
            BY <3>3, <3>4, <3>8, <3>9
        <3>10. CASE sign = -1 /\ other = 1
            BY <3>3, <3>4, <3>8, <3>10
        <3> QED
            BY <3>9, <3>10
    <2>4. CASE B = kept
        BY <1>11, <2>4
    <2> QED
        BY <1>2, <2>1, <2>2, <2>3, <2>4 DEF Taken, r, m
<1> QED
    BY <1>1, <1>11, <1>12

\* The newest of some numbers, once a later one has come: it is one of them, and
\* only the earliest may have left.
LEMMA NewestMove ==
    ASSUME NEW D \in SUBSET Nat, IsFiniteSet(D), NEW c \in Nat, \A i \in D : i < c,
           NEW size \in Nat \ {0}
    PROVE  LET was == Newest(D, size)
               is == Newest(D \cup {c}, size)
           IN  /\ c \in is
               /\ \A i \in is : i # c => i \in was
               /\ \A i \in was \ is : \A j \in was : i <= j
<1> DEFINE above(i) == {j \in D : j > i}
           more(i) == {j \in D \cup {c} : j > i}
           was == Newest(D, size)
           is == Newest(D \cup {c}, size)
<1>1. ASSUME NEW i
      PROVE  above(i) \in SUBSET D /\ IsFiniteSet(above(i)) /\ Cardinality(above(i)) \in Nat
    <2>1. above(i) \in SUBSET D
        OBVIOUS
    <2> HIDE DEF above
    <2> QED
        BY <2>1, FS_Subset, FS_CardinalityType
<1>2. ASSUME NEW i \in D
      PROVE  Cardinality(more(i)) = Cardinality(above(i)) + 1
    <2>1. c \notin D /\ i < c
        OBVIOUS
    <2>2. \A j : j \in more(i) <=> j \in above(i) \cup {c}
        BY <2>1
    <2>3. more(i) = above(i) \cup {c} /\ c \notin above(i)
        <3>1. c \notin above(i)
            BY <2>1
        <3> HIDE DEF more, above
        <3> QED
            BY <2>2, <3>1
    <2> HIDE DEF above, more
    <2> QED
        BY <1>1, <2>3, FS_AddElement
<1>3. Cardinality(more(c)) = 0
    <2>1. \A j \in D \cup {c} : ~(j > c)
        <3>1. \A j \in D : j \in Nat /\ j < c
            OBVIOUS
        <3>2. ~(c > c)
            OBVIOUS
        <3>3. \A j \in D : ~(j > c)
            BY <3>1
        <3> QED
            BY <3>2, <3>3
    <2>2. more(c) = {}
        BY <2>1, Zenon
    <2> QED
        BY <2>2, FS_EmptySet
<1>4. /\ \A i : i \in was <=> i \in D /\ Cardinality(above(i)) < size
      /\ \A i : i \in is <=> i \in D \cup {c} /\ Cardinality(more(i)) < size
    BY DEF Newest
<1> HIDE DEF above, more, was, is
<1>5. c \in is
    BY <1>3, <1>4
<1>6. \A i \in is : i # c => i \in was
    <2>1. ASSUME NEW i \in is, i # c
          PROVE  i \in was
        <3>1. i \in D /\ Cardinality(above(i)) + 1 < size
            BY <1>2, <1>4, <2>1
        <3>2. Cardinality(above(i)) < size
            BY <1>1, <3>1
        <3> QED
            BY <1>4, <3>1, <3>2
    <2> QED
        BY <2>1
<1>7. ASSUME NEW i \in was, i \notin is, NEW j \in was, j < i
      PROVE  FALSE
    <2>1. /\ i \in D /\ j \in D
          /\ Cardinality(above(i)) < size /\ Cardinality(above(j)) < size
          /\ ~(Cardinality(above(i)) + 1 < size)
        BY <1>2, <1>4, <1>7
    <2>2. above(i) \cup {i} \in SUBSET above(j) /\ i \notin above(i)
        <3>1. i \in Nat /\ j \in Nat /\ ~(i > i) /\ i > j
            BY <1>7, <2>1
        <3>2. ASSUME NEW k \in above(i)
              PROVE  k \in above(j)
            <4>1. k \in D /\ k \in Nat /\ k > i
                BY <3>2 DEF above
            <4>2. k > j
                BY <3>1, <4>1
            <4> QED
                BY <4>1, <4>2 DEF above
        <3>3. i \in above(j) /\ i \notin above(i)
            BY <2>1, <3>1 DEF above
        <3> QED
            BY <3>2, <3>3
    <2>3. Cardinality(above(i) \cup {i}) = Cardinality(above(i)) + 1
        BY <1>1, <2>2, FS_AddElement
    <2>4. Cardinality(above(i) \cup {i}) <= Cardinality(above(j))
        BY <1>1, <2>2, FS_Subset
    <2> QED
        BY <1>1, <2>1, <2>3, <2>4
<1>8. \A i \in was \ is : \A j \in was : i <= j
    <2>1. was \in SUBSET Nat
        BY <1>4
    <2> QED
        BY <1>7, <2>1
<1> QED
    BY <1>5, <1>6, <1>8 DEF was, is

\* The series of some candles is that of the same and a later one, without it.
LEMMA SeriesGoesOn ==
    ASSUME NEW candles \in Seq(ClosedCandle), NEW c \in ClosedCandle,
           AreInOrder(Append(candles, c))
    PROVE  LET cs == SeriesOf(candles)
               more == SeriesOf(Append(candles, c))
           IN  /\ DOMAIN more = DOMAIN cs \cup {c.at}
               /\ \A i \in DOMAIN cs : i < c.at /\ more[i] = cs[i]
<1> DEFINE longer == Append(candles, c)
           l == Len(candles)
<1>1. /\ longer \in Seq(ClosedCandle) /\ l \in Nat
      /\ DOMAIN longer = 1 .. (l + 1) /\ DOMAIN candles = 1 .. l
      /\ longer[l + 1] = c /\ \A n \in 1 .. l : longer[n] = candles[n]
    OBVIOUS
<1> HIDE DEF longer, l
<1>2. Ats(longer) = Ats(candles) \cup {c.at}
    <2>1. \A n \in 1 .. l : n \in 1 .. (l + 1)
        BY <1>1
    <2>2. \A n \in 1 .. (l + 1) : n = l + 1 \/ n \in 1 .. l
        BY <1>1
    <2>3. l + 1 \in 1 .. (l + 1)
        BY <1>1
    <2> QED
        BY <1>1, <2>1, <2>2, <2>3 DEF Ats
<1>3. /\ DOMAIN SeriesOf(candles) = Ats(candles)
      /\ \A i \in Ats(candles) : /\ PositionOf(candles, i) \in DOMAIN candles
                                 /\ candles[PositionOf(candles, i)].at = i
    BY SeriesAre
<1>4. /\ DOMAIN SeriesOf(longer) = Ats(longer)
      /\ \A i \in Ats(longer) : /\ PositionOf(longer, i) \in DOMAIN longer
                                /\ longer[PositionOf(longer, i)].at = i
    BY <1>1, SeriesAre
<1>5. ASSUME NEW i \in Ats(candles)
      PROVE  i < c.at /\ SeriesOf(longer)[i] = SeriesOf(candles)[i]
    <2> DEFINE m == PositionOf(candles, i)
               n == PositionOf(longer, i)
    <2>1. /\ m \in 1 .. l /\ candles[m].at = i /\ longer[m] = candles[m]
          /\ n \in 1 .. (l + 1) /\ longer[n].at = i
        BY <1>1, <1>2, <1>3, <1>4
    <2>2. /\ m \in 1 .. (l + 1) /\ l + 1 \in 1 .. (l + 1) /\ m < l + 1
          /\ m < n \/ n < m \/ m = n
        BY <1>1, <2>1
    <2>3. \A a, b \in 1 .. (l + 1) : a < b => longer[a].at < longer[b].at
        BY <1>1 DEF AreInOrder, longer
    <2>4. i \in Nat
        <3>1. candles[m] \in ClosedCandle
            BY <1>1, <2>1, CandlesAre
        <3> QED
            BY <2>1, <3>1, CandlesAre
    <2>5. SeriesOf(longer)[i] = longer[n] /\ SeriesOf(candles)[i] = candles[m]
        BY <1>2, <1>3, <1>4 DEF SeriesOf, Ats
    <2> HIDE DEF m, n
    <2>6. i < c.at
        BY <1>1, <2>1, <2>2, <2>3
    <2>7. m = n
        <3>1. ~(i < i)
            BY <2>4
        <3> QED
            BY <2>1, <2>2, <2>3, <3>1
    <2> QED
        BY <2>1, <2>5, <2>6, <2>7
<1> QED
    BY <1>2, <1>3, <1>4, <1>5 DEF longer

\* A part of a series is one.
LEMMA WindowIsSeries ==
    ASSUME NEW cs, IsSeries(cs)
    PROVE  /\ IsSeries(TrendWindow(cs))
           /\ DOMAIN TrendWindow(cs) = Newest(DOMAIN cs, TrendHistory)
           /\ \A i \in DOMAIN TrendWindow(cs) : i \in DOMAIN cs /\ TrendWindow(cs)[i] = cs[i]
<1>1. Newest(DOMAIN cs, TrendHistory) \subseteq DOMAIN cs
    BY DEF Newest
<1>2. /\ DOMAIN TrendWindow(cs) = Newest(DOMAIN cs, TrendHistory)
      /\ \A i \in DOMAIN TrendWindow(cs) : i \in DOMAIN cs /\ TrendWindow(cs)[i] = cs[i]
    BY <1>1 DEF TrendWindow
<1>3. PICK n \in Nat : DOMAIN cs \subseteq 0 .. n
    BY DEF IsSeries
<1>4. DOMAIN TrendWindow(cs) \subseteq 0 .. n
    BY <1>2, <1>3
<1>5. \A i \in DOMAIN TrendWindow(cs) : TrendWindow(cs)[i].low \in Int /\ TrendWindow(cs)[i].high \in Int
    BY <1>2 DEF IsSeries
<1> QED
    BY <1>2, <1>4, <1>5 DEF IsSeries

\* The window of the trend moves on with every candle.
LEMMA TrendWindowMoves ==
    ASSUME NEW candles \in Seq(ClosedCandle), NEW c \in ClosedCandle,
           AreInOrder(Append(candles, c))
    PROVE  MovesOn(TrendWindow(SeriesOf(candles)), TrendWindow(SeriesOf(Append(candles, c))))
<1> DEFINE cs == SeriesOf(candles)
           more == SeriesOf(Append(candles, c))
           was == TrendWindow(cs)
           is == TrendWindow(more)
<1>1. Append(candles, c) \in Seq(ClosedCandle) /\ c.at \in Nat
    BY CandlesAre
<1>2. IsSeries(cs) /\ IsSeries(more)
    <2>1. IsSeries(cs)
        BY SeriesAre
    <2>2. IsSeries(more)
        BY <1>1, SeriesAre
    <2> QED
        BY <2>1, <2>2
<1>3. /\ DOMAIN more = DOMAIN cs \cup {c.at}
      /\ \A i \in DOMAIN cs : i < c.at /\ more[i] = cs[i]
    BY SeriesGoesOn
<1> HIDE DEF cs, more
<1>4. /\ DOMAIN was = Newest(DOMAIN cs, TrendHistory)
      /\ \A i \in DOMAIN was : i \in DOMAIN cs /\ was[i] = cs[i]
      /\ DOMAIN is = Newest(DOMAIN more, TrendHistory)
      /\ \A i \in DOMAIN is : i \in DOMAIN more /\ is[i] = more[i]
    BY <1>2, WindowIsSeries
<1>5. DOMAIN cs \in SUBSET Nat /\ IsFiniteSet(DOMAIN cs)
    BY <1>2, IndicesOfSeries
<1> HIDE DEF was, is
<1>6. /\ c.at \in DOMAIN is
      /\ \A i \in DOMAIN is : i # c.at => i \in DOMAIN was
      /\ \A i \in DOMAIN was \ DOMAIN is : \A j \in DOMAIN was : i <= j
    <2>1. TrendHistory \in Nat \ {0}
        BY TrendAssumption
    <2>2. \A i \in DOMAIN cs : i < c.at
        BY <1>3
    <2> DEFINE D == DOMAIN cs
               at == c.at
    <2>3. D \in SUBSET Nat /\ IsFiniteSet(D) /\ at \in Nat /\ \A i \in D : i < at
        BY <1>1, <1>5, <2>2
    <2>4. DOMAIN was = Newest(D, TrendHistory) /\ DOMAIN is = Newest(D \cup {at}, TrendHistory)
        BY <1>3, <1>4
    <2> HIDE DEF D, at
    <2>5. /\ at \in DOMAIN is
          /\ \A i \in DOMAIN is : i # at => i \in DOMAIN was
          /\ \A i \in DOMAIN was \ DOMAIN is : \A j \in DOMAIN was : i <= j
        BY <2>1, <2>3, <2>4, NewestMove
    <2> QED
        BY <2>5 DEF at
<1>7. \A i \in DOMAIN was : i < c.at
    BY <1>3, <1>4
<1>8. \A i \in DOMAIN is : i # c.at => is[i] = was[i]
    BY <1>3, <1>4, <1>6
<1> QED
    BY <1>6, <1>7, <1>8 DEF MovesOn, was, is, cs, more

\* The swings of a series: its pivots, by turns of the two kinds.
LEMMA SwingsAlternate ==
    ASSUME NEW cs, IsSeries(cs)
    PROVE  /\ SwingsOf(cs) \in Seq(Singles(cs))
           /\ Alternate(SwingsOf(cs))
           /\ \A p \in Singles(cs) : p.kind \in PivotKind /\ p.price \in Int
<1>1. Built(Singles(cs), SwingsOf(cs))
    BY SwingsAreBuilt
<1>2. \A p \in Singles(cs) : p.kind \in PivotKind /\ p.price \in Int
    BY SinglesAre
<1> QED
    BY <1>1, <1>2 DEF Built, Alternate

\* A trend is read from swings that climb.
LEMMA TrendOfClimbs ==
    ASSUME NEW cs, IsSeries(cs), NEW t
    PROVE  LET swings == SwingsOf(TrendWindow(cs))
           IN  /\ ClassifyTrend(cs, t) = "UPTREND" => Len(swings) >= 4 /\ Climbs(swings, 1)
               /\ ClassifyTrend(cs, t) = "DOWNTREND" => Len(swings) >= 4 /\ Climbs(swings, -1)
<1> DEFINE window == TrendWindow(cs)
           swings == SwingsOf(window)
           used == SubSeq(swings, Len(swings) - WindowSwings + 1, Len(swings))
           read == ReadStructure(used, window)
           few == \/ MissingDataReasons(DOMAIN cs, t, TrendHistory) # {}
                  \/ Len(swings) < WindowSwings
<1>1. ClassifyTrend(cs, t) = IF few THEN "INSUFFICIENT_DATA" ELSE read
    BY DEF ClassifyTrend, TrendSwings, SwingsOf
<1>2. ASSUME ~few
      PROVE  /\ Len(swings) >= 4
             /\ read = "UPTREND" => Climbs(swings, 1)
             /\ read = "DOWNTREND" => Climbs(swings, -1)
    <2>1. IsSeries(window)
        BY WindowIsSeries
    <2>2. /\ swings \in Seq(Singles(window)) /\ Alternate(swings)
          /\ \A p \in Singles(window) : p.kind \in PivotKind /\ p.price \in Int
        <3> HIDE DEF window
        <3> QED
            BY <2>1, SwingsAlternate
    <2>3. ~(Len(swings) < WindowSwings)
        BY <1>2
    <2> HIDE DEF swings
    <2>4. Len(swings) \in Nat /\ WindowSwings \in Nat /\ WindowSwings >= 4
        BY <2>2, TrendAssumption DEF IsTrendParams
    <2>5. Len(swings) >= WindowSwings /\ Len(swings) >= 4
        BY <2>3, <2>4
    <2> HIDE DEF window
    <2> QED
        BY <2>2, <2>5, TrendClimbs
<1> HIDE DEF few, read, swings
<1> QED
    BY <1>1, <1>2 DEF swings, window

\* One more candle does not turn a trend round.
LEMMA TrendIsNotTurned ==
    ASSUME NEW candles \in Seq(ClosedCandle), NEW c \in ClosedCandle,
           AreInOrder(Append(candles, c)), NEW s, NEW t
    PROVE  LET before == ClassifyTrend(SeriesOf(candles), s)
               after == ClassifyTrend(SeriesOf(Append(candles, c)), t)
           IN  /\ ~(before = "UPTREND" /\ after = "DOWNTREND")
               /\ ~(before = "DOWNTREND" /\ after = "UPTREND")
<1> DEFINE cs == SeriesOf(candles)
           more == SeriesOf(Append(candles, c))
           was == TrendWindow(cs)
           is == TrendWindow(more)
           S == Singles(was) \cup Singles(is)
<1>1. IsSeries(cs) /\ IsSeries(more)
    <2>1. IsSeries(cs)
        BY SeriesAre
    <2>2. IsSeries(more)
        BY SeriesAre, Append(candles, c) \in Seq(ClosedCandle)
    <2> QED
        BY <2>1, <2>2
<1>2. MovesOn(was, is)
    BY TrendWindowMoves
<1> HIDE DEF cs, more
<1>3. IsSeries(was) /\ IsSeries(is)
    BY <1>1, WindowIsSeries
<1>4. /\ ClassifyTrend(cs, s) = "UPTREND" => Len(SwingsOf(was)) >= 4 /\ Climbs(SwingsOf(was), 1)
      /\ ClassifyTrend(cs, s) = "DOWNTREND" => Len(SwingsOf(was)) >= 4 /\ Climbs(SwingsOf(was), -1)
      /\ ClassifyTrend(more, t) = "UPTREND" => Len(SwingsOf(is)) >= 4 /\ Climbs(SwingsOf(is), 1)
      /\ ClassifyTrend(more, t) = "DOWNTREND" => Len(SwingsOf(is)) >= 4 /\ Climbs(SwingsOf(is), -1)
    BY <1>1, TrendOfClimbs
<1> HIDE DEF was, is
<1>5. Moved(S, SwingsOf(was), SwingsOf(is))
    BY <1>2, <1>3, SwingsOfWindowMove
<1>6. /\ Alternate(SwingsOf(was))
      /\ \A p \in S : p.kind \in PivotKind /\ p.price \in Int
    BY <1>3, SwingsAlternate
<1> HIDE DEF S
<1>7. ASSUME NEW sign \in {1, -1}, NEW other \in {1, -1} \ {sign},
             Len(SwingsOf(was)) >= 4, Climbs(SwingsOf(was), sign), Len(SwingsOf(is)) >= 4
      PROVE  ~Climbs(SwingsOf(is), other)
    BY <1>5, <1>6, <1>7, NoFlip
<1>8. 1 \in {1, -1} \ {-1} /\ -1 \in {1, -1} \ {1}
    OBVIOUS
<1>9. ASSUME ClassifyTrend(cs, s) = "UPTREND", ClassifyTrend(more, t) = "DOWNTREND"
      PROVE  FALSE
    BY <1>4, <1>7, <1>8, <1>9
<1>10. ASSUME ClassifyTrend(cs, s) = "DOWNTREND", ClassifyTrend(more, t) = "UPTREND"
       PROVE  FALSE
    BY <1>4, <1>7, <1>8, <1>10
<1> QED
    BY <1>9, <1>10 DEF cs, more

-----------------------------------------------------------------------------
(* Theorems *)

\* What has closed is in order and before now; every figure is of a kind that is
\* looked for, with evaluations dated by now; every location is that of a pattern
\* still on record, told from that pattern's instant on.
THEOREM ReplayIsConsistent == CandleSpec => []ReplayInv
<1>1. CandleInit => ReplayInv
    <2>1. SUFFICES ASSUME CandleInit
                   PROVE  ReplayInv
        OBVIOUS
    <2>2. /\ opening \in Openings /\ now = 0 /\ closed = <<>> /\ figures = <<>>
          /\ places = <<>> /\ raised = FALSE
        BY <2>1 DEF CandleInit, Init
    <2>3. DOMAIN <<>> = {} /\ <<>> \in Seq(ClosedCandle)
        OBVIOUS
    <2> QED
        BY <2>2, <2>3 DEF ReplayInv, ClosedOK, FiguresOK, PlacesOK, AreInOrder,
                           OnlyTwinsEndAReplay
<1>2. ReplayInv /\ [CandleNext]_candleVars => ReplayInv'
    BY InvIsKept
<1> QED
    BY <1>1, <1>2, PTL DEF CandleSpec

\* update_instances and PatternEvaluation: whatever the candles, the detectors'
\* parameters and what is missing or late, nothing that a detector finds is refused
\* and every open figure can be ended or paused, so a replay fails for one reason
\* only: two candidates of one identity at one instant.
THEOREM OnlyTwinsEnd == CandleSpec => []OnlyTwinsEndAReplay
BY ReplayIsConsistent, PTL DEF ReplayInv

\* hypothesis_for and known_at_of: a claim is operable only if every candle of the
\* figure had been received before the candle that broke out opened, for every
\* series and every order and delay in which its candles came.
THEOREM OperableClaimsWereReceived == CandleSpec => []OperableWasReceived
<1>1. CandleInit => AllReceived
    <2>1. SUFFICES ASSUME CandleInit
                   PROVE  AllReceived
        OBVIOUS
    <2>2. figures = <<>> /\ DOMAIN <<>> = {}
        BY <2>1 DEF CandleInit, Init
    <2> QED
        BY <2>2 DEF AllReceived
<1>2. ReplayInv /\ AllReceived /\ [CandleNext]_candleVars => AllReceived'
    BY ReceivedIsKept
<1>3. ReplayInv /\ AllReceived => OperableWasReceived
    BY ReceivedIsEnough DEF ReplayInv
<1> QED
    BY <1>1, <1>2, <1>3, ReplayIsConsistent, PTL DEF CandleSpec

\* PatternInstance and update_instances: what was said of a figure stays said, for
\* every series, every set of detectors and all their thresholds.  Evaluations are
\* only added, later than the last, with its anchors and perhaps more, and none
\* after one that ends the figure.
THEOREM FiguresStayAsTold == CandleSpec => FiguresAreNeverRewritten
<1>1. ReplayInv /\ [CandleNext]_candleVars =>
         [\A id \in DOMAIN figures : GoesOn(figures[id], figures'[id])]_vars
    <2>1. SUFFICES ASSUME ReplayInv, [CandleNext]_candleVars
                   PROVE  [\A id \in DOMAIN figures : GoesOn(figures[id], figures'[id])]_vars
        OBVIOUS
    <2>2. CASE NextClose
        BY <2>1, <2>2, ClosesKeep
    <2>3. CASE UNCHANGED <<opening, now, closed, figures>>
        <3>1. \A id \in DOMAIN figures : IsHistory(figures[id], CloseTime(now - 1))
            BY <2>1 DEF ReplayInv, FiguresOK
        <3>2. \A id \in DOMAIN figures : GoesOn(figures[id], figures[id])
            BY <3>1, GoesOnAsItIs DEF IsHistory
        <3> QED
            BY <2>3, <3>2
    <2>4. CASE Locate
        BY <2>3, <2>4 DEF Locate
    <2>5. CASE UNCHANGED candleVars
        BY <2>3, <2>5 DEF candleVars
    <2> QED
        BY <2>1, <2>2, <2>4, <2>5 DEF CandleNext
<1>2. [\A id \in DOMAIN figures : GoesOn(figures[id], figures'[id])]_vars
        <=> [\A id \in DOMAIN figures :
                LET before == figures[id]
                    after == figures'[id]
                IN  /\ IsPrefix(before, after)
                    /\ IsTerminal(before) => after = before
                    /\ \A n \in (Len(before) + 1) .. Len(after) :
                          /\ after[n].at > after[n - 1].at
                          /\ IsPrefix(after[n - 1].anchors, after[n].anchors)]_vars
    BY Zenon DEF GoesOn
<1> QED
    BY <1>1, <1>2, ReplayIsConsistent, PTL DEF CandleSpec, FiguresAreNeverRewritten

\* detect_single_candle_patterns, and those of two candles and three: what was
\* read stays as more candles close, ambiguous geometries alike.
THEOREM ReadingsStand == CandleSpec => ReadingsAreNotRevised
<1>1. ReplayInv /\ [CandleNext]_candleVars =>
         [/\ Spotted(closed) \subseteq Spotted(closed')
          /\ AmbiguousOf(closed) \subseteq AmbiguousOf(closed')]_candleVars
    <2>1. SUFFICES ASSUME ReplayInv, [CandleNext]_candleVars
                   PROVE  /\ Spotted(closed) \subseteq Spotted(closed')
                          /\ AmbiguousOf(closed) \subseteq AmbiguousOf(closed')
        OBVIOUS
    <2>2. closed' = closed \/ \E c \in ClosedCandle : closed' = Append(closed, c)
        <3>1. CASE NextClose
            BY <2>1, <3>1, ClosesKeep
        <3>2. CASE Locate
            BY <3>2 DEF Locate
        <3>3. CASE UNCHANGED candleVars
            BY <3>3 DEF candleVars
        <3> QED
            BY <2>1, <3>1, <3>2, <3>3 DEF CandleNext
    <2>3. /\ CandlePatternsOf(closed) \subseteq CandlePatternsOf(closed')
          /\ AmbiguousOf(closed) \subseteq AmbiguousOf(closed')
        BY <2>1, <2>2, ReadingsStay DEF ReplayInv, ClosedOK
    <2> QED
        BY <2>3 DEF Spotted
<1> QED
    BY <1>1, ReplayIsConsistent, PTL DEF CandleSpec, ReadingsAreNotRevised

\* hypothesis_for: once its location was told, the claim of a pattern is what it
\* will be: patterns that close later, and levels and data that arrive later, do
\* not reach back into it.
THEOREM ClaimsStand == CandleSpec => CandleClaimsAreSettled
<1>1. ReplayInv /\ [CandleNext]_candleVars =>
         [\A p \in Spotted(closed) :
             PatternId(p) \in DOMAIN places =>
                ClaimOf(p, CandlePatternsOf(closed'), places')
                  = ClaimOf(p, CandlePatternsOf(closed), places)]_candleVars
    <2>1. SUFFICES ASSUME ReplayInv, [CandleNext]_candleVars, NEW p \in Spotted(closed),
                          PatternId(p) \in DOMAIN places
                   PROVE  ClaimOf(p, CandlePatternsOf(closed'), places')
                            = ClaimOf(p, CandlePatternsOf(closed), places)
        OBVIOUS
    <2> DEFINE id == PatternId(p)
    <2>2. SUFFICES /\ RelatedCandles(p, CandlePatternsOf(closed'))
                        = RelatedCandles(p, CandlePatternsOf(closed))
                   /\ id \in DOMAIN places'
                   /\ LocationAsOf(places'[id], p.at) = LocationAsOf(places[id], p.at)
        BY <2>1, ClaimDependsOn DEF ClaimOf
    <2>3. CASE NextClose
        <3>1. places' = places
            BY <2>1, <2>3, ClosesKeep
        <3>2. CASE closed' = closed
            BY <2>1, <3>1, <3>2
        <3>3. CASE \E c \in ClosedCandle : c.at = now /\ closed' = Append(closed, c)
            <4>1. PICK c \in ClosedCandle : c.at = now /\ closed' = Append(closed, c)
                BY <3>3
            <4>2. ClosedOK /\ closed \in Seq(ClosedCandle) /\ p \in CandlePatternsOf(closed)
                BY <2>1 DEF ReplayInv, ClosedOK, Spotted
            <4>3. /\ CandlePatternsOf(closed) \subseteq CandlePatternsOf(closed')
                  /\ \A q \in CandlePatternsOf(closed') \ CandlePatternsOf(closed) :
                        q.at = CloseTime(now)
                BY <4>1, <4>2, ReadingsStay
            <4>4. p.at \in Int /\ CloseTime(now) \in Int /\ p.at < CloseTime(now)
                <5>1. now \in Int
                    BY <4>2 DEF ClosedOK
                <5> QED
                    BY <4>2, <5>1, SpottedAreTold, TicksPass
            <4>5. ~(CloseTime(now) <= p.at)
                BY <4>4
            <4>6. RelatedCandles(p, CandlePatternsOf(closed'))
                    = RelatedCandles(p, CandlePatternsOf(closed))
                BY <4>3, <4>5, LaterAreNotRelated
            <4> QED
                BY <2>1, <3>1, <4>6
        <3> QED
            BY <2>1, <2>3, <3>2, <3>3, ClosesKeep
    <2>4. CASE Locate
        BY <2>1, <2>4, LocateKeeps
    <2>5. CASE UNCHANGED candleVars
        BY <2>1, <2>5 DEF candleVars
    <2> QED
        BY <2>1, <2>3, <2>4, <2>5 DEF CandleNext
<1> QED
    BY <1>1, ReplayIsConsistent, PTL DEF CandleSpec, CandleClaimsAreSettled

\* classify_trend: whatever the thresholds, the window and the series, one more
\* candle never turns an uptrend into a downtrend, nor back: a window that moves by
\* a candle loses at most its first swing and gains at most its last, and that
\* cannot turn both sides.
THEOREM TrendStands == CandleSpec => TrendNeverFlips
<1>1. ReplayInv /\ [CandleNext]_candleVars =>
         [{TrendOf(closed), TrendOf(closed')} # {"UPTREND", "DOWNTREND"}]_candleVars
    <2>1. SUFFICES ASSUME ReplayInv, [CandleNext]_candleVars
                   PROVE  {TrendOf(closed), TrendOf(closed')} # {"UPTREND", "DOWNTREND"}
        OBVIOUS
    <2>2. ClosedOK /\ closed \in Seq(ClosedCandle)
        BY <2>1 DEF ReplayInv, ClosedOK
    <2>3. CASE closed' = closed
        <3>1. {TrendOf(closed), TrendOf(closed')} = {TrendOf(closed)}
            BY <2>3
        <3> QED
            BY <3>1
    <2>4. ASSUME NEW c \in ClosedCandle, c.at = now, closed' = Append(closed, c)
          PROVE  {TrendOf(closed), TrendOf(closed')} # {"UPTREND", "DOWNTREND"}
        <3>1. AreInOrder(Append(closed, c))
            BY <2>2, <2>4, OrderIsKept
        <3>2. closed' # <<>>
            BY <2>2, <2>4
        <3>3. TrendOf(closed') = ClassifyTrend(SeriesOf(Append(closed, c)), CloseTime(Last(closed').at))
            BY <2>4, <3>2 DEF TrendOf
        <3>4. CASE closed = <<>>
            BY <3>4 DEF TrendOf
        <3>5. CASE closed # <<>>
            <4>1. TrendOf(closed) = ClassifyTrend(SeriesOf(closed), CloseTime(Last(closed).at))
                BY <3>5 DEF TrendOf
            <4>2. /\ ~(TrendOf(closed) = "UPTREND" /\ TrendOf(closed') = "DOWNTREND")
                  /\ ~(TrendOf(closed) = "DOWNTREND" /\ TrendOf(closed') = "UPTREND")
                BY <2>2, <3>1, <3>3, <4>1, TrendIsNotTurned
            <4> QED
                BY <4>2
        <3> QED
            BY <3>4, <3>5
    <2>5. CASE NextClose
        BY <2>1, <2>3, <2>4, <2>5, ClosesKeep
    <2>6. CASE Locate
        BY <2>3, <2>6 DEF Locate
    <2>7. CASE UNCHANGED candleVars
        BY <2>3, <2>7 DEF candleVars
    <2> QED
        BY <2>1, <2>5, <2>6, <2>7 DEF CandleNext
<1> QED
    BY <1>1, ReplayIsConsistent, PTL DEF CandleSpec, TrendNeverFlips

=============================================================================
