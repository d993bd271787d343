-------------------------- MODULE MarketStructure ---------------------------
(***************************************************************************)
(* Pivots and swing points of a series (domain/market_structure.py).       *)
(*                                                                         *)
(* A series is a function from the indices of its candles, which may have  *)
(* holes, to records with a low, a high and a close.  Candles of the code  *)
(* are sorted by open_time; here the index sorts them.                     *)
(***************************************************************************)
EXTENDS Integers, FiniteSets, SequencesExt

CONSTANT K   \* candles needed on each side of a pivot: PivotParams.k

ASSUME PivotAssumption == K \in Nat \ {0}

PivotKind == {"HIGH", "LOW"}
PivotStatus == {"PROVISIONAL", "CONFIRMED"}

\* The side of a candle a pivot of this kind is about.
Extreme(kind, candle) == IF kind = "HIGH" THEN candle.high ELSE candle.low

\* Price p lies strictly further out than price q.
Beyond(kind, p, q) == IF kind = "HIGH" THEN p > q ELSE p < q

-----------------------------------------------------------------------------
(* detect_pivots *)

\* How many candles to the right are known, K at most.
RightSide(candles, i) ==
    Min({K, Cardinality({j \in DOMAIN candles : j > i})})

\* No candle is missing in the neighbourhood that is known.
Contiguous(candles, i) ==
    (i - K) .. (i + RightSide(candles, i)) \subseteq DOMAIN candles

\* Strictly beyond everything on the left, at least level on the right: a
\* plateau yields one pivot, its first candle.
IsPivot(candles, i, kind) ==
    LET price == Extreme(kind, candles[i])
    IN  /\ Contiguous(candles, i)
        /\ \A j \in (i - K) .. (i - 1) :
              Beyond(kind, price, Extreme(kind, candles[j]))
        /\ \A j \in (i + 1) .. (i + RightSide(candles, i)) :
              ~Beyond(kind, Extreme(kind, candles[j]), price)

\* Mistake: a pivot counts before the candles on its right have closed.
DetectPivotsEarly(candles) ==
    {[kind |-> p[2], status |-> "CONFIRMED", at |-> p[1],
      price |-> Extreme(p[2], candles[p[1]])] :
        p \in {x \in (DOMAIN candles) \X PivotKind :
                  IsPivot(candles, x[1], x[2])}}

DetectPivots(candles) ==
    {[kind |-> p[2],
      status |-> IF RightSide(candles, p[1]) = K
                 THEN "CONFIRMED" ELSE "PROVISIONAL",
      at |-> p[1],
      price |-> Extreme(p[2], candles[p[1]])] :
        p \in {x \in (DOMAIN candles) \X PivotKind :
                  IsPivot(candles, x[1], x[2])}}

Confirmed(pivots) == {p \in pivots : p.status = "CONFIRMED"}

-----------------------------------------------------------------------------
(* swing_points *)

\* Mistake: a later pivot replaces an equal one.
AddLatestToSwings(swings, pivot) ==
    IF swings = <<>> \/ Last(swings).kind # pivot.kind
    THEN Append(swings, pivot)
    ELSE IF ~Beyond(pivot.kind, Last(swings).price, pivot.price)
    THEN [swings EXCEPT ![Len(swings)] = pivot]
    ELSE swings

\* A pivot either starts a new swing or competes with the last one of its
\* kind; on a tie the earlier stays.
AddToSwings(swings, pivot) ==
    IF swings = <<>> \/ Last(swings).kind # pivot.kind
    THEN Append(swings, pivot)
    ELSE IF Beyond(pivot.kind, pivot.price, Last(swings).price)
    THEN [swings EXCEPT ![Len(swings)] = pivot]
    ELSE swings

\* A candle that is both a high and a low pivot is left out: the order of its
\* extremes is not known.
SinglePivots(pivots) ==
    {p \in Confirmed(pivots) : \A q \in Confirmed(pivots) : q.at = p.at => q = p}

\* The loop of the code, candle by candle.
SwingPoints(pivots) ==
    LET single == SinglePivots(pivots)
        newest == Max({p.at : p \in single} \cup {0})
        \* the swings of the pivots up to candle i
        swings[i \in -1 .. newest] ==
          IF i = -1 THEN <<>>
          ELSE IF \E p \in single : p.at = i
          THEN AddToSwings(swings[i - 1], CHOOSE p \in single : p.at = i)
          ELSE swings[i - 1]
    IN  swings[newest]

\* What the loop comes to, as a set: of every run of pivots of one kind, the
\* most extreme, the earliest on a tie.
SameRun(single, p, q) ==
    /\ p.kind = q.kind
    /\ \A r \in single :
          \/ p.at < r.at /\ r.at < q.at
          \/ q.at < r.at /\ r.at < p.at
          => r.kind = p.kind

RunExtremes(pivots) ==
    LET single == SinglePivots(pivots)
    IN  {p \in single :
            \A q \in single :
                SameRun(single, p, q) =>
                   /\ ~Beyond(p.kind, q.price, p.price)
                   /\ q.price = p.price => p.at <= q.at}

=============================================================================
