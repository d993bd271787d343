-------------------------- MODULE FibonacciSearch ---------------------------
(***************************************************************************)
(* Which pairs of swings are impulses (fibonacci.check_impulse and         *)
(* fibonacci_detection.py): the dominant leg that ends at each swing.      *)
(* An impulse is named by its direction and its two candles, and swings    *)
(* are a set, ordered by their candles.                                    *)
(***************************************************************************)
EXTENDS MarketContext, MarketStructure

CONSTANTS
    RangeWindow,    \* candles the size is measured against, and the least
                    \* history: range_window_candles
    SearchWindow,   \* how far back from B the start may lie
    MinImpulse      \* the least size, as a fraction <<num, den>> of the range

ASSUME SearchAssumption ==
    /\ RangeWindow \in Nat \ {0}
    /\ SearchWindow \in Nat \ {0}
    /\ MinImpulse \in (Nat \ {0}) \X (Nat \ {0})
    /\ MinImpulse[1] < MinImpulse[2]

Direction == {"BULLISH", "BEARISH"}

\* ImpulseDirection.start_kind and end_kind.
StartKind(direction) == IF direction = "BULLISH" THEN "LOW" ELSE "HIGH"
EndKind(direction) == IF direction = "BULLISH" THEN "HIGH" ELSE "LOW"

\* The position of a candle in the list of those that are known.
Position(candles, i) == Cardinality({j \in DOMAIN candles : j <= i})

\* The range of the RangeWindow candles that end at A.
ReferenceRange(candles, start) ==
    LET window == Newest({j \in DOMAIN candles : j <= start}, RangeWindow)
    IN  Max({candles[j].high : j \in window})
          - Min({candles[j].low : j \in window})

AbsDiff(p, q) == IF p > q THEN p - q ELSE q - p

\* check_impulse on two confirmed swings of the series: opposite kinds, in
\* order, no wick beyond their extremes in between, and large enough.
IsImpulse(candles, start, end) ==
    LET reference == ReferenceRange(candles, start.at)
    IN  /\ start.kind # end.kind
        /\ start.at < end.at
        /\ \A j \in DOMAIN candles \cap (start.at .. end.at) :
              /\ ~Beyond(start.kind, Extreme(start.kind, candles[j]), start.price)
              /\ ~Beyond(end.kind, Extreme(end.kind, candles[j]), end.price)
        /\ reference > 0
        /\ AbsDiff(end.price, start.price) * MinImpulse[2]
              >= MinImpulse[1] * reference

\* Mistake: the look-back is counted from the newest candle.
StartsLately(candles, swings, end) ==
    {start \in swings :
        /\ Position(candles, start.at)
              >= Cardinality(DOMAIN candles) - SearchWindow
        /\ IsImpulse(candles, start, end)}

\* The starts within the look-back that pass.
Starts(candles, swings, end) ==
    {start \in swings :
        /\ Position(candles, start.at)
              >= Position(candles, end.at) - SearchWindow
        /\ IsImpulse(candles, start, end)}

\* find_impulses: for every swing, the earliest of its starts.
FindImpulses(candles, swings) ==
    {[direction |-> IF leg[2].kind = "HIGH" THEN "BULLISH" ELSE "BEARISH",
      start |-> leg[1].at,
      end |-> leg[2].at] :
        leg \in {x \in swings \X swings :
                    /\ x[1] \in Starts(candles, swings, x[2])
                    /\ \A start \in Starts(candles, swings, x[2]) :
                          x[1].at <= start.at}}

\* search_impulses at t, from the candles known by then; from unfit data
\* nothing is guessed.
SearchImpulses(candles, t) ==
    LET reasons == MissingDataReasons(DOMAIN candles, t, RangeWindow)
    IN  [impulses |-> IF reasons # {} THEN {}
                      ELSE FindImpulses(candles,
                                        RunExtremes(DetectPivots(candles))),
         unfit |-> reasons]

=============================================================================
