------------------------- MODULE FibonacciLifecycle -------------------------
(***************************************************************************)
(* The life of every Fibonacci of a series, followed instant by instant    *)
(* (fibonacci_lifecycle.replay_lifecycle).  The instants are those at      *)
(* which Freyja received candles, in any order; at each the impulses are   *)
(* searched again and what changed is appended to the record:              *)
(*                                                                         *)
(*   born      INSTANCE_BORN: the impulse is known;                        *)
(*   extended  EXTENSION_DETECTED and GAP_OPENED, always together: a       *)
(*             candle went beyond B;                                       *)
(*   closed    GAP_CLOSED, by a successor or because the price went beyond *)
(*             A.                                                          *)
(*                                                                         *)
(* Each is a function from the instances it has happened to, to when it    *)
(* was recorded (at) and the candle that proves it (by): its close is the  *)
(* code's market_time, its receipt the code's received_at.  The sequence   *)
(* numbers of the records and the versions in an identity are left out.    *)
(***************************************************************************)
EXTENDS FibonacciSearch

CONSTANTS
    Shapes,       \* the candles a market may print: [low, high, close]
    Horizon,      \* bound: the last tick
    MaxDelayed    \* bound: candles received late or never

ASSUME SeriesAssumption ==
    /\ Shapes # {}
    /\ \A c \in Shapes :
          /\ c.low \in Int /\ c.high \in Int /\ c.close \in Int
          /\ c.low <= c.close /\ c.close <= c.high
    /\ Horizon \in Nat
    /\ MaxDelayed \in Nat

VARIABLES
    now,        \* the present
    candles,    \* the candles received so far, by index
    received,   \* when each was received
    found,      \* what the search saw at the last instant
    born,
    extended,
    closed

record == <<born, extended, closed>>
vars == <<now, candles, received, found, record>>

-----------------------------------------------------------------------------
(* What the candles known, cs, say about an instance *)

StartPrice(cs, g) == Extreme(StartKind(g.direction), cs[g.start])
EndPrice(cs, g) == Extreme(EndKind(g.direction), cs[g.end])

\* The candle that confirms B; its close is pivot_confirmed_market_time.
ConfirmingCandle(g) == g.end + K

\* FibonacciInstance.known_at, fixed when the instance is born.
KnownAt(g) ==
    Max({CloseTime(ConfirmingCandle(g)), received[ConfirmingCandle(g)]})

\* _beyond: candles after B with a wick beyond it.
BeyondEnd(cs, g) ==
    {i \in DOMAIN cs :
        /\ i > g.end
        /\ Beyond(EndKind(g.direction),
                  Extreme(EndKind(g.direction), cs[i]), EndPrice(cs, g))}

\* _beyond_start: candles from the extension on with a wick beyond A.
BeyondStart(cs, g, extension) ==
    {i \in DOMAIN cs :
        /\ i >= extension
        /\ Beyond(StartKind(g.direction),
                  Extreme(StartKind(g.direction), cs[i]), StartPrice(cs, g))}

\* j takes over from g, which the candle "extension" went beyond.
TakesOver(cs, j, g, extension) ==
    /\ j.direction = g.direction
    /\ Beyond(EndKind(g.direction), EndPrice(cs, j), EndPrice(cs, g))
    /\ j.end >= extension

Active == DOMAIN born \ DOMAIN extended
OpenGaps == DOMAIN extended \ DOMAIN closed

-----------------------------------------------------------------------------

Nothing == [i \in {} |-> 0]

\* What f says stands, and h adds to it.
Overlay(f, h) ==
    [x \in DOMAIN f \cup DOMAIN h |-> IF x \in DOMAIN f THEN f[x] ELSE h[x]]

Init ==
    /\ now = 0
    /\ candles = Nothing
    /\ received = Nothing
    /\ found = [impulses |-> {}, unfit |-> {"NO_DATA"}]
    /\ born = Nothing
    /\ extended = Nothing
    /\ closed = Nothing

\* Candles that had to be received by now and were late, or are missing.
Delayed ==
    {i \in 0 .. NewestClosed(now) :
        /\ IsExpectedOpen(OpenTime(i))
        /\ i \in DOMAIN received => received[i] > CloseTime(i)}

\* Finished candles that have not been received.
Awaited(t) ==
    {i \in (0 .. NewestClosed(t)) \ DOMAIN candles : IsExpectedOpen(OpenTime(i))}

\* A tick passes at which nothing is received: not an instant of the replay.
Silence ==
    /\ now < Horizon
    /\ now' = now + 1
    /\ UNCHANGED <<candles, received, found, record>>
    /\ Cardinality(Delayed') <= MaxDelayed

\* Finished candles are received, all at this tick, and the series is searched.
Receive ==
    /\ now < Horizon
    /\ now' = now + 1
    /\ \E new \in SUBSET Awaited(now') :
          /\ new # {}
          /\ received' = Overlay(received, [i \in new |-> now'])
          /\ \E c \in [new -> Shapes] : candles' = Overlay(candles, c)
    /\ Cardinality(Delayed') <= MaxDelayed
    /\ found' = SearchImpulses(candles', now')

\* The data is not fit to judge: nothing is claimed at this instant.
Unfit ==
    /\ Receive
    /\ found'.unfit # {}
    /\ UNCHANGED record

\* Mistakes: only the newest candle is looked at; and instances are extended at
\* the instant they are born.
ExtendByNewest ==
    extended' = Overlay(extended,
        [g \in {x \in Active : Max(DOMAIN candles') \in BeyondEnd(candles', x)} |->
            [at |-> now', by |-> Max(DOMAIN candles')]])

ExtendNewborns ==
    extended' = Overlay(extended,
        [g \in {x \in Active \cup (found'.impulses \ DOMAIN born) :
                    BeyondEnd(candles', x) # {}} |->
            [at |-> now', by |-> Min(BeyondEnd(candles', g))]])

\* 1. A candle beyond B: the instance is extended and a gap opens.
Extend ==
    extended' = Overlay(extended,
        [g \in {x \in Active : BeyondEnd(candles', x) # {}} |->
            [at |-> now', by |-> Min(BeyondEnd(candles', g))]])

\* The gaps that the price closed by going beyond A, and what 2. says of them.
Abandoned ==
    {g \in DOMAIN extended' \ DOMAIN closed :
        BeyondStart(candles', g, extended'[g].by) # {}}

Abandonment(g) ==
    [at |-> now', by |-> Min(BeyondStart(candles', g, extended'[g].by)),
     closure |-> "CANDIDATE_ABANDONED"]

\* 3. Impulses that are now known are born, and may take over from gaps that
\* are still open; the one that ends first does.
Newborn == found'.impulses \ DOMAIN born

Successors(g) == {j \in Newborn : TakesOver(candles', j, g, extended'[g].by)}

\* Mistake: a gap that opens at this instant is not considered.
SucceededBefore ==
    {g \in OpenGaps : g \notin Abandoned /\ Successors(g) # {}}

Succeeded ==
    {g \in DOMAIN extended' \ DOMAIN closed :
        g \notin Abandoned /\ Successors(g) # {}}

Succession(g) ==
    LET successor ==
          CHOOSE j \in Successors(g) : \A k \in Successors(g) : j.end <= k.end
    IN  [at |-> now', by |-> ConfirmingCandle(successor),
         closure |-> "NEW_INSTANCE", successor |-> successor]

\* Mistake: instances the search no longer finds are dropped.
BearFound ==
    born' = [j \in found'.impulses |->
               IF j \in DOMAIN born THEN born[j]
               ELSE [at |-> now', by |-> ConfirmingCandle(j)]]

Bear ==
    born' = Overlay(born,
        [j \in Newborn |-> [at |-> now', by |-> ConfirmingCandle(j)]])

CloseGaps ==
    closed' = Overlay(closed,
        [g \in Abandoned \cup Succeeded |->
            IF g \in Abandoned THEN Abandonment(g) ELSE Succession(g)])

Follow ==
    /\ Receive
    /\ found'.unfit = {}
    /\ Extend
    /\ Bear
    /\ CloseGaps

Next == Silence \/ Unfit \/ Follow

Spec == Init /\ [][Next]_vars

-----------------------------------------------------------------------------
(* Properties *)

Instance == [direction : Direction, start : Nat, end : Nat]

TypeOK ==
    /\ now \in 0 .. Horizon
    /\ DOMAIN candles \subseteq 0 .. NewestClosed(now)
    /\ \A i \in DOMAIN candles : candles[i] \in Shapes
    /\ DOMAIN received = DOMAIN candles
    /\ \A i \in DOMAIN received : received[i] \in CloseTime(i) .. now
    /\ found \in [impulses : SUBSET Instance, unfit : SUBSET MissingDataReason]
    /\ DOMAIN born \subseteq Instance
    /\ \A g \in DOMAIN born : born[g] \in [at : 0 .. now, by : Nat]
    /\ DOMAIN extended \subseteq DOMAIN born
    /\ \A g \in DOMAIN extended : extended[g] \in [at : 0 .. now, by : Nat]
    /\ DOMAIN closed \subseteq DOMAIN extended
    /\ \A g \in DOMAIN closed :
          closed[g] \in
             [at : 0 .. now, by : Nat, closure : {"CANDIDATE_ABANDONED"}]
             \cup [at : 0 .. now, by : Nat, closure : {"NEW_INSTANCE"},
                   successor : DOMAIN born]

\* Whatever order candles arrive in, a record rests on a finished candle that
\* Freyja had received when it was written, and the records of an instance
\* follow each other: it is known before it is extended, and extended no later
\* than its gap closes (section 17 of the contract, "no depende de lo
\* posterior").
Proved(r) == r.by \in DOMAIN candles /\ received[r.by] <= r.at

RecordsFollowEvidence ==
    /\ \A g \in DOMAIN born : Proved(born[g])
    /\ \A g \in DOMAIN extended :
          /\ Proved(extended[g])
          /\ born[g].at < extended[g].at
          /\ extended[g].by > g.end
    /\ \A g \in DOMAIN closed :
          /\ Proved(closed[g])
          /\ extended[g].at <= closed[g].at

\* A gap closes when the first instance that can take over is born, not later
\* and not by another: no instance born since the extension that goes beyond
\* the old B leaves the gap open, and a successor was born at the closing.
GapsCloseAtSuccession ==
    \A g \in DOMAIN extended :
        /\ \A j \in DOMAIN born :
              /\ TakesOver(candles, j, g, extended[g].by)
              /\ born[j].at >= extended[g].at
              => g \in DOMAIN closed /\ closed[g].at <= born[j].at
        /\ g \in DOMAIN closed /\ closed[g].closure = "NEW_INSTANCE" =>
              /\ closed[g].successor \in DOMAIN born
              /\ born[closed[g].successor].at = closed[g].at
              /\ TakesOver(candles, closed[g].successor, g, extended[g].by)

\* The last instant at which something was received.
LastInstant == Max({received[i] : i \in DOMAIN received})

\* After an instant at which the data was fit the records agree with every
\* candle known, late ones included: an instance that is active and was not
\* born just then has nothing beyond its B, and a gap still open has nothing
\* beyond its A since the extension.
RecordsAreUpToDate ==
    candles # Nothing /\ found.unfit = {} =>
        /\ \A g \in Active :
              BeyondEnd(candles, g) = {} \/ born[g].at = LastInstant
        /\ \A g \in OpenGaps : BeyondStart(candles, g, extended[g].by) = {}

\* The history is append-only: nothing recorded changes, and what is new is
\* dated by the present, never back-dated to when the market did it.
AppendsTo(old, new, t) ==
    /\ \A g \in DOMAIN old : g \in DOMAIN new /\ new[g] = old[g]
    /\ \A g \in DOMAIN new \ DOMAIN old : new[g].at = t

HistoryOnlyGrows ==
    [][/\ AppendsTo(born, born', now')
       /\ AppendsTo(extended, extended', now')
       /\ AppendsTo(closed, closed', now')]_vars

-----------------------------------------------------------------------------
(* Properties of what is a function of the candles: pivots, swings, impulses *)

InOrder ==
    \A i, j \in DOMAIN received : i < j => received[i] <= received[j]

Swings(cs) == SwingPoints(DetectPivots(cs))

\* A confirmed pivot is never repainted: candles that come after it neither
\* remove nor change it; and they change at most the last swing, all before it
\* being settled (estructura-de-precio.md).
StructureIsNotRepainted ==
    [][InOrder' => /\ Confirmed(DetectPivots(candles))
                        \subseteq Confirmed(DetectPivots(candles'))
                   /\ IsPrefix(Front(Swings(candles)), Swings(candles'))]_candles

\* The swings, built pivot by pivot, are the extremes of the runs of pivots of
\* one kind, which is what the search reads, and they alternate.
SwingsAreRunExtremes ==
    LET swings == Swings(candles)
    IN  /\ {swings[n] : n \in DOMAIN swings} = RunExtremes(DetectPivots(candles))
        /\ \A n \in 1 .. (Len(swings) - 1) :
              /\ swings[n].kind # swings[n + 1].kind
              /\ swings[n].at < swings[n + 1].at

\* While candles arrive in order an impulse that was found is found again
\* until a candle goes beyond its B: the search depends on the candles around
\* B and not on where the history ends, and no swing it rests on is repainted.
ActiveImpulsesAreFound ==
    InOrder /\ found.unfit = {} => Active \subseteq found.impulses

=============================================================================
