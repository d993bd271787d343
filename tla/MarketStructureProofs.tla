----------------------- MODULE MarketStructureProofs ------------------------
(***************************************************************************)
(* Lemmas about the pivots and swings of a series, for every series and    *)
(* every K: what is confirmed stays as later candles are added, and the    *)
(* swings, made pivot by pivot, are the extremes of their runs.  Induction *)
(* over the numbers takes a set of them (AllNaturals).                     *)
(***************************************************************************)
EXTENDS MarketStructure, BasicLemmas

-----------------------------------------------------------------------------
(* Series and pivots *)

SwingsOf(cs) == SwingPoints(DetectPivots(cs))

IsSeries(cs) ==
    /\ \E n \in Nat : DOMAIN cs \subseteq 0 .. n
    /\ \A i \in DOMAIN cs : cs[i].low \in Int /\ cs[i].high \in Int

LEMMA IndicesOfSeries ==
    ASSUME NEW cs, IsSeries(cs)
    PROVE  DOMAIN cs \in SUBSET Nat /\ IsFiniteSet(DOMAIN cs)
<1>1. PICK n \in Nat : DOMAIN cs \in SUBSET (0 .. n)
    BY DEF IsSeries
<1>2. IsFiniteSet(0 .. n)
    BY FS_Interval
<1>3. IsFiniteSet(DOMAIN cs)
    BY <1>1, <1>2, FS_Subset
<1> QED
    BY <1>1, <1>3

\* One series continues another: it adds candles after all of its own.
Continues(more, cs) ==
    /\ \A i \in DOMAIN cs : i \in DOMAIN more /\ more[i] = cs[i]
    /\ \A i \in DOMAIN more \ DOMAIN cs : \A j \in DOMAIN cs : j < i

\* A pivot whose right side is complete.
IsConfirmed(cs, i, kind) ==
    /\ (i - K) .. (i + K) \subseteq DOMAIN cs
    /\ \A j \in (i - K) .. (i - 1) :
          Beyond(kind, Extreme(kind, cs[i]), Extreme(kind, cs[j]))
    /\ \A j \in (i + 1) .. (i + K) :
          ~Beyond(kind, Extreme(kind, cs[j]), Extreme(kind, cs[i]))

Pivot(cs, i, kind) ==
    [kind |-> kind, status |-> "CONFIRMED", at |-> i, price |-> Extreme(kind, cs[i])]

ConfirmedPivots(cs) == Confirmed(DetectPivots(cs))

\* The right side has K candles at most, and K if they are there.
LEMMA CompleteRightSide ==
    ASSUME NEW cs, IsSeries(cs), NEW i \in DOMAIN cs
    PROVE  /\ RightSide(cs, i) \in 0 .. K
           /\ (i + 1) .. (i + K) \subseteq DOMAIN cs => RightSide(cs, i) = K
<1>. DEFINE right == {j \in DOMAIN cs : j > i}
            next == (i + 1) .. (i + K)
<1>1. i \in Nat /\ K \in Nat
    BY PivotAssumption, IndicesOfSeries
<1>2. IsFiniteSet(right) /\ Cardinality(right) \in Nat
    BY IndicesOfSeries, FS_Subset, FS_CardinalityType
<1>3. RightSide(cs, i) = Min({K, Cardinality(right)})
    BY DEF RightSide
<1>4. RightSide(cs, i) \in {K, Cardinality(right)}
         /\ RightSide(cs, i) <= K /\ RightSide(cs, i) <= Cardinality(right)
    <2>1. {K, Cardinality(right)} \in SUBSET Nat
        BY <1>1, <1>2
    <2> QED
        BY <1>3, <2>1, LeastNatural
<1>5. ASSUME next \subseteq DOMAIN cs
      PROVE  K <= Cardinality(right)
    <2>1. next \subseteq right
        BY <1>1, <1>5, IndicesOfSeries
    <2>2. Cardinality(next) <= Cardinality(right)
        <3> HIDE DEF next, right
        <3> QED
            BY <1>2, <2>1, FS_Subset
    <2>3. Cardinality(next) = K
        BY <1>1, FS_Interval, i + 1 \in Int, i + K \in Int, PivotAssumption
    <2> QED
        BY <2>2, <2>3
<1> QED
    BY <1>1, <1>2, <1>4, <1>5

LEMMA ConfirmedPivotsAre ==
    ASSUME NEW cs, IsSeries(cs)
    PROVE  /\ \A p \in ConfirmedPivots(cs) :
                 /\ p.at \in DOMAIN cs /\ p.kind \in PivotKind
                 /\ IsConfirmed(cs, p.at, p.kind)
                 /\ p = Pivot(cs, p.at, p.kind)
           /\ \A i \in DOMAIN cs, kind \in PivotKind :
                 IsConfirmed(cs, i, kind) => Pivot(cs, i, kind) \in ConfirmedPivots(cs)
<1>1. ASSUME NEW p \in ConfirmedPivots(cs)
      PROVE  /\ p.at \in DOMAIN cs /\ p.kind \in PivotKind
             /\ IsConfirmed(cs, p.at, p.kind)
             /\ p = Pivot(cs, p.at, p.kind)
    <2>1. PICK x \in (DOMAIN cs) \X PivotKind :
             /\ IsPivot(cs, x[1], x[2])
             /\ p = [kind |-> x[2],
                     status |-> IF RightSide(cs, x[1]) = K THEN "CONFIRMED" ELSE "PROVISIONAL",
                     at |-> x[1],
                     price |-> Extreme(x[2], cs[x[1]])]
        BY DEF ConfirmedPivots, Confirmed, DetectPivots
    <2>2. p.status = "CONFIRMED"
        BY DEF ConfirmedPivots, Confirmed
    <2>3. RightSide(cs, x[1]) = K
        BY <2>1, <2>2
    <2>4. IsConfirmed(cs, x[1], x[2])
        BY <2>1, <2>3 DEF IsPivot, Contiguous, IsConfirmed
    <2> QED
        BY <2>1, <2>3, <2>4 DEF Pivot
<1>2. ASSUME NEW i \in DOMAIN cs, NEW kind \in PivotKind, IsConfirmed(cs, i, kind)
      PROVE  Pivot(cs, i, kind) \in ConfirmedPivots(cs)
    <2>1. i \in Nat /\ K \in Nat
        BY PivotAssumption, IndicesOfSeries
    <2>2. (i + 1) .. (i + K) \subseteq (i - K) .. (i + K)
        BY <2>1
    <2>3. RightSide(cs, i) = K
        BY <1>2, <2>2, CompleteRightSide DEF IsConfirmed
    <2>4. IsPivot(cs, i, kind)
        BY <1>2, <2>3 DEF IsPivot, Contiguous, IsConfirmed
    <2>5. <<i, kind>> \in {x \in (DOMAIN cs) \X PivotKind : IsPivot(cs, x[1], x[2])}
        BY <2>4
    <2>6. Pivot(cs, i, kind) \in DetectPivots(cs)
        BY <2>3, <2>5 DEF DetectPivots, Pivot
    <2> QED
        BY <2>6 DEF ConfirmedPivots, Confirmed, Pivot
<1> QED
    BY <1>1, <1>2

\* What was confirmed stays, and what is confirmed later comes after all of it.
LEMMA ConfirmedPivotsStay ==
    ASSUME NEW cs, IsSeries(cs), NEW more, IsSeries(more), Continues(more, cs)
    PROVE  /\ ConfirmedPivots(cs) \subseteq ConfirmedPivots(more)
           /\ \A p \in ConfirmedPivots(more) \ ConfirmedPivots(cs) :
                 \A q \in ConfirmedPivots(cs) : q.at < p.at
<1>1. \A i \in DOMAIN cs : i \in DOMAIN more /\ more[i] = cs[i]
    BY DEF Continues
<1>2. \A i \in DOMAIN more, j \in DOMAIN cs : i <= j => i \in DOMAIN cs
    <2>1. \A i \in DOMAIN more, j \in DOMAIN cs : i \in Nat /\ j \in Nat
        BY IndicesOfSeries
    <2> QED
        BY <2>1 DEF Continues
<1>3. K \in Nat /\ K > 0
    BY PivotAssumption
<1>4. ASSUME NEW i \in DOMAIN cs, NEW kind \in PivotKind,
             (i - K) .. (i + K) \subseteq DOMAIN cs
      PROVE  /\ IsConfirmed(cs, i, kind) <=> IsConfirmed(more, i, kind)
             /\ Pivot(cs, i, kind) = Pivot(more, i, kind)
    <2>1. i \in Nat
        BY IndicesOfSeries
    <2>2. (i - K) .. (i - 1) \subseteq DOMAIN cs /\ (i + 1) .. (i + K) \subseteq DOMAIN cs
        BY <1>3, <1>4, <2>1
    <2> QED
        BY <1>1, <1>4, <2>2 DEF IsConfirmed, Pivot
<1>5. ASSUME NEW p \in ConfirmedPivots(cs)
      PROVE  p \in ConfirmedPivots(more)
    <2>1. /\ p.at \in DOMAIN cs /\ p.kind \in PivotKind
          /\ IsConfirmed(cs, p.at, p.kind) /\ p = Pivot(cs, p.at, p.kind)
        BY <1>5, ConfirmedPivotsAre
    <2>2. /\ IsConfirmed(more, p.at, p.kind)
          /\ p = Pivot(more, p.at, p.kind)
        BY <1>4, <2>1 DEF IsConfirmed
    <2> QED
        BY <1>1, <2>1, <2>2, ConfirmedPivotsAre
<1>6. ASSUME NEW p \in ConfirmedPivots(more), NEW q \in ConfirmedPivots(cs), ~(q.at < p.at)
      PROVE  p \in ConfirmedPivots(cs)
    <2>1. /\ p.at \in DOMAIN more /\ p.kind \in PivotKind
          /\ IsConfirmed(more, p.at, p.kind) /\ p = Pivot(more, p.at, p.kind)
        BY <1>6, ConfirmedPivotsAre
    <2>2. q.at \in DOMAIN cs /\ (q.at - K) .. (q.at + K) \subseteq DOMAIN cs
        BY <1>6, ConfirmedPivotsAre DEF IsConfirmed
    <2>3. p.at \in Nat /\ q.at \in Nat
        BY <2>1, <2>2, IndicesOfSeries
    <2>4. q.at + K \in DOMAIN cs
        BY <1>3, <2>2, <2>3
    <2>5. (p.at - K) .. (p.at + K) \subseteq DOMAIN cs
        <3>1. ASSUME NEW i \in (p.at - K) .. (p.at + K)
              PROVE  i \in DOMAIN cs
            <4>1. i \in DOMAIN more
                BY <2>1 DEF IsConfirmed
            <4>2. i <= q.at + K
                BY <1>3, <1>6, <2>3
            <4> QED
                BY <1>2, <2>4, <4>1, <4>2
        <3> QED
            BY <3>1
    <2>6. p.at \in DOMAIN cs
        BY <1>3, <2>3, <2>5
    <2> QED
        BY <1>4, <2>1, <2>5, <2>6, ConfirmedPivotsAre
<1> QED
    BY <1>5, <1>6

\* The pivots that the swings are made of.
Singles(cs) == SinglePivots(DetectPivots(cs))

LEMMA SinglesAre ==
    ASSUME NEW cs, IsSeries(cs)
    PROVE  /\ Singles(cs) = {p \in ConfirmedPivots(cs) :
                               \A q \in ConfirmedPivots(cs) : q.at = p.at => q = p}
           /\ \A p \in Singles(cs) :
                 /\ p \in ConfirmedPivots(cs)
                 /\ p.at \in DOMAIN cs /\ p.at \in Nat \ {0} /\ p.kind \in PivotKind
                 /\ p.at + K \in DOMAIN cs
                 /\ p.price = Extreme(p.kind, cs[p.at]) /\ p.price \in Int
           /\ \A p, q \in Singles(cs) : p.at = q.at => p = q
<1>1. Singles(cs) = {p \in ConfirmedPivots(cs) :
                        \A q \in ConfirmedPivots(cs) : q.at = p.at => q = p}
    BY DEF Singles, SinglePivots, ConfirmedPivots
<1>2. ASSUME NEW p \in Singles(cs)
      PROVE  /\ p.at \in DOMAIN cs /\ p.at \in Nat \ {0} /\ p.kind \in PivotKind
             /\ p.at + K \in DOMAIN cs
             /\ p.price = Extreme(p.kind, cs[p.at]) /\ p.price \in Int
    <2>1. /\ p.at \in DOMAIN cs /\ p.kind \in PivotKind
          /\ (p.at - K) .. (p.at + K) \subseteq DOMAIN cs
          /\ p = Pivot(cs, p.at, p.kind)
        BY <1>1, ConfirmedPivotsAre DEF IsConfirmed
    <2>2. p.at \in Nat
        BY <2>1, IndicesOfSeries
    <2>3. p.at - K \in Nat /\ p.at + K \in DOMAIN cs
        BY <2>1, <2>2, PivotAssumption, IndicesOfSeries
    <2>4. p.at # 0
        BY <2>2, <2>3, PivotAssumption
    <2>5. p.price = Extreme(p.kind, cs[p.at])
        BY <2>1 DEF Pivot
    <2> QED
        BY <2>1, <2>2, <2>3, <2>4, <2>5 DEF IsSeries, Extreme
<1> QED
    BY <1>1, <1>2

LEMMA SinglesStay ==
    ASSUME NEW cs, IsSeries(cs), NEW more, IsSeries(more), Continues(more, cs)
    PROVE  /\ Singles(cs) \subseteq Singles(more)
           /\ \A p \in Singles(more) \ Singles(cs) : \A q \in ConfirmedPivots(cs) : q.at < p.at
<1>1. \A p \in ConfirmedPivots(cs), q \in ConfirmedPivots(more) :
         q.at = p.at => q \in ConfirmedPivots(cs)
    <2>1. \A p \in ConfirmedPivots(cs) : p.at \in Nat
        BY ConfirmedPivotsAre, IndicesOfSeries
    <2> QED
        BY <2>1, ConfirmedPivotsStay
<1>2. Singles(cs) \subseteq Singles(more)
    BY <1>1, SinglesAre, ConfirmedPivotsStay
<1>3. ASSUME NEW p \in Singles(more) \ Singles(cs)
      PROVE  p \notin ConfirmedPivots(cs)
    BY SinglesAre, ConfirmedPivotsStay
<1> QED
    BY <1>2, <1>3, SinglesAre, ConfirmedPivotsStay

-----------------------------------------------------------------------------
(* The loop that makes the swings *)

\* One turn of the loop of swing_points, and the loop up to a candle.
Turn(single, i, swings) ==
    IF \E p \in single : p.at = i
    THEN AddToSwings(swings, CHOOSE p \in single : p.at = i)
    ELSE swings

IsLoop(f, single, n) ==
    f = [i \in -1 .. n |-> IF i = -1 THEN <<>> ELSE Turn(single, i, f[i - 1])]

LEMMA LoopExists ==
    ASSUME NEW single, NEW n \in Nat
    PROVE  \E f : IsLoop(f, single, n)
<1> DEFINE T == {k \in Nat : \E f : IsLoop(f, single, k - 1)}
<1>1. 0 \in T
    <2>1. IsLoop([i \in -1 .. -1 |-> <<>>], single, -1)
        BY DEF IsLoop
    <2> QED
        BY <2>1
<1>2. ASSUME NEW k \in Nat, k \in T
      PROVE  k + 1 \in T
    <2>1. PICK f : IsLoop(f, single, k - 1)
        BY <1>2
    <2> DEFINE g == [i \in -1 .. k |-> IF i = -1 THEN <<>> ELSE Turn(single, i, f[i - 1])]
    <2>2. \A i \in -1 .. (k - 1) : g[i] = f[i]
        BY <2>1 DEF IsLoop
    <2>3. g = [i \in -1 .. k |-> IF i = -1 THEN <<>> ELSE Turn(single, i, g[i - 1])]
        <3>1. \A i \in -1 .. k : i # -1 => g[i - 1] = f[i - 1]
            BY <2>2
        <3> QED
            BY <3>1
    <2>4. IsLoop(g, single, k)
        BY <2>3 DEF IsLoop
    <2> HIDE DEF g
    <2> QED
        BY <2>4
<1>3. n + 1 \in T
    <2> HIDE DEF T
    <2> QED
        BY <1>1, <1>2, AllNaturals
<1> QED
    BY <1>3

NewestOf(single) == Max({p.at : p \in single} \cup {0})

LEMMA SwingsAreLooped ==
    ASSUME NEW cs, IsSeries(cs), NewestOf(Singles(cs)) \in Nat
    PROVE  \E f : /\ IsLoop(f, Singles(cs), NewestOf(Singles(cs)))
                  /\ SwingsOf(cs) = f[NewestOf(Singles(cs))]
<1> DEFINE newest == NewestOf(Singles(cs))
           f == CHOOSE f : IsLoop(f, Singles(cs), newest)
<1>1. IsLoop(f, Singles(cs), newest)
    BY LoopExists
<1>2. SwingsOf(cs) = f[newest]
    BY DEF SwingsOf, SwingPoints, IsLoop, Turn, NewestOf, Singles
<1> QED
    BY <1>1, <1>2

\* The swings of some pivots: the extremes of their runs, in order, alternating;
\* the last one's run is still open.
Extremes(s) ==
    {p \in s : \A q \in s :
        SameRun(s, p, q) => /\ ~Beyond(p.kind, q.price, p.price)
                            /\ q.price = p.price => p.at <= q.at}

Built(s, swings) ==
    /\ swings \in Seq(s)
    /\ swings = <<>> => s = {}
    /\ \A m, n \in DOMAIN swings : m < n => swings[m].at < swings[n].at
    /\ \A n \in 1 .. (Len(swings) - 1) : swings[n].kind # swings[n + 1].kind
    /\ {swings[n] : n \in DOMAIN swings} = Extremes(s)
    /\ swings # <<>> =>
          \A r \in s : Last(swings).at <= r.at => r.kind = Last(swings).kind

ArePivots(s) ==
    /\ \A p \in s : p.kind \in PivotKind /\ p.at \in Nat /\ p.price \in Int
    /\ \A p, q \in s : p.at = q.at => p = q

\* A later pivot leaves the runs of the others as they are, and is in the run of
\* those it follows without one of the other kind between.
LEMMA LaterPivot ==
    ASSUME NEW s, NEW p, ArePivots(s \cup {p}), \A q \in s : q.at < p.at
    PROVE  /\ \A q, r \in s : SameRun(s \cup {p}, q, r) <=> SameRun(s, q, r)
           /\ \A q \in s : SameRun(s \cup {p}, p, q) <=> SameRun(s \cup {p}, q, p)
           /\ \A q \in s : SameRun(s \cup {p}, q, p) <=>
                 q.kind = p.kind /\ \A r \in s : q.at < r.at => r.kind = p.kind
           /\ SameRun(s \cup {p}, p, p)
<1>1. \A q \in s : q.at \in Nat /\ p.at \in Nat /\ q.at < p.at /\ ~(p.at < q.at)
    BY DEF ArePivots
<1> QED
    BY <1>1 DEF SameRun, ArePivots

\* A pivot of the other kind begins a run.
LEMMA RunBegins ==
    ASSUME NEW s, NEW p, ArePivots(s \cup {p}), \A q \in s : q.at < p.at,
           NEW swings, Built(s, swings), swings = <<>> \/ Last(swings).kind # p.kind
    PROVE  Built(s \cup {p}, Append(swings, p))
<1> DEFINE all == s \cup {p}
           longer == Append(swings, p)
<1>1. /\ swings \in Seq(s) /\ Len(swings) \in Nat
      /\ \A n \in 1 .. Len(swings) : swings[n] \in s
      /\ DOMAIN swings = 1 .. Len(swings)
    BY DEF Built
<1>2. /\ longer \in Seq(all) /\ Len(longer) = Len(swings) + 1
      /\ DOMAIN longer = 1 .. (Len(swings) + 1)
      /\ \A n \in 1 .. Len(swings) : longer[n] = swings[n]
      /\ longer[Len(swings) + 1] = p
      /\ longer # <<>> /\ Last(longer) = p
    BY <1>1 DEF Last
<1>3. \A q \in s : ~SameRun(all, q, p)
    <2>1. SUFFICES ASSUME NEW q \in s, SameRun(all, q, p)
                   PROVE  FALSE
        OBVIOUS
    <2>2. swings # <<>> /\ Last(swings) \in s /\ Last(swings).kind # p.kind
        BY <1>1 DEF Built, Last
    <2>3. q.kind = p.kind /\ \A r \in s : q.at < r.at => r.kind = p.kind
        BY <2>1, LaterPivot
    <2>4. Last(swings).at \in Nat /\ q.at \in Nat
        BY <2>2 DEF ArePivots
    <2>5. Last(swings).at <= q.at
        BY <2>2, <2>3, <2>4
    <2> QED
        BY <2>2, <2>3, <2>5 DEF Built
<1>4. Extremes(all) = Extremes(s) \cup {p}
    <2>1. \A q \in s : q \in Extremes(all) <=> q \in Extremes(s)
        BY <1>3, LaterPivot DEF Extremes
    <2>2. p \in Extremes(all)
        <3>1. ~Beyond(p.kind, p.price, p.price) /\ p.at <= p.at
            BY DEF Beyond, ArePivots
        <3>2. \A q \in all : SameRun(all, p, q) => q = p
            BY <1>3, LaterPivot
        <3> QED
            BY <3>1, <3>2 DEF Extremes
    <2> QED
        BY <2>1, <2>2 DEF Extremes
<1>5. {longer[n] : n \in DOMAIN longer} = Extremes(all)
    <2>1. {longer[n] : n \in DOMAIN longer} = {swings[n] : n \in DOMAIN swings} \cup {p}
        BY <1>1, <1>2
    <2> QED
        BY <1>4, <2>1 DEF Built
<1>6. \A m, n \in DOMAIN longer : m < n => longer[m].at < longer[n].at
    BY <1>1, <1>2 DEF Built
<1>7. \A n \in 1 .. (Len(longer) - 1) : longer[n].kind # longer[n + 1].kind
    <2>1. SUFFICES ASSUME NEW n \in 1 .. Len(swings)
                   PROVE  longer[n].kind # longer[n + 1].kind
        BY <1>1, <1>2
    <2>2. CASE n = Len(swings)
        <3>1. swings # <<>>
            BY <1>1, <2>2
        <3> QED
            BY <1>2, <2>2, <3>1 DEF Last
    <2>3. CASE n # Len(swings)
        BY <1>1, <1>2, <2>3 DEF Built
    <2> QED
        BY <2>2, <2>3
<1>8. \A r \in all : p.at <= r.at => r.kind = p.kind
    <2>1. \A r \in s : r.at \in Nat /\ p.at \in Nat
        BY DEF ArePivots
    <2> QED
        BY <2>1
<1>9. Built(all, longer)
    <2> HIDE DEF longer, all
    <2> QED
        BY <1>2, <1>5, <1>6, <1>7, <1>8 DEF Built
<1> QED
    BY <1>9

\* A pivot of the same kind goes on with the run, and takes the place of its
\* extreme if it goes beyond it.
LEMMA RunGoesOn ==
    ASSUME NEW s, NEW p, ArePivots(s \cup {p}), \A q \in s : q.at < p.at,
           NEW swings, Built(s, swings), swings # <<>>, Last(swings).kind = p.kind
    PROVE  Built(s \cup {p}, AddToSwings(swings, p))
<1> DEFINE all == s \cup {p}
           last == Last(swings)
<1>1. /\ swings \in Seq(s) /\ Len(swings) \in Nat \ {0}
      /\ \A n \in 1 .. Len(swings) : swings[n] \in s
      /\ DOMAIN swings = 1 .. Len(swings)
      /\ last \in s /\ last = swings[Len(swings)]
      /\ last \in Extremes(s)
    BY DEF Built, Last
<1>2. \A q \in all : q.kind \in PivotKind /\ q.at \in Nat /\ q.price \in Int
    BY DEF ArePivots
\* The run that p belongs to is that of the last swing, and of nothing else.
<1>3. \A q \in s : SameRun(all, q, p) <=> SameRun(s, q, last)
    <2>1. \A r \in s : last.at <= r.at => r.kind = p.kind
        BY DEF Built
    <2>2. \A q \in s : q.at = last.at => q = last
        BY <1>1 DEF ArePivots
    <2>3. ASSUME NEW q \in s
          PROVE  (q.kind = p.kind /\ \A r \in s : q.at < r.at => r.kind = p.kind)
                    <=> SameRun(s, q, last)
        BY <1>1, <1>2, <2>1, <2>3 DEF SameRun
    <2> QED
        BY <2>3, LaterPivot
<1>4. SameRun(all, last, p) /\ SameRun(all, p, last)
    <2>1. SameRun(s, last, last)
        BY <1>1, <1>2 DEF SameRun
    <2>2. SameRun(all, last, p)
        BY <1>1, <1>3, <2>1
    <2> QED
        BY <1>1, <2>2, LaterPivot
<1>5. \A q \in Extremes(s) : SameRun(s, q, last) => q = last
    <2>1. ASSUME NEW q \in Extremes(s), SameRun(s, q, last)
          PROVE  q = last
        <3>1. q \in s /\ q.kind = last.kind /\ SameRun(s, last, q)
            BY <2>1 DEF SameRun, Extremes
        <3>2. /\ ~Beyond(q.kind, last.price, q.price)
              /\ ~Beyond(q.kind, q.price, last.price)
            BY <1>1, <2>1, <3>1 DEF Extremes
        <3>3. q.price = last.price
            BY <1>1, <1>2, <3>1, <3>2 DEF Beyond
        <3>4. q.at <= last.at /\ last.at <= q.at
            BY <1>1, <2>1, <3>1, <3>3 DEF Extremes
        <3>5. q.at = last.at
            BY <1>1, <1>2, <3>1, <3>4
        <3> QED
            BY <1>1, <3>1, <3>5 DEF ArePivots
    <2> QED
        BY <2>1
<1>6. CASE ~Beyond(p.kind, p.price, last.price)
    <2>1. AddToSwings(swings, p) = swings
        BY <1>6 DEF AddToSwings
    <2>2. p \notin Extremes(all)
        <3>1. SUFFICES ASSUME p \in Extremes(all)
                       PROVE  FALSE
            OBVIOUS
        <3>2. /\ ~Beyond(p.kind, last.price, p.price)
              /\ last.price = p.price => p.at <= last.at
            BY <1>1, <1>4, <3>1 DEF Extremes
        <3>3. last.price = p.price
            BY <1>1, <1>2, <1>6, <3>2 DEF Beyond
        <3> QED
            BY <1>1, <1>2, <3>2, <3>3
    <2>3. ASSUME NEW q \in s
          PROVE  q \in Extremes(all) <=> q \in Extremes(s)
        <3>1. q \in Extremes(all) => q \in Extremes(s)
            BY LaterPivot DEF Extremes
        <3>2. ASSUME q \in Extremes(s), SameRun(all, q, p)
              PROVE  ~Beyond(q.kind, p.price, q.price) /\ (p.price = q.price => q.at <= p.at)
            <4>1. q = last
                BY <1>3, <1>5, <3>2
            <4> QED
                BY <1>2, <1>6, <4>1
        <3> QED
            BY <3>1, <3>2, LaterPivot DEF Extremes
    <2>4. Extremes(all) = Extremes(s)
        BY <2>2, <2>3 DEF Extremes
    <2>5. \A r \in all : last.at <= r.at => r.kind = last.kind
        BY DEF Built
    <2>6. swings \in Seq(all)
        BY <1>1
    <2> QED
        BY <2>1, <2>4, <2>5, <2>6 DEF Built
<1>7. CASE Beyond(p.kind, p.price, last.price)
    <2> DEFINE new == [swings EXCEPT ![Len(swings)] = p]
    <2>1. AddToSwings(swings, p) = new
        BY <1>7 DEF AddToSwings
    <2>2. /\ new \in Seq(all) /\ Len(new) = Len(swings)
          /\ DOMAIN new = 1 .. Len(swings)
          /\ \A n \in 1 .. (Len(swings) - 1) : new[n] = swings[n]
          /\ new[Len(swings)] = p /\ Last(new) = p
        BY <1>1 DEF Last
    <2>3. p \in Extremes(all) /\ last \notin Extremes(all)
        <3>1. last \notin Extremes(all)
            BY <1>4, <1>7 DEF Extremes
        <3>2. ASSUME NEW q \in s, SameRun(all, p, q)
              PROVE  ~Beyond(p.kind, q.price, p.price) /\ q.price # p.price
            <4>1. SameRun(s, q, last) /\ q.kind = p.kind
                <5>1. SameRun(all, q, p)
                    BY <3>2, LaterPivot
                <5> QED
                    BY <1>3, <3>2, <5>1 DEF SameRun
            <4>2. SameRun(s, last, q)
                BY <4>1 DEF SameRun
            <4>3. ~Beyond(last.kind, q.price, last.price)
                BY <1>1, <4>2 DEF Extremes
            <4> QED
                BY <1>1, <1>2, <1>7, <4>3 DEF Beyond
        <3>3. ~Beyond(p.kind, p.price, p.price) /\ p.at <= p.at
            BY <1>2 DEF Beyond
        <3> QED
            BY <3>1, <3>2, <3>3 DEF Extremes
    <2>4. ASSUME NEW q \in s, q # last
          PROVE  q \in Extremes(all) <=> q \in Extremes(s)
        <3>1. q \in Extremes(all) => q \in Extremes(s)
            BY LaterPivot DEF Extremes
        <3>2. q \in Extremes(s) => ~SameRun(all, q, p)
            BY <1>3, <1>5, <2>4
        <3> QED
            BY <3>1, <3>2, LaterPivot DEF Extremes
    <2>5. Extremes(all) = (Extremes(s) \ {last}) \cup {p}
        <3>1. p \notin s
            BY <1>2
        <3>2. Extremes(all) \subseteq all /\ Extremes(s) \subseteq s
            BY DEF Extremes
        <3> QED
            BY <2>3, <2>4, <3>1, <3>2
    <2>6. \A n \in 1 .. (Len(swings) - 1) : swings[n] # last
        <3>1. \A n \in 1 .. (Len(swings) - 1) : swings[n].at < last.at
            BY <1>1 DEF Built
        <3> QED
            BY <1>1, <1>2, <3>1
    <2>7. {new[n] : n \in DOMAIN new} = Extremes(all)
        <3>1. {new[n] : n \in DOMAIN new} = {swings[n] : n \in 1 .. (Len(swings) - 1)} \cup {p}
            BY <1>1, <2>2
        <3>2. {swings[n] : n \in DOMAIN swings}
                = {swings[n] : n \in 1 .. (Len(swings) - 1)} \cup {last}
            BY <1>1
        <3>3. Extremes(s) \ {last} = {swings[n] : n \in 1 .. (Len(swings) - 1)}
            BY <2>6, <3>2 DEF Built
        <3> QED
            BY <2>5, <3>1, <3>3
    <2>8. \A m, n \in DOMAIN new : m < n => new[m].at < new[n].at
        <3>1. SUFFICES ASSUME NEW m \in 1 .. Len(swings), NEW n \in 1 .. Len(swings), m < n
                       PROVE  new[m].at < new[n].at
            BY <2>2
        <3>2. new[m] = swings[m] /\ m \in 1 .. (Len(swings) - 1)
            BY <1>1, <2>2, <3>1
        <3>3. CASE n = Len(swings)
            BY <1>1, <2>2, <3>2, <3>3
        <3>4. CASE n # Len(swings)
            <4>1. new[n] = swings[n]
                BY <1>1, <2>2, <3>4
            <4> QED
                BY <1>1, <3>1, <3>2, <4>1 DEF Built
        <3> QED
            BY <3>3, <3>4
    <2>9. \A n \in 1 .. (Len(new) - 1) : new[n].kind # new[n + 1].kind
        <3>1. SUFFICES ASSUME NEW n \in 1 .. (Len(swings) - 1)
                       PROVE  new[n].kind # new[n + 1].kind
            BY <2>2
        <3>2. swings[n].kind # swings[n + 1].kind
            BY DEF Built
        <3>3. CASE n + 1 = Len(swings)
            BY <1>1, <2>2, <3>2, <3>3
        <3>4. CASE n + 1 # Len(swings)
            BY <1>1, <2>2, <3>2, <3>4
        <3> QED
            BY <3>3, <3>4
    <2>10. \A r \in all : p.at <= r.at => r.kind = p.kind
        BY <1>2
    <2>11. new # <<>>
        BY <1>1, <2>2
    <2>12. Built(all, new)
        <3> HIDE DEF new, all
        <3> QED
            BY <2>2, <2>7, <2>8, <2>9, <2>10, <2>11 DEF Built
    <2> QED
        BY <2>1, <2>12
<1> QED
    BY <1>6, <1>7

\* The candle of the last pivot.
LEMMA NewestIs ==
    ASSUME NEW cs, IsSeries(cs)
    PROVE  /\ NewestOf(Singles(cs)) \in Nat
           /\ \A p \in Singles(cs) : p.at <= NewestOf(Singles(cs))
           /\ NewestOf(Singles(cs)) = 0 \/ \E p \in Singles(cs) : p.at = NewestOf(Singles(cs))
<1> DEFINE ats == {p.at : p \in Singles(cs)} \cup {0}
<1>1. PICK n \in Nat : DOMAIN cs \subseteq 0 .. n
    BY DEF IsSeries
<1>2. ats \subseteq 0 .. n
    BY <1>1, SinglesAre
<1>3. PICK m \in ats : \A x \in ats : x <= m
    <2> DEFINE back == {n - x : x \in ats}
    <2>1. back \in SUBSET Nat /\ back # {}
        BY <1>2
    <2>2. Min(back) \in back /\ \A y \in back : Min(back) <= y
        <3> HIDE DEF back
        <3> QED
            BY <2>1, LeastNatural
    <2>3. PICK m \in ats : Min(back) = n - m
        BY <2>2
    <2>4. ASSUME NEW x \in ats
          PROVE  x <= m
        <3>1. n - x \in back
            OBVIOUS
        <3>2. n - m <= n - x
            BY <2>2, <2>3, <3>1
        <3>3. x \in Nat /\ m \in Nat
            BY <1>2
        <3> QED
            BY <3>2, <3>3
    <2> QED
        BY <2>4
<1>4. NewestOf(Singles(cs)) = m
    <2>1. \A x \in ats : x \in Int
        BY <1>2
    <2>2. Max(ats) = m
        <3> HIDE DEF ats
        <3> QED
            BY <1>3, <2>1, GreatestIs
    <2> QED
        BY <2>2 DEF NewestOf
<1> QED
    BY <1>2, <1>3, <1>4

\* What the loop has made when it has been through the candles up to i.
LEMMA LoopBuilds ==
    ASSUME NEW cs, IsSeries(cs), NEW n \in Nat, NEW f, IsLoop(f, Singles(cs), n)
    PROVE  \A i \in -1 .. n : Built({p \in Singles(cs) : p.at <= i}, f[i])
<1> DEFINE upto(i) == {p \in Singles(cs) : p.at <= i}
           T == {k \in Nat : k - 1 <= n => Built(upto(k - 1), f[k - 1])}
<1>1. \A p \in Singles(cs) : p.at \in Nat
    BY SinglesAre
<1>2. ArePivots(Singles(cs))
    BY SinglesAre DEF ArePivots
<1>3. \A i \in -1 .. n : f[i] = IF i = -1 THEN <<>> ELSE Turn(Singles(cs), i, f[i - 1])
    BY DEF IsLoop
<1>4. 0 \in T
    <2>1. upto(0 - 1) = {}
        BY <1>1
    <2>2. f[0 - 1] = <<>>
        BY <1>3
    <2>3. Built({}, <<>>)
        <3>1. SUFFICES ASSUME NEW none, none = <<>>
                       PROVE  Built({}, none)
            OBVIOUS
        <3>2. none \in Seq({}) /\ Len(none) = 0 /\ DOMAIN none = {}
            BY <3>1
        <3>3. {none[x] : x \in DOMAIN none} = Extremes({})
            BY <3>2 DEF Extremes
        <3> QED
            BY <3>1, <3>2, <3>3 DEF Built
    <2> QED
        BY <2>1, <2>2, <2>3
<1>5. ASSUME NEW k \in Nat, k \in T
      PROVE  k + 1 \in T
    <2>1. SUFFICES ASSUME k <= n
                   PROVE  Built(upto(k), f[k])
        OBVIOUS
    <2>2. Built(upto(k - 1), f[k - 1])
        BY <1>5, <2>1
    <2>3. f[k] = Turn(Singles(cs), k, f[k - 1])
        BY <1>3, <2>1
    <2>4. CASE \E p \in Singles(cs) : p.at = k
        <3>1. PICK p \in Singles(cs) : p.at = k
            BY <2>4
        <3>2. (CHOOSE q \in Singles(cs) : q.at = k) = p
            BY <1>2, <3>1 DEF ArePivots
        <3>3. f[k] = AddToSwings(f[k - 1], p)
            BY <2>3, <2>4, <3>2 DEF Turn
        <3>4. upto(k) = upto(k - 1) \cup {p}
            BY <1>1, <1>2, <3>1 DEF ArePivots
        <3>5. \A q \in upto(k - 1) : q.at < p.at
            BY <1>1, <3>1
        <3>6. ArePivots(upto(k - 1) \cup {p})
            BY <1>2, <3>1 DEF ArePivots
        <3>7. CASE f[k - 1] = <<>> \/ Last(f[k - 1]).kind # p.kind
            <4>1. f[k] = Append(f[k - 1], p)
                BY <3>3, <3>7 DEF AddToSwings
            <4>2. Built(upto(k - 1) \cup {p}, Append(f[k - 1], p))
                <5> HIDE DEF upto
                <5> QED
                    BY <2>2, <3>5, <3>6, <3>7, RunBegins
            <4> QED
                BY <3>4, <4>1, <4>2
        <3>8. CASE f[k - 1] # <<>> /\ Last(f[k - 1]).kind = p.kind
            <4>1. Built(upto(k - 1) \cup {p}, AddToSwings(f[k - 1], p))
                <5> HIDE DEF upto
                <5> QED
                    BY <2>2, <3>5, <3>6, <3>8, RunGoesOn
            <4> QED
                BY <3>3, <3>4, <4>1
        <3> QED
            BY <3>7, <3>8
    <2>5. CASE ~ \E p \in Singles(cs) : p.at = k
        <3>1. f[k] = f[k - 1]
            BY <2>3, <2>5 DEF Turn
        <3>2. upto(k) = upto(k - 1)
            BY <1>1, <2>5
        <3> QED
            BY <2>2, <3>1, <3>2
    <2> QED
        BY <2>4, <2>5
<1>6. \A k \in Nat : k \in T
    <2> HIDE DEF T
    <2> QED
        BY <1>4, <1>5, AllNaturals
<1>7. ASSUME NEW i \in -1 .. n
      PROVE  Built(upto(i), f[i])
    <2>1. i + 1 \in Nat /\ (i + 1) - 1 = i
        OBVIOUS
    <2>2. i + 1 \in T
        <3> HIDE DEF T
        <3> QED
            BY <1>6, <2>1
    <2> QED
        BY <2>1, <2>2
<1> QED
    BY <1>7

\* The loop of swing_points comes to the extremes of the runs, in order.
LEMMA SwingsAreBuilt ==
    ASSUME NEW cs, IsSeries(cs)
    PROVE  Built(Singles(cs), SwingsOf(cs))
<1> DEFINE newest == NewestOf(Singles(cs))
<1>1. newest \in Nat /\ \A p \in Singles(cs) : p.at <= newest
    BY NewestIs
<1>2. PICK f : IsLoop(f, Singles(cs), newest) /\ SwingsOf(cs) = f[newest]
    BY <1>1, SwingsAreLooped
<1>3. Built({p \in Singles(cs) : p.at <= newest}, f[newest])
    <2> HIDE DEF newest
    <2> QED
        BY <1>1, <1>2, LoopBuilds
<1>4. {p \in Singles(cs) : p.at <= newest} = Singles(cs)
    BY <1>1
<1> QED
    BY <1>2, <1>3, <1>4

-----------------------------------------------------------------------------
(* What is confirmed is not repainted *)

\* A pivot that comes later leaves all swings but the last alone.
LEMMA AllButTheLastStay ==
    ASSUME NEW S, NEW swings \in Seq(S), NEW p \in S, NEW k \in 0 .. (Len(swings) - 1)
    PROVE  /\ AddToSwings(swings, p) \in Seq(S)
           /\ Len(swings) <= Len(AddToSwings(swings, p))
           /\ \A n \in 1 .. k : AddToSwings(swings, p)[n] = swings[n]
<1>1. Len(swings) \in Nat \ {0} /\ k < Len(swings) /\ DOMAIN swings = 1 .. Len(swings)
    OBVIOUS
<1>2. CASE AddToSwings(swings, p) = Append(swings, p)
    BY <1>1, <1>2
<1>3. CASE AddToSwings(swings, p) = [swings EXCEPT ![Len(swings)] = p]
    <2> DEFINE s == [swings EXCEPT ![Len(swings)] = p]
    <2>1. s \in Seq(S) /\ Len(s) = Len(swings)
        BY <1>1
    <2>2. \A n \in 1 .. k : s[n] = swings[n]
        <3>1. \A n \in 1 .. k : n \in DOMAIN swings /\ n # Len(swings)
            <4> DEFINE len == Len(swings)
            <4>1. k \in Int /\ len \in Nat /\ k < len /\ DOMAIN swings = 1 .. len
                BY <1>1
            <4> HIDE DEF len, s
            <4>2. \A n \in 1 .. k : n \in 1 .. len /\ n # len
                BY <4>1
            <4> QED
                BY <4>1, <4>2 DEF len
        <3>2. \A n \in DOMAIN swings : n # Len(swings) => s[n] = swings[n]
            BY Zenon
        <3> HIDE DEF s
        <3> QED
            BY <3>1, <3>2, Zenon
    <2>3. AddToSwings(swings, p) = s
        BY <1>3
    <2>4. Len(swings) <= Len(s)
        BY <1>1, <2>1
    <2> HIDE DEF s
    <2> QED
        BY <2>1, <2>2, <2>3, <2>4
<1>4. CASE AddToSwings(swings, p) = swings
    BY <1>1, <1>4
<1> QED
    BY <1>2, <1>3, <1>4 DEF AddToSwings

LEMMA IsPrefixByElements ==
    ASSUME NEW S, NEW T, NEW s \in Seq(S), NEW t \in Seq(T), Len(s) <= Len(t),
           \A n \in 1 .. Len(s) : s[n] = t[n]
    PROVE  IsPrefix(s, t)
<1>1. Len(s) \in Nat /\ Len(t) \in Nat
    OBVIOUS
<1>2. SubSeq(s, 1, Len(s)) = [n \in 1 .. Len(s) |-> s[n]]
    BY <1>1
<1>3. SubSeq(t, 1, Len(s)) = [n \in 1 .. Len(s) |-> t[n]]
    BY <1>1
<1> QED
    BY <1>2, <1>3 DEF IsPrefix

\* The turns of the loop up to the last pivot known are the same with later ones.
LEMMA TurnsStay ==
    ASSUME NEW cs, IsSeries(cs), NEW more, IsSeries(more), Continues(more, cs),
           NEW q \in Singles(cs), NEW i \in Nat, i <= q.at, NEW swings
    PROVE  Turn(Singles(more), i, swings) = Turn(Singles(cs), i, swings)
<1>1. /\ \A p \in Singles(cs) : p \in Singles(more)
      /\ \A p \in Singles(more) : p.at = i => p \in Singles(cs)
    <2>1. \A p \in Singles(more) \ Singles(cs) : q.at < p.at /\ p.at \in Nat /\ q.at \in Nat
        BY SinglesStay, SinglesAre
    <2> QED
        BY <2>1, SinglesStay
<1>2. ASSUME NEW p \in Singles(cs), p.at = i
      PROVE  /\ (CHOOSE x \in Singles(cs) : x.at = i) = p
             /\ (CHOOSE x \in Singles(more) : x.at = i) = p
    <2>1. \A x \in Singles(more) : x.at = i => x = p
        BY <1>1, <1>2, SinglesAre
    <2> QED
        BY <1>1, <1>2, <2>1
<1> QED
    BY <1>1, <1>2 DEF Turn

LEMMA SwingsStay ==
    ASSUME NEW cs, IsSeries(cs), NEW more, IsSeries(more), Continues(more, cs)
    PROVE  IsPrefix(Front(SwingsOf(cs)), SwingsOf(more))
<1> DEFINE old == SwingsOf(cs)
           was == NewestOf(Singles(cs))
           is == NewestOf(Singles(more))
<1>1. Built(Singles(cs), old) /\ Built(Singles(more), SwingsOf(more))
    BY SwingsAreBuilt
<1>2. old \in Seq(Singles(cs)) /\ SwingsOf(more) \in Seq(Singles(more))
    BY <1>1 DEF Built
<1>3. CASE Singles(cs) = {}
    <2>1. old = <<>>
        BY <1>2, <1>3
    <2>2. Front(old) = <<>>
        BY <2>1 DEF Front
    <2> DEFINE new == SwingsOf(more)
    <2>3. new \in Seq(Singles(more))
        BY <1>2
    <2>4. IsPrefix(Front(old), new)
        <3>1. /\ Front(old) \in Seq(Singles(cs)) /\ Len(Front(old)) = 0
              /\ Len(new) \in Nat
            BY <2>2, <2>3
        <3> HIDE DEF old, new
        <3>2. Len(Front(old)) <= Len(new)
            BY <3>1
        <3>3. \A n \in 1 .. Len(Front(old)) : Front(old)[n] = new[n]
            BY <3>1
        <3> QED
            BY <2>3, <3>1, <3>2, <3>3, IsPrefixByElements
    <2> QED
        BY <2>4
<1>4. CASE Singles(cs) # {}
    <2>1. was \in Nat /\ is \in Nat
        BY NewestIs
    <2>2. PICK q \in Singles(cs) : q.at = was
        BY <1>4, NewestIs, SinglesAre
    <2>3. was <= is
        BY <2>2, NewestIs, SinglesStay
    <2>4. PICK f : IsLoop(f, Singles(cs), was) /\ old = f[was]
        BY <2>1, SwingsAreLooped
    <2>5. PICK g : IsLoop(g, Singles(more), is) /\ SwingsOf(more) = g[is]
        BY <2>1, SwingsAreLooped
    <2>6. old # <<>>
        BY <1>1, <1>4 DEF Built
    <2>7. g[was] = f[was]
        <3> DEFINE T == {k \in Nat : k - 1 <= was => g[k - 1] = f[k - 1]}
        <3>1. 0 \in T
            <4>1. g[0 - 1] = <<>> /\ f[0 - 1] = <<>>
                BY <2>1, <2>4, <2>5 DEF IsLoop
            <4> QED
                BY <4>1
        <3>2. ASSUME NEW k \in Nat, k \in T
              PROVE  k + 1 \in T
            <4>1. SUFFICES ASSUME k <= was
                           PROVE  g[k] = f[k]
                OBVIOUS
            <4>2. g[k - 1] = f[k - 1]
                BY <2>1, <3>2, <4>1
            <4>3. /\ g[k] = Turn(Singles(more), k, g[k - 1])
                  /\ f[k] = Turn(Singles(cs), k, f[k - 1])
                BY <2>1, <2>3, <2>4, <2>5, <4>1 DEF IsLoop
            <4>4. Turn(Singles(more), k, f[k - 1]) = Turn(Singles(cs), k, f[k - 1])
                <5> HIDE DEF T
                <5> QED
                    BY <2>2, <4>1, TurnsStay
            <4> QED
                BY <4>2, <4>3, <4>4
        <3>3. was + 1 \in T
            <4>1. \A k \in Nat : k \in T
                <5> HIDE DEF T
                <5> QED
                    BY <3>1, <3>2, AllNaturals
            <4> QED
                BY <2>1, <4>1
        <3>4. (was + 1) - 1 = was
            BY <2>1
        <3> QED
            BY <2>1, <3>3, <3>4
    <2> DEFINE Kept(s) == /\ s \in Seq(Singles(more)) /\ Len(old) <= Len(s)
                          /\ \A n \in 1 .. (Len(old) - 1) : s[n] = old[n]
               T == {k \in Nat : was + k <= is => Kept(g[was + k])}
    <2>8. 0 \in T
        <3>1. old \in Seq(Singles(more))
            BY <1>2, SinglesStay
        <3>2. Kept(old)
            BY <3>1
        <3>3. was + 0 = was
            BY <2>1
        <3> QED
            BY <2>4, <2>7, <3>2, <3>3
    <2>9. ASSUME NEW k \in Nat, k \in T
          PROVE  k + 1 \in T
        <3>1. SUFFICES ASSUME was + (k + 1) <= is
                       PROVE  Kept(g[was + (k + 1)])
            OBVIOUS
        <3>2. Kept(g[was + k])
            BY <2>1, <2>9, <3>1
        <3> DEFINE i == was + (k + 1)
        <3>3. i \in 0 .. is /\ i - 1 = was + k
            BY <2>1, <3>1
        <3>4. g[i] = Turn(Singles(more), i, g[was + k])
            BY <2>1, <2>5, <3>3 DEF IsLoop
        <3>5. CASE g[i] = g[was + k]
            BY <3>2, <3>5
        <3>6. CASE \E p \in Singles(more) : g[i] = AddToSwings(g[was + k], p)
            <4>1. PICK p \in Singles(more) : g[i] = AddToSwings(g[was + k], p)
                BY <3>6
            <4>2. Len(old) \in Nat \ {0} /\ Len(g[was + k]) \in Nat
                BY <1>2, <2>6, <3>2
            <4>3. Len(old) - 1 \in 0 .. (Len(g[was + k]) - 1)
                BY <3>2, <4>2
            <4>4. /\ g[i] \in Seq(Singles(more))
                  /\ Len(g[was + k]) <= Len(g[i])
                  /\ \A n \in 1 .. (Len(old) - 1) : g[i][n] = g[was + k][n]
                <5> DEFINE s == g[was + k]
                           m == Len(old) - 1
                <5>1. s \in Seq(Singles(more)) /\ m \in 0 .. (Len(s) - 1)
                    BY <3>2, <4>3
                <5>2. g[i] = AddToSwings(s, p)
                    BY <4>1
                <5>3. /\ AddToSwings(s, p) \in Seq(Singles(more))
                      /\ Len(s) <= Len(AddToSwings(s, p))
                      /\ \A n \in 1 .. m : AddToSwings(s, p)[n] = s[n]
                    <6> HIDE DEF s, m
                    <6> QED
                        BY <5>1, AllButTheLastStay
                <5> QED
                    BY <5>2, <5>3
            <4>5. Len(g[i]) \in Nat
                BY <4>4
            <4> QED
                BY <3>2, <4>2, <4>4, <4>5
        <3> QED
            BY <3>4, <3>5, <3>6 DEF Turn
    <2>10. Kept(SwingsOf(more))
        <3>1. \A k \in Nat : k \in T
            <4> HIDE DEF T
            <4> QED
                BY <2>8, <2>9, AllNaturals
        <3>2. is - was \in Nat /\ was + (is - was) = is
            BY <2>1, <2>3
        <3>3. is - was \in T
            <4> HIDE DEF T
            <4> QED
                BY <3>1, <3>2
        <3> QED
            BY <2>1, <2>5, <3>2, <3>3
    <2>11. /\ Front(old) \in Seq(Singles(cs)) /\ Len(Front(old)) = Len(old) - 1
           /\ \A n \in 1 .. (Len(old) - 1) : Front(old)[n] = old[n]
        <3>1. old \in Seq(Singles(cs)) /\ Len(old) \in Nat \ {0}
            BY <1>2, <2>6
        <3> HIDE DEF old
        <3>2. Len(old) - 1 \in Nat /\ Len(old) - 1 <= Len(old)
            BY <3>1
        <3>3. Front(old) = [n \in 1 .. (Len(old) - 1) |-> old[n]]
            BY <3>1, <3>2 DEF Front
        <3>4. \A n \in 1 .. (Len(old) - 1) : old[n] \in Singles(cs)
            BY <3>1, <3>2
        <3>5. Front(old) \in Seq(Singles(cs))
            BY <3>2, <3>3, <3>4
        <3>6. Len(Front(old)) = Len(old) - 1
            BY <3>2, <3>3
        <3> QED
            BY <3>3, <3>5, <3>6
    <2>12. Len(Front(old)) <= Len(SwingsOf(more))
        BY <1>2, <2>6, <2>10, <2>11
    <2>13. \A n \in 1 .. Len(Front(old)) : Front(old)[n] = SwingsOf(more)[n]
        BY <2>10, <2>11
    <2>14. IsPrefix(Front(old), SwingsOf(more))
        <3> HIDE DEF old
        <3> QED
            BY <1>2, <2>11, <2>12, <2>13, IsPrefixByElements
    <2> QED
        BY <2>14
<1> QED
    BY <1>3, <1>4

-----------------------------------------------------------------------------
(* A window that loses its oldest candle and wins a new one *)

\* The loop may go on after the last pivot; it comes to the same swings.
LEMMA LoopGoesOn ==
    ASSUME NEW cs, IsSeries(cs), NEW n \in Nat, NewestOf(Singles(cs)) <= n
    PROVE  \E f : IsLoop(f, Singles(cs), n) /\ SwingsOf(cs) = f[n]
<1> DEFINE newest == NewestOf(Singles(cs))
<1>1. newest \in Nat /\ \A p \in Singles(cs) : p.at <= newest
    BY NewestIs
<1>2. PICK g : IsLoop(g, Singles(cs), newest) /\ SwingsOf(cs) = g[newest]
    BY <1>1, SwingsAreLooped
<1>3. PICK f : IsLoop(f, Singles(cs), n)
    BY LoopExists
<1> DEFINE T == {k \in Nat : k - 1 <= n => f[k - 1] = IF k - 1 <= newest THEN g[k - 1]
                                                      ELSE g[newest]}
<1>4. 0 \in T
    <2>1. f[0 - 1] = <<>> /\ g[0 - 1] = <<>>
        BY <1>1, <1>2, <1>3 DEF IsLoop
    <2> QED
        BY <1>1, <2>1
<1>5. ASSUME NEW k \in Nat, k \in T
      PROVE  k + 1 \in T
    <2>1. SUFFICES ASSUME k <= n
                   PROVE  f[k] = IF k <= newest THEN g[k] ELSE g[newest]
        OBVIOUS
    <2>2. f[k] = Turn(Singles(cs), k, f[k - 1])
        BY <1>3, <2>1 DEF IsLoop
    <2>3. f[k - 1] = IF k - 1 <= newest THEN g[k - 1] ELSE g[newest]
        BY <1>5, <2>1
    <2>4. CASE k <= newest
        <3>1. g[k] = Turn(Singles(cs), k, g[k - 1])
            BY <1>1, <1>2, <2>4 DEF IsLoop
        <3> QED
            BY <1>1, <2>2, <2>3, <2>4, <3>1
    <2>5. CASE k > newest
        <3>1. ~ \E p \in Singles(cs) : p.at = k
            BY <1>1, <2>5, SinglesAre
        <3>2. f[k] = f[k - 1]
            BY <2>2, <3>1 DEF Turn
        <3>3. k - 1 <= newest => k - 1 = newest
            BY <1>1, <2>5
        <3> QED
            BY <1>1, <2>3, <2>5, <3>2, <3>3
    <2> QED
        BY <1>1, <2>4, <2>5
<1>6. n + 1 \in T
    <2> HIDE DEF T
    <2>1. \A k \in Nat : k \in T
        BY <1>4, <1>5, AllNaturals
    <2> QED
        BY <2>1
<1>7. (n + 1) - 1 = n
    OBVIOUS
<1>8. f[n] = g[newest]
    <2>1. f[n] = IF n <= newest THEN g[n] ELSE g[newest]
        BY <1>6, <1>7
    <2> QED
        BY <1>1, <2>1
<1> QED
    BY <1>2, <1>3, <1>8

\* Swings that lost the first pivot of their first run: it may have been a run of
\* its own, or leave one that is no further out.
Cut(all, rest) ==
    \/ /\ Len(all) = Len(rest) + 1
       /\ \A n \in 1 .. Len(rest) : rest[n] = all[n + 1]
    \/ /\ Len(all) = Len(rest) /\ Len(rest) > 0
       /\ \A n \in 2 .. Len(rest) : rest[n] = all[n]
       /\ rest[1].kind = all[1].kind
       /\ ~Beyond(rest[1].kind, rest[1].price, all[1].price)

AreCut(S, all, rest) ==
    all \in Seq(S) /\ rest \in Seq(S) /\ (rest = all \/ Cut(all, rest))

\* What a pivot does to swings: it begins a run, takes the place of the last swing,
\* or leaves it.
Taken(swings, p, after) ==
    LET n == Len(swings)
    IN  \/ /\ n = 0 \/ swings[n].kind # p.kind
           /\ Len(after) = n + 1 /\ after[n + 1] = p
           /\ \A i \in 1 .. n : after[i] = swings[i]
        \/ /\ n > 0 /\ swings[n].kind = p.kind
           /\ Beyond(p.kind, p.price, swings[n].price)
           /\ Len(after) = n /\ after[n] = p
           /\ \A i \in 1 .. n : i # n => after[i] = swings[i]
        \/ /\ n > 0 /\ swings[n].kind = p.kind
           /\ ~Beyond(p.kind, p.price, swings[n].price)
           /\ after = swings

LEMMA PivotIsTaken ==
    ASSUME NEW S, NEW swings \in Seq(S), NEW p \in S
    PROVE  /\ AddToSwings(swings, p) \in Seq(S)
           /\ Taken(swings, p, AddToSwings(swings, p))
<1> DEFINE l == Last(swings)
           n == Len(swings)
           after == AddToSwings(swings, p)
<1>1. n \in Nat /\ (swings = <<>> <=> n = 0) /\ l = swings[n]
    BY DEF Last
<1>2. CASE swings = <<>> \/ l.kind # p.kind
    <2>1. after = Append(swings, p)
        BY <1>2 DEF AddToSwings
    <2>2. /\ after \in Seq(S) /\ Len(after) = n + 1 /\ after[n + 1] = p
          /\ \A i \in 1 .. n : after[i] = swings[i]
        BY <2>1
    <2> HIDE DEF after, l, n
    <2> QED
        BY <1>1, <1>2, <2>2 DEF Taken, n, after
<1>3. CASE swings # <<>> /\ l.kind = p.kind /\ Beyond(p.kind, p.price, l.price)
    <2> DEFINE r == [swings EXCEPT ![n] = p]
    <2>1. after = r
        BY <1>3 DEF AddToSwings
    <2>2. /\ r \in Seq(S) /\ Len(r) = n /\ r[n] = p
          /\ \A i \in 1 .. n : i # n => r[i] = swings[i]
        BY <1>1, <1>3
    <2>3. /\ after \in Seq(S) /\ Len(after) = n /\ after[n] = p
          /\ \A i \in 1 .. n : i # n => after[i] = swings[i]
        <3> HIDE DEF r, after
        <3> QED
            BY <2>1, <2>2
    <2> HIDE DEF after, l, n, r
    <2> QED
        BY <1>1, <1>3, <2>3 DEF Taken, n, after
<1>4. CASE swings # <<>> /\ l.kind = p.kind /\ ~Beyond(p.kind, p.price, l.price)
    <2>1. after = swings
        BY <1>4 DEF AddToSwings
    <2> HIDE DEF after, l, n
    <2> QED
        BY <1>1, <1>4, <2>1 DEF Taken, n, after
<1> QED
    BY <1>2, <1>3, <1>4

LEMMA CutGoesOn ==
    ASSUME NEW S, \A p \in S : p.price \in Int, NEW all, NEW rest, AreCut(S, all, rest),
           NEW p \in S
    PROVE  AreCut(S, AddToSwings(all, p), AddToSwings(rest, p))
<1> DEFINE a == AddToSwings(all, p)
           b == AddToSwings(rest, p)
           k == Len(all)
           m == Len(rest)
<1>1. all \in Seq(S) /\ rest \in Seq(S)
    BY DEF AreCut
<1>2. a \in Seq(S) /\ b \in Seq(S) /\ Taken(all, p, a) /\ Taken(rest, p, b)
    BY <1>1, PivotIsTaken
<1>3. CASE rest = all
    BY <1>2, <1>3 DEF AreCut
<1> SUFFICES ASSUME Cut(all, rest)
             PROVE  Cut(a, b) \/ a = b
    BY <1>2, <1>3 DEF AreCut
<1>9. /\ k \in Nat /\ m \in Nat /\ Len(a) \in Nat /\ Len(b) \in Nat
      /\ \A n \in 1 .. k : all[n] \in S
      /\ \A n \in 1 .. m : rest[n] \in S
    BY <1>1, <1>2
<1> HIDE DEF a, b
<1>11. CASE m = 0
    <2>1. k = 1
        BY <1>9, <1>11 DEF Cut
    <2>2. Len(b) = 1 /\ b[1] = p
        BY <1>2, <1>11 DEF Taken
    <2>3. \/ Len(a) = 2 /\ a[1] = all[1] /\ a[2] = p
          \/ Len(a) = 1 /\ a[1] = p
          \/ /\ Len(a) = 1 /\ a[1] = all[1] /\ all[1].kind = p.kind
             /\ ~Beyond(p.kind, p.price, all[1].price)
        BY <1>2, <2>1 DEF Taken
    <2>4. ~Beyond(p.kind, p.price, p.price)
        BY DEF Beyond
    <2> QED
        BY <1>9, <2>2, <2>3, <2>4 DEF Cut
<1>12. CASE m > 0 /\ k > 1
    <2>1. all[k] = rest[m] /\ (k = m + 1 \/ k = m)
        BY <1>9, <1>12 DEF Cut
    <2>2. \/ /\ Len(a) = k + 1 /\ a[k + 1] = p /\ \A n \in 1 .. k : a[n] = all[n]
             /\ Len(b) = m + 1 /\ b[m + 1] = p /\ \A n \in 1 .. m : b[n] = rest[n]
          \/ /\ Len(a) = k /\ a[k] = p /\ \A n \in 1 .. k : n # k => a[n] = all[n]
             /\ Len(b) = m /\ b[m] = p /\ \A n \in 1 .. m : n # m => b[n] = rest[n]
          \/ a = all /\ b = rest
        BY <1>2, <1>12, <2>1 DEF Taken
    <2>3. CASE k = m + 1
        <3>1. \A n \in 1 .. m : rest[n] = all[n + 1]
            BY <1>9, <2>3 DEF Cut
        <3>2. Len(a) = Len(b) + 1
            BY <1>9, <2>2, <2>3
        <3>3. ASSUME NEW n \in 1 .. Len(b)
              PROVE  b[n] = a[n + 1]
            <4>1. CASE Len(b) = m + 1 /\ n = m + 1
                BY <1>9, <2>2, <2>3, <4>1
            <4>2. CASE Len(b) = m + 1 /\ n # m + 1
                <5>1. n \in 1 .. m /\ n + 1 \in 1 .. k
                    BY <1>9, <2>3, <4>2
                <5> QED
                    BY <1>9, <2>2, <3>1, <4>2, <5>1
            <4>3. CASE Len(b) = m
                <5>1. n \in 1 .. m /\ n + 1 \in 1 .. k
                    BY <1>9, <2>3, <4>3
                <5>2. n # m => n + 1 # k
                    BY <1>9, <2>3, <5>1
                <5> QED
                    BY <1>9, <2>2, <2>3, <3>1, <4>3, <5>1, <5>2
            <4> QED
                BY <2>2, <4>1, <4>2, <4>3
        <3> QED
            BY <3>2, <3>3 DEF Cut
    <2>4. CASE k = m
        <3>1. /\ \A n \in 2 .. m : rest[n] = all[n]
              /\ rest[1].kind = all[1].kind
              /\ ~Beyond(rest[1].kind, rest[1].price, all[1].price)
            BY <1>9, <2>4 DEF Cut
        <3>2. a[1] = all[1] /\ b[1] = rest[1]
            BY <1>9, <1>12, <2>2, <2>4
        <3>3. Len(a) = Len(b) /\ Len(b) > 0
            BY <1>9, <1>12, <2>2, <2>4
        <3>4. \A n \in 2 .. Len(b) : b[n] = a[n]
            BY <1>9, <1>12, <2>2, <2>4, <3>1
        <3> QED
            BY <3>1, <3>2, <3>3, <3>4 DEF Cut
    <2> QED
        BY <2>1, <2>3, <2>4
<1>13. CASE m = 1 /\ k = 1
    <2> DEFINE x == all[1]
               y == rest[1]
    <2>1. /\ x.kind = y.kind /\ ~Beyond(y.kind, y.price, x.price)
          /\ x.price \in Int /\ y.price \in Int /\ p.price \in Int
        BY <1>9, <1>13 DEF Cut
    <2>3. CASE x.kind # p.kind
        <3>1. /\ Len(a) = 2 /\ a[1] = x /\ a[2] = p
              /\ Len(b) = 2 /\ b[1] = y /\ b[2] = p
            BY <1>2, <1>13, <2>1, <2>3 DEF Taken
        <3> QED
            BY <2>1, <3>1 DEF Cut
    <2>4. CASE x.kind = p.kind
        <3>1. Len(a) = 1 /\ a[1] = IF Beyond(p.kind, p.price, x.price) THEN p ELSE x
            BY <1>2, <1>13, <2>4 DEF Taken
        <3>2. Len(b) = 1 /\ b[1] = IF Beyond(p.kind, p.price, y.price) THEN p ELSE y
            BY <1>2, <1>13, <2>1, <2>4 DEF Taken
        <3> HIDE DEF x, y
        <3>3. a[1].kind = p.kind /\ b[1].kind = p.kind
            BY <2>1, <2>4, <3>1, <3>2
        <3>4. ~Beyond(p.kind, b[1].price, a[1].price)
            <4>1. CASE Beyond(p.kind, p.price, x.price)
                <5>1. Beyond(p.kind, p.price, y.price)
                    BY <2>1, <2>4, <4>1 DEF Beyond
                <5> QED
                    BY <2>1, <3>1, <3>2, <4>1, <5>1 DEF Beyond
            <4>2. CASE ~Beyond(p.kind, p.price, x.price)
                BY <2>1, <2>4, <3>1, <3>2, <4>2
            <4> QED
                BY <4>1, <4>2
        <3> QED
            BY <3>1, <3>2, <3>3, <3>4 DEF Cut
    <2> QED
        BY <2>3, <2>4
<1>14. m = 0 \/ (m > 0 /\ k > 1) \/ (m = 1 /\ k = 1)
    <2>1. k = m + 1 \/ (k = m /\ m > 0)
        BY DEF Cut
    <2>2. k \in Nat /\ m \in Nat
        BY <1>9
    <2> HIDE DEF k, m
    <2> QED
        BY <2>1, <2>2
<1> QED
    BY <1>11, <1>12, <1>13, <1>14

\* Swings that lost at most the first pivot and then took at most one more.
Moved(S, before, after) ==
    \E kept : /\ AreCut(S, before, kept)
              /\ after = kept \/ \E z \in S : after = AddToSwings(kept, z)

\* The pivots of a window that moved on are those it had, but for the earliest and
\* the latest; so are its swings.
LEMMA SwingsMove ==
    ASSUME NEW cs, IsSeries(cs), NEW more, IsSeries(more), NEW lo \in Int, NEW hi \in Int,
           \A p \in Singles(cs) : lo <= p.at /\ p.at < hi,
           \A p \in Singles(more) : lo < p.at /\ p.at <= hi,
           \A p \in Singles(cs) : p.at # lo => p \in Singles(more),
           \A p \in Singles(more) : p.at # hi => p \in Singles(cs)
    PROVE  Moved(Singles(cs) \cup Singles(more), SwingsOf(cs), SwingsOf(more))
<1> DEFINE P == Singles(cs)
           Q == Singles(more)
           S == P \cup Q
           was == NewestOf(P)
           is == NewestOf(Q)
           n == IF was <= is THEN is ELSE was
<1>1. was \in Nat /\ is \in Nat
    BY NewestIs
<1>2. n \in Nat /\ was <= n /\ is <= n
    BY <1>1
<1>3. PICK f : IsLoop(f, P, n) /\ SwingsOf(cs) = f[n]
    <2> HIDE DEF n
    <2> QED
        BY <1>2, LoopGoesOn
<1>4. PICK g : IsLoop(g, Q, n) /\ SwingsOf(more) = g[n]
    <2> HIDE DEF n
    <2> QED
        BY <1>2, LoopGoesOn
<1>5. /\ \A p \in S : p.at \in Nat /\ p.price \in Int
      /\ \A p, q \in P : p.at = q.at => p = q
      /\ \A p, q \in Q : p.at = q.at => p = q
    BY SinglesAre
<1>6. ASSUME NEW R, R = P \/ R = Q, NEW p \in R, NEW swings
      PROVE  Turn(R, p.at, swings) = AddToSwings(swings, p)
    <2>1. (CHOOSE q \in R : q.at = p.at) = p
        BY <1>5, <1>6
    <2> QED
        BY <1>6, <2>1 DEF Turn
<1>7. ASSUME NEW R, NEW i, \A p \in R : p.at # i, NEW swings
      PROVE  Turn(R, i, swings) = swings
    BY <1>7 DEF Turn
<1> DEFINE Rel(i) == /\ i < lo => f[i] = <<>> /\ g[i] = <<>>
                     /\ i < hi => AreCut(S, f[i], g[i])
                     /\ Moved(S, f[i], g[i])
           T == {k \in Nat : k - 1 <= n => Rel(k - 1)}
<1>8. AreCut(S, <<>>, <<>>)
    BY DEF AreCut
<1>9. \A a, b : AreCut(S, a, b) => Moved(S, a, b)
    BY DEF Moved
<1>10. 0 \in T
    <2>1. f[0 - 1] = <<>> /\ g[0 - 1] = <<>>
        BY <1>2, <1>3, <1>4 DEF IsLoop
    <2> HIDE DEF S
    <2> QED
        BY <1>8, <1>9, <2>1
<1>11. ASSUME NEW k \in Nat, k \in T
       PROVE  k + 1 \in T
    <2>1. SUFFICES ASSUME k <= n
                   PROVE  Rel(k)
        OBVIOUS
    <2>2. Rel(k - 1)
        BY <1>2, <1>11, <2>1
    <2>3. f[k] = Turn(P, k, f[k - 1]) /\ g[k] = Turn(Q, k, g[k - 1])
        BY <1>2, <1>3, <1>4, <2>1 DEF IsLoop
    <2> DEFINE a == f[k - 1]
               b == g[k - 1]
    <2>4. CASE (\A p \in P : p.at # k) /\ (\A q \in Q : q.at # k)
        <3>1. f[k] = a /\ g[k] = b
            BY <1>7, <2>3, <2>4
        <3>2. k - 1 < k
            OBVIOUS
        <3> HIDE DEF S, n
        <3> QED
            BY <2>2, <3>1, <3>2
    <2>5. ASSUME NEW p \in P, p.at = k, NEW q \in Q, q.at = k
          PROVE  Rel(k)
        <3>1. lo < k /\ k < hi /\ p = q
            BY <1>5, <2>5
        <3>2. f[k] = AddToSwings(a, p) /\ g[k] = AddToSwings(b, p)
            BY <1>6, <2>3, <2>5, <3>1
        <3>3. AreCut(S, a, b)
            BY <2>2, <3>1
        <3>4. AreCut(S, AddToSwings(a, p), AddToSwings(b, p))
            <4>1. p \in S
                OBVIOUS
            <4> HIDE DEF S, a, b
            <4> QED
                BY <1>5, <3>3, <4>1, CutGoesOn
        <3> HIDE DEF S, n
        <3> QED
            BY <1>9, <3>1, <3>2, <3>4
    <2>6. ASSUME NEW p \in P, p.at = k, \A q \in Q : q.at # k
          PROVE  Rel(k)
        <3>1. k = lo /\ k < hi
            BY <2>6
        <3>2. a = <<>> /\ b = <<>>
            BY <2>2, <3>1
        <3>3. f[k] = AddToSwings(<<>>, p) /\ g[k] = <<>>
            BY <1>6, <1>7, <2>3, <2>6, <3>2
        <3>4. AddToSwings(<<>>, p) = <<p>>
            BY DEF AddToSwings
        <3>5. AreCut(S, <<p>>, <<>>)
            <4>1. <<p>> \in Seq(S) /\ <<>> \in Seq(S)
                OBVIOUS
            <4>2. Len(<<p>>) = 1 /\ Len(<<>>) = 0
                OBVIOUS
            <4> QED
                BY <4>1, <4>2 DEF AreCut, Cut
        <3> HIDE DEF S, n
        <3> QED
            BY <1>9, <3>1, <3>3, <3>4, <3>5
    <2>7. ASSUME NEW q \in Q, q.at = k, \A p \in P : p.at # k
          PROVE  Rel(k)
        <3>1. k = hi /\ lo < k
            BY <2>7
        <3>2. f[k] = a /\ g[k] = AddToSwings(b, q)
            BY <1>6, <1>7, <2>3, <2>7
        <3>3. AreCut(S, a, b)
            BY <2>2, <3>1
        <3>4. q \in S
            OBVIOUS
        <3> HIDE DEF S, n
        <3>5. Moved(S, a, AddToSwings(b, q))
            BY <3>3, <3>4 DEF Moved
        <3> QED
            BY <3>1, <3>2, <3>5
    <2> QED
        BY <2>4, <2>5, <2>6, <2>7
<1>12. n + 1 \in T
    <2>1. \A k \in Nat : k \in T
        <3> HIDE DEF T
        <3> QED
            BY <1>10, <1>11, AllNaturals
    <2>2. n + 1 \in Nat
        BY <1>2
    <2> QED
        BY <2>1, <2>2
<1>13. (n + 1) - 1 = n
    BY <1>2
<1>14. Rel(n)
    BY <1>12, <1>13
<1> QED
    BY <1>3, <1>4, <1>14

\* A pivot that stands alone does so in any window that has its neighbourhood.
LEMMA SinglesAgree ==
    ASSUME NEW cs, IsSeries(cs), NEW more, IsSeries(more), NEW p \in Singles(cs),
           \A i \in (p.at - K) .. (p.at + K) : i \in DOMAIN more /\ more[i] = cs[i]
    PROVE  p \in Singles(more)
<1> DEFINE x == p.at
<1>1. /\ p \in ConfirmedPivots(cs) /\ x \in DOMAIN cs /\ x \in Nat
      /\ \A q \in ConfirmedPivots(cs) : q.at = x => q = p
    BY SinglesAre
<1>2. K \in Nat /\ K > 0
    BY PivotAssumption
<1>3. /\ p.kind \in PivotKind /\ IsConfirmed(cs, x, p.kind) /\ p = Pivot(cs, x, p.kind)
    BY <1>1, ConfirmedPivotsAre
<1>4. (x - K) .. (x + K) \subseteq DOMAIN cs /\ (x - K) .. (x + K) \subseteq DOMAIN more
    BY <1>3 DEF IsConfirmed
<1>5. /\ x \in (x - K) .. (x + K)
      /\ (x - K) .. (x - 1) \subseteq (x - K) .. (x + K)
      /\ (x + 1) .. (x + K) \subseteq (x - K) .. (x + K)
    BY <1>1, <1>2
<1>6. \A kind \in PivotKind : /\ IsConfirmed(cs, x, kind) <=> IsConfirmed(more, x, kind)
                              /\ Pivot(cs, x, kind) = Pivot(more, x, kind)
    <2>1. \A i \in (x - K) .. (x + K) : cs[i] = more[i]
        OBVIOUS
    <2> HIDE DEF x
    <2> QED
        BY <1>4, <1>5, <2>1 DEF IsConfirmed, Pivot
<1>7. p \in ConfirmedPivots(more)
    BY <1>3, <1>4, <1>5, <1>6, ConfirmedPivotsAre
<1>8. ASSUME NEW q \in ConfirmedPivots(more), q.at = x
      PROVE  q = p
    <2>1. /\ q.kind \in PivotKind /\ IsConfirmed(more, x, q.kind)
          /\ q = Pivot(more, x, q.kind)
        BY <1>8, ConfirmedPivotsAre
    <2>2. Pivot(cs, x, q.kind) \in ConfirmedPivots(cs)
        BY <1>1, <1>6, <2>1, ConfirmedPivotsAre
    <2>3. q \in ConfirmedPivots(cs)
        BY <1>6, <2>1, <2>2
    <2> QED
        BY <1>1, <1>8, <2>3
<1> QED
    BY <1>7, <1>8, SinglesAre

\* One window moves on to another: it wins a later candle, and may lose its first.
MovesOn(cs, more) ==
    \E c \in DOMAIN more :
       /\ \A i \in DOMAIN cs : i < c
       /\ \A i \in DOMAIN more : i # c => i \in DOMAIN cs /\ more[i] = cs[i]
       /\ \A i \in DOMAIN cs \ DOMAIN more : \A j \in DOMAIN cs : i <= j

LEMMA SwingsOfWindowMove ==
    ASSUME NEW cs, IsSeries(cs), NEW more, IsSeries(more), MovesOn(cs, more)
    PROVE  Moved(Singles(cs) \cup Singles(more), SwingsOf(cs), SwingsOf(more))
<1>1. PICK c \in DOMAIN more :
         /\ \A i \in DOMAIN cs : i < c
         /\ \A i \in DOMAIN more : i # c => i \in DOMAIN cs /\ more[i] = cs[i]
         /\ \A i \in DOMAIN cs \ DOMAIN more : \A j \in DOMAIN cs : i <= j
    BY DEF MovesOn
<1>2. DOMAIN cs \in SUBSET Nat /\ DOMAIN more \in SUBSET Nat /\ c \in Nat
    BY <1>1, IndicesOfSeries
<1>3. K \in Nat /\ K > 0
    BY PivotAssumption
<1>4. \A x \in {cs, more} : \A p \in Singles(x) :
         /\ p.at \in Nat \ {0} /\ (p.at - K) .. (p.at + K) \subseteq DOMAIN x
    <2>1. ASSUME NEW x, IsSeries(x), NEW p \in Singles(x)
          PROVE  p.at \in Nat \ {0} /\ (p.at - K) .. (p.at + K) \subseteq DOMAIN x
        <3>1. p \in ConfirmedPivots(x) /\ p.at \in Nat \ {0}
            BY <2>1, SinglesAre
        <3> QED
            BY <2>1, <3>1, ConfirmedPivotsAre DEF IsConfirmed
    <2> QED
        BY <2>1
<1>5. ASSUME NEW x \in {cs, more}, NEW p \in Singles(x)
      PROVE  p.at - K \in DOMAIN x /\ p.at + K \in DOMAIN x
    <2>1. /\ p.at - K \in (p.at - K) .. (p.at + K)
          /\ p.at + K \in (p.at - K) .. (p.at + K)
        BY <1>3, <1>4
    <2> QED
        BY <1>4, <2>1
<1>6. \A p \in Singles(cs) : p.at < c - K
    <2>1. ASSUME NEW p \in Singles(cs)
          PROVE  p.at < c - K
        <3>1. p.at + K < c /\ p.at \in Nat
            BY <1>1, <1>4, <1>5
        <3> QED
            BY <1>2, <1>3, <3>1
    <2> QED
        BY <2>1
<1>7. \A p \in Singles(more) : p.at <= c - K
    <2>1. ASSUME NEW p \in Singles(more)
          PROVE  p.at <= c - K
        <3>1. p.at + K \in DOMAIN more /\ p.at \in Nat
            BY <1>4, <1>5
        <3>2. p.at + K <= c
            BY <1>1, <1>2, <1>3, <3>1
        <3> QED
            BY <1>2, <1>3, <3>1, <3>2
    <2> QED
        BY <2>1
<1>8. ASSUME NEW p \in Singles(more), p.at # c - K
      PROVE  p \in Singles(cs)
    <2>1. ASSUME NEW i \in (p.at - K) .. (p.at + K)
          PROVE  i \in DOMAIN cs /\ cs[i] = more[i]
        <3>1. i \in DOMAIN more /\ p.at \in Nat /\ p.at < c - K
            BY <1>2, <1>3, <1>4, <1>7, <1>8, <2>1
        <3>2. i # c
            BY <1>2, <1>3, <2>1, <3>1
        <3> QED
            BY <1>1, <3>1, <3>2
    <2> QED
        BY <2>1, SinglesAgree
<1>9. ASSUME NEW p \in Singles(cs), \A i \in (p.at - K) .. (p.at + K) : i \in DOMAIN more
      PROVE  p \in Singles(more)
    <2>1. ASSUME NEW i \in (p.at - K) .. (p.at + K)
          PROVE  i \in DOMAIN more /\ more[i] = cs[i]
        <3>1. i \in DOMAIN cs /\ i \in DOMAIN more
            BY <1>4, <1>9, <2>1
        <3>2. i # c
            BY <1>1, <1>2, <3>1
        <3> QED
            BY <1>1, <3>1, <3>2
    <2> QED
        BY <2>1, SinglesAgree
<1>10. CASE DOMAIN cs \subseteq DOMAIN more
    <2>1. /\ \A p \in Singles(cs) : 0 <= p.at
          /\ \A p \in Singles(more) : 0 < p.at
        BY <1>4
    <2>2. \A p \in Singles(cs) : p \in Singles(more)
        BY <1>4, <1>9, <1>10
    <2>3. 0 \in Int /\ c - K \in Int
        BY <1>2, <1>3
    <2> QED
        BY <1>6, <1>7, <1>8, <2>1, <2>2, <2>3, SwingsMove
<1>11. CASE \E w \in DOMAIN cs : w \notin DOMAIN more
    <2>1. PICK w \in DOMAIN cs : w \notin DOMAIN more
        BY <1>11
    <2>2. /\ w \in Nat /\ w < c
          /\ \A i \in DOMAIN cs : w <= i /\ (i # w => i \in DOMAIN more)
        <3>1. w \in Nat /\ w < c /\ \A i \in DOMAIN cs : w <= i
            BY <1>1, <1>2, <2>1
        <3>2. ASSUME NEW i \in DOMAIN cs, i \notin DOMAIN more
              PROVE  i = w
            <4>1. i <= w /\ w <= i /\ i \in Nat
                BY <1>1, <1>2, <2>1, <3>2
            <4> QED
                BY <3>1, <4>1
        <3> QED
            BY <3>1, <3>2
    <2> DEFINE lo == w + K
    <2>3. lo \in Int /\ c - K \in Int
        BY <1>2, <1>3, <2>2
    <2>4. \A p \in Singles(cs) : lo <= p.at
        <3>1. ASSUME NEW p \in Singles(cs)
              PROVE  lo <= p.at
            <4>1. w <= p.at - K /\ p.at \in Nat
                BY <1>4, <1>5, <2>2
            <4> QED
                BY <1>3, <2>2, <4>1
        <3> QED
            BY <3>1
    <2>5. \A p \in Singles(more) : lo < p.at
        <3>1. ASSUME NEW p \in Singles(more)
              PROVE  lo < p.at
            <4>1. p.at - K \in DOMAIN more /\ p.at \in Nat
                BY <1>4, <1>5
            <4>2. w < p.at - K
                <5> DEFINE i == p.at - K
                <5>1. i \in DOMAIN more /\ i \in Nat /\ i # w
                    BY <1>2, <2>1, <4>1
                <5>2. i = c \/ i \in DOMAIN cs
                    BY <1>1, <5>1
                <5> HIDE DEF i
                <5>3. w < i
                    BY <2>2, <5>1, <5>2
                <5> QED
                    BY <5>3 DEF i
            <4> QED
                BY <1>3, <2>2, <4>1, <4>2
        <3> QED
            BY <3>1
    <2>6. ASSUME NEW p \in Singles(cs), p.at # lo
          PROVE  p \in Singles(more)
        <3>1. p.at \in Nat /\ lo < p.at
            BY <1>4, <2>3, <2>4, <2>6
        <3>2. ASSUME NEW i \in (p.at - K) .. (p.at + K)
              PROVE  i \in DOMAIN more
            <4>1. i \in DOMAIN cs
                BY <1>4, <3>2
            <4>2. w < i
                BY <1>3, <2>2, <3>1, <3>2
            <4> QED
                BY <2>2, <4>1, <4>2
        <3> QED
            BY <1>9, <3>2
    <2> HIDE DEF lo
    <2> QED
        BY <1>6, <1>7, <1>8, <2>3, <2>4, <2>5, <2>6, SwingsMove
<1> QED
    BY <1>10, <1>11
=============================================================================
