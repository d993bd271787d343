-------------------------- MODULE FibonacciProofs ---------------------------
(***************************************************************************)
(* Theorems about FibonacciLifecycle, for every market, every order of     *)
(* arrival and every value of the parameters.                              *)
(***************************************************************************)
EXTENDS FibonacciLifecycle, MarketStructureProofs

-----------------------------------------------------------------------------
(* Lemmas about the operators the model is built from *)

\* One tick later no fewer candles have closed, and one that has closed by a
\* tick closed no later than it.
LEMMA ClosedCandles ==
    ASSUME NEW t \in Nat
    PROVE  /\ NewestClosed(t) \in Int
           /\ NewestClosed(t) <= NewestClosed(t + 1)
           /\ \A i \in 0 .. NewestClosed(t) : CloseTime(i) \in Nat /\ CloseTime(i) <= t
<1>1. Floor(t) \in Int /\ Floor(t + 1) \in Int /\ Floor(t) <= Floor(t + 1)
  BY PeriodAssumption DEF Floor
<1>2. Floor(t) * Duration <= t
  BY PeriodAssumption DEF Floor
<1>3. ASSUME NEW i \in 0 .. NewestClosed(t)
      PROVE  CloseTime(i) \in Nat /\ CloseTime(i) <= t
  <2>1. i + 1 \in Nat /\ i + 1 <= Floor(t)
    BY <1>1 DEF NewestClosed
  <2>2. (i + 1) * Duration \in Nat /\ (i + 1) * Duration <= Floor(t) * Duration
    BY <1>1, <2>1, PeriodAssumption
  <2>. QED
    BY <1>1, <1>2, <2>2, PeriodAssumption DEF CloseTime
<1>. QED
  BY <1>1, <1>3 DEF NewestClosed

\* An impulse joins two candles that are known, and so is the one that
\* confirms its end.
LEMMA ImpulsesAreConfirmed ==
    ASSUME NEW cs, DOMAIN cs \subseteq Nat, NEW t,
           NEW g \in SearchImpulses(cs, t).impulses
    PROVE  /\ g \in Instance
           /\ g.start \in DOMAIN cs
           /\ g.end \in DOMAIN cs
           /\ ConfirmingCandle(g) \in DOMAIN cs
<1>. DEFINE swings == RunExtremes(DetectPivots(cs))
<1>1. g \in FindImpulses(cs, swings)
  BY DEF SearchImpulses
<1>2. PICK a \in swings, b \in swings :
         g = [direction |-> IF b.kind = "HIGH" THEN "BULLISH" ELSE "BEARISH",
              start |-> a.at, end |-> b.at]
  BY <1>1 DEF FindImpulses
<1>3. ASSUME NEW p \in swings
      PROVE  p.at \in DOMAIN cs /\ p.at + K \in DOMAIN cs
  <2>1. p \in DetectPivots(cs) /\ p.status = "CONFIRMED"
    BY DEF RunExtremes, SinglePivots, Confirmed
  <2>2. /\ p.at \in DOMAIN cs
        /\ Contiguous(cs, p.at)
        /\ RightSide(cs, p.at) = K
    BY <2>1 DEF DetectPivots, IsPivot
  <2>. QED
    BY <2>2, PivotAssumption DEF Contiguous
<1>. QED
  BY <1>2, <1>3 DEF Instance, Direction, ConfirmingCandle


-----------------------------------------------------------------------------
(* The steps of the replay *)

\* The ends of an instance are candles that are known: later candles never
\* take them away, so its prices are fixed.
Grounded ==
    \A g \in DOMAIN born : g.start \in DOMAIN candles /\ g.end \in DOMAIN candles

\* What receiving candles does, whatever is concluded from them.
LEMMA Receiving ==
    ASSUME TypeOK, Receive
    PROVE  /\ now \in Nat /\ now' = now + 1 /\ now' \in 0 .. Horizon
           /\ DOMAIN candles \subseteq DOMAIN candles'
           /\ \A i \in DOMAIN candles :
                 candles'[i] = candles[i] /\ received'[i] = received[i]
           /\ DOMAIN candles' \subseteq 0 .. NewestClosed(now')
           /\ DOMAIN candles' \subseteq Nat
           /\ \A i \in DOMAIN candles' : candles'[i] \in Shapes
           /\ DOMAIN received' = DOMAIN candles'
           /\ \A i \in DOMAIN received' : received'[i] \in CloseTime(i) .. now'
           /\ \A i \in DOMAIN received' : received'[i] \in Nat
           /\ \E i \in DOMAIN received' : received'[i] = now'
           /\ found' = SearchImpulses(candles', now')
<1>1. PICK new \in SUBSET Awaited(now') :
         /\ new # {}
         /\ received' = Overlay(received, [i \in new |-> now'])
         /\ \E c \in [new -> Shapes] : candles' = Overlay(candles, c)
  BY DEF Receive
<1>2. PICK c \in [new -> Shapes] : candles' = Overlay(candles, c)
  BY <1>1
<1>3. now \in Nat /\ now' = now + 1 /\ now' \in 0 .. Horizon
  BY SeriesAssumption DEF Receive, TypeOK
<1>4. 0 .. NewestClosed(now) \subseteq 0 .. NewestClosed(now')
  BY <1>3, ClosedCandles
<1>12. \A i \in 0 .. NewestClosed(now') : CloseTime(i) \in Nat /\ CloseTime(i) <= now'
  BY <1>3, ClosedCandles
<1>5. new \subseteq 0 .. NewestClosed(now') /\ new \cap DOMAIN candles = {}
  BY DEF Awaited
<1>6. /\ DOMAIN candles' = DOMAIN candles \cup new
      /\ DOMAIN received' = DOMAIN candles \cup new
      /\ \A i \in DOMAIN candles :
            candles'[i] = candles[i] /\ received'[i] = received[i]
      /\ \A i \in new : candles'[i] = c[i] /\ received'[i] = now'
  BY <1>1, <1>2, <1>5 DEF Overlay, TypeOK
<1>7. DOMAIN candles' \subseteq 0 .. NewestClosed(now')
  <2>1. DOMAIN candles \subseteq 0 .. NewestClosed(now)
    BY DEF TypeOK
  <2>. QED
    BY <1>4, <1>5, <1>6, <2>1
<1>8. \A i \in DOMAIN candles' : candles'[i] \in Shapes
  BY <1>2, <1>6 DEF TypeOK
<1>9. ASSUME NEW i \in DOMAIN received'
      PROVE  received'[i] \in CloseTime(i) .. now' /\ received'[i] \in Nat
  <2>1. CloseTime(i) \in Nat /\ CloseTime(i) <= now'
    BY <1>6, <1>7, <1>12
  <2>2. CASE i \in new
    BY <1>3, <1>6, <2>1, <2>2
  <2>3. CASE i \in DOMAIN candles
    <3>1. received[i] \in CloseTime(i) .. now
      BY <2>3 DEF TypeOK
    <3>. QED
      BY <1>3, <1>6, <2>1, <2>3, <3>1
  <2>. QED
    BY <1>6, <2>2, <2>3
<1>10. \E i \in DOMAIN received' : received'[i] = now'
  BY <1>1, <1>6
<1>11. found' = SearchImpulses(candles', now')
  BY DEF Receive
<1>. QED
  BY <1>3, <1>6, <1>7, <1>8, <1>9, <1>10, <1>11

\* What a fit instant adds to the records: each rests on candles that are
\* known, and nothing that stood is changed.
LEMMA Following ==
    ASSUME TypeOK, Grounded, Follow
    PROVE  /\ DOMAIN extended' =
                DOMAIN extended \cup {g \in Active : BeyondEnd(candles', g) # {}}
           /\ \A g \in DOMAIN extended : extended'[g] = extended[g]
           /\ \A g \in DOMAIN extended' \ DOMAIN extended :
                 /\ g \in Active
                 /\ extended'[g] = [at |-> now', by |-> Min(BeyondEnd(candles', g))]
                 /\ extended'[g].by \in BeyondEnd(candles', g)
           /\ DOMAIN born' = DOMAIN born \cup Newborn
           /\ \A g \in DOMAIN born : born'[g] = born[g]
           /\ \A g \in Newborn :
                 born'[g] = [at |-> now', by |-> ConfirmingCandle(g)]
           /\ DOMAIN closed' = DOMAIN closed \cup Abandoned \cup Succeeded
           /\ \A g \in DOMAIN closed : closed'[g] = closed[g]
           /\ \A g \in Abandoned :
                 /\ closed'[g] = Abandonment(g)
                 /\ Abandonment(g).by \in BeyondStart(candles', g, extended'[g].by)
           /\ \A g \in Succeeded :
                 /\ closed'[g] = Succession(g)
                 /\ Succession(g).successor \in Successors(g)
<1>1. DOMAIN candles' \subseteq Nat
  BY Receiving DEF Follow
<1>2. /\ DOMAIN extended' =
           DOMAIN extended \cup {g \in Active : BeyondEnd(candles', g) # {}}
      /\ \A g \in DOMAIN extended : extended'[g] = extended[g]
      /\ \A g \in DOMAIN extended' \ DOMAIN extended :
            /\ g \in Active
            /\ BeyondEnd(candles', g) # {}
            /\ extended'[g] = [at |-> now', by |-> Min(BeyondEnd(candles', g))]
  BY DEF Follow, Extend, Overlay
<1>3. ASSUME NEW g \in DOMAIN extended' \ DOMAIN extended
      PROVE  extended'[g].by \in BeyondEnd(candles', g)
  <2>1. BeyondEnd(candles', g) \in SUBSET Nat
    BY <1>1 DEF BeyondEnd
  <2>2. Min(BeyondEnd(candles', g)) \in BeyondEnd(candles', g)
    BY <1>2, <2>1, LeastNatural
  <2>3. extended'[g] = [at |-> now', by |-> Min(BeyondEnd(candles', g))]
    BY <1>2
  <2>. QED
    BY <2>2, <2>3
<1>4. /\ DOMAIN born' = DOMAIN born \cup Newborn
      /\ \A g \in DOMAIN born : born'[g] = born[g]
      /\ \A g \in Newborn : born'[g] = [at |-> now', by |-> ConfirmingCandle(g)]
  <2>. DEFINE births == [g \in Newborn |-> [at |-> now', by |-> ConfirmingCandle(g)]]
  <2>1. born' = Overlay(born, births)
    BY DEF Follow, Bear
  <2>2. Newborn \cap DOMAIN born = {}
    BY DEF Newborn
  <2>3. DOMAIN births = Newborn
    OBVIOUS
  <2>4. \A g \in Newborn : births[g] = [at |-> now', by |-> ConfirmingCandle(g)]
    OBVIOUS
  <2>. HIDE DEF births
  <2>5. /\ DOMAIN born' = DOMAIN born \cup Newborn
        /\ \A g \in DOMAIN born : born'[g] = born[g]
        /\ \A g \in Newborn : born'[g] = births[g]
    BY <2>1, <2>2, <2>3 DEF Overlay
  <2>. QED
    BY <2>4, <2>5
<1>5. /\ Abandoned \cap DOMAIN closed = {} /\ Succeeded \cap DOMAIN closed = {}
      /\ Abandoned \cap Succeeded = {}
  BY DEF Abandoned, Succeeded
<1>6. /\ DOMAIN closed' = DOMAIN closed \cup Abandoned \cup Succeeded
      /\ \A g \in DOMAIN closed : closed'[g] = closed[g]
      /\ \A g \in Abandoned : closed'[g] = Abandonment(g)
      /\ \A g \in Succeeded : closed'[g] = Succession(g)
  BY <1>5 DEF Follow, CloseGaps, Overlay
<1>7. ASSUME NEW g \in Abandoned
      PROVE  Abandonment(g).by \in BeyondStart(candles', g, extended'[g].by)
  <2>1. /\ BeyondStart(candles', g, extended'[g].by) \in SUBSET Nat
        /\ BeyondStart(candles', g, extended'[g].by) # {}
    BY <1>1 DEF Abandoned, BeyondStart
  <2>2. Min(BeyondStart(candles', g, extended'[g].by))
            \in BeyondStart(candles', g, extended'[g].by)
    BY <2>1, LeastNatural
  <2>. QED
    BY <2>2 DEF Abandonment
<1>8. ASSUME NEW g \in Succeeded
      PROVE  Succession(g).successor \in Successors(g)
  <2>. DEFINE ends == {j.end : j \in Successors(g)}
  <2>1. \A j \in Successors(g) : j.end \in Nat
    <3>1. found' = SearchImpulses(candles', now')
      BY Receiving DEF Follow
    <3>. QED
      BY <1>1, <3>1, ImpulsesAreConfirmed DEF Successors, Newborn
  <2>2. ends \in SUBSET Nat /\ ends # {}
    BY <2>1 DEF Succeeded
  <2>3. Min(ends) \in ends /\ \A n \in ends : Min(ends) <= n
    BY <2>2, LeastNatural
  <2>4. \E j \in Successors(g) : \A k \in Successors(g) : j.end <= k.end
    BY <2>3
  <2>. QED
    BY <2>4 DEF Succession
<1>. QED
  BY <1>2, <1>3, <1>4, <1>6, <1>7, <1>8

\* What the search finds at an instant is well formed and known.
LEMMA Finding ==
    ASSUME TypeOK, Receive
    PROVE  /\ found' \in [impulses : SUBSET Instance, unfit : SUBSET MissingDataReason]
           /\ \A g \in Newborn :
                 /\ g \in Instance
                 /\ g.start \in DOMAIN candles'
                 /\ g.end \in DOMAIN candles'
                 /\ ConfirmingCandle(g) \in DOMAIN candles'
<1>1. found' = SearchImpulses(candles', now') /\ DOMAIN candles' \subseteq Nat
  BY Receiving
<1>2. \A g \in found'.impulses :
         /\ g \in Instance
         /\ g.start \in DOMAIN candles'
         /\ g.end \in DOMAIN candles'
         /\ ConfirmingCandle(g) \in DOMAIN candles'
  BY <1>1, ImpulsesAreConfirmed
<1>3. found'.unfit \in SUBSET MissingDataReason
  <2>1. MissingDataReasons(DOMAIN candles', now', RangeWindow) \in SUBSET MissingDataReason
    BY DEF MissingDataReasons, MissingDataReason
  <2>. QED
    BY <1>1, <2>1 DEF SearchImpulses
<1>4. found' = [impulses |-> found'.impulses, unfit |-> found'.unfit]
  BY <1>1 DEF SearchImpulses
<1>5. found'.impulses \in SUBSET Instance
  BY <1>2
<1>6. found' \in [impulses : SUBSET Instance, unfit : SUBSET MissingDataReason]
  BY <1>3, <1>4, <1>5
<1>. QED
  BY <1>2, <1>6 DEF Newborn

\* A candle received keeps proving what it proved.
LEMMA ProofsStand ==
    ASSUME TypeOK, Receive, NEW r, Proved(r)
    PROVE  Proved(r)'
BY Receiving DEF Proved

-----------------------------------------------------------------------------
(* Type correctness *)

\* Initially nothing is known.
LEMMA InitTyped == Init => TypeOK /\ Grounded
<1> SUFFICES ASSUME Init PROVE TypeOK /\ Grounded
  OBVIOUS
<1>1. found \in [impulses : SUBSET Instance, unfit : SUBSET MissingDataReason]
  BY DEF Init, MissingDataReason
<1>. QED
  BY <1>1, SeriesAssumption DEF Init, Nothing, TypeOK, Grounded

\* The types of the records, which an instant without conclusions leaves alone.
RecordTypes ==
    /\ DOMAIN born \subseteq Instance
    /\ \A g \in DOMAIN born : born[g] \in [at : 0 .. now, by : Nat]
    /\ DOMAIN extended \subseteq DOMAIN born
    /\ \A g \in DOMAIN extended : extended[g] \in [at : 0 .. now, by : Nat]
    /\ DOMAIN closed \subseteq DOMAIN extended
    /\ \A g \in DOMAIN closed :
          closed[g] \in
             [at : 0 .. now, by : Nat, closure : {"CANDIDATE_ABANDONED"}]
             \cup [at : 0 .. now, by : Nat, closure : {"NEW_INSTANCE"},
                   successor : DOMAIN born]

LEMMA RecordsUntouched ==
    ASSUME RecordTypes, now \in Nat, now' = now + 1, UNCHANGED record
    PROVE  RecordTypes'
<1>1. 0 .. now \subseteq 0 .. now'
  OBVIOUS
<1>2. born' = born /\ extended' = extended /\ closed' = closed
  BY DEF record
<1>. QED
  BY <1>1, <1>2 DEF RecordTypes

\* Every tick keeps the candles, the search and the records well typed.
LEMMA TypedStep ==
    ASSUME TypeOK, Grounded, [Next]_vars
    PROVE  TypeOK' /\ Grounded'
<1>1. RecordTypes
  BY DEF TypeOK, RecordTypes
<1>2. CASE UNCHANGED vars
  BY <1>2 DEF vars, record, TypeOK, Grounded
<1>3. CASE Silence
  <2>1. now \in Nat /\ now' = now + 1 /\ now' \in 0 .. Horizon
    BY <1>3, SeriesAssumption DEF Silence, TypeOK
  <2>2. RecordTypes'
    BY <1>1, <1>3, <2>1, RecordsUntouched DEF Silence
  <2>3. NewestClosed(now) \in Int /\ NewestClosed(now') \in Int
        /\ NewestClosed(now) <= NewestClosed(now')
    BY <2>1, ClosedCandles
  <2>4. candles' = candles /\ received' = received /\ found' = found
    BY <1>3 DEF Silence
  <2>5. DOMAIN candles' \subseteq 0 .. NewestClosed(now')
    <3>1. DOMAIN candles \subseteq 0 .. NewestClosed(now)
      BY DEF TypeOK
    <3>2. 0 .. NewestClosed(now) \subseteq 0 .. NewestClosed(now')
      BY <2>3
    <3>. QED
      BY <2>4, <3>1, <3>2
  <2>6. \A i \in DOMAIN received' : received'[i] \in CloseTime(i) .. now'
    <3>1. ASSUME NEW i \in DOMAIN received
          PROVE  received[i] \in CloseTime(i) .. now'
      <4>1. received[i] \in CloseTime(i) .. now
        BY DEF TypeOK
      <4>2. i \in 0 .. NewestClosed(now)
        BY DEF TypeOK
      <4>3. CloseTime(i) \in Nat
        BY <2>1, <4>2, ClosedCandles
      <4>. QED
        BY <2>1, <4>1, <4>3
    <3>. QED
      BY <2>4, <3>1
  <2>7. TypeOK'
    BY <2>1, <2>2, <2>4, <2>5, <2>6 DEF TypeOK, RecordTypes
  <2>8. Grounded'
    BY <1>3 DEF Silence, record, Grounded
  <2>. QED
    BY <2>7, <2>8
<1>4. CASE Unfit
  <2>1. Receive /\ UNCHANGED record
    BY <1>4 DEF Unfit
  <2>2. RecordTypes'
    BY <1>1, <2>1, Receiving, RecordsUntouched
  <2>3. TypeOK'
    BY <2>1, <2>2, Receiving, Finding DEF TypeOK, RecordTypes
  <2>4. Grounded'
    BY <2>1, Receiving DEF record, Grounded
  <2>. QED
    BY <2>3, <2>4
<1>5. CASE Follow
  <2>1. Receive
    BY <1>5 DEF Follow
  <2>2. /\ now \in Nat /\ now' = now + 1
        /\ DOMAIN candles \subseteq DOMAIN candles'
        /\ DOMAIN candles' \subseteq Nat
    BY <2>1, Receiving
  <2>3. 0 .. now \subseteq 0 .. now' /\ now' \in 0 .. now'
    BY <2>2
  <2>4. /\ DOMAIN born' \subseteq Instance
        /\ \A g \in DOMAIN born' : born'[g] \in [at : 0 .. now', by : Nat]
    BY <1>1, <1>5, <2>1, <2>2, <2>3, Following, Finding DEF RecordTypes
  <2>5. /\ DOMAIN extended' \subseteq DOMAIN born'
        /\ \A g \in DOMAIN extended' : extended'[g] \in [at : 0 .. now', by : Nat]
    <3>1. \A g \in DOMAIN extended' \ DOMAIN extended :
             /\ g \in DOMAIN born
             /\ extended'[g] \in [at : 0 .. now', by : Nat]
      <4>. SUFFICES ASSUME NEW g \in DOMAIN extended' \ DOMAIN extended
                    PROVE  /\ g \in DOMAIN born
                           /\ extended'[g] \in [at : 0 .. now', by : Nat]
        OBVIOUS
      <4>1. g \in Active /\ extended'[g] = [at |-> now', by |-> Min(BeyondEnd(candles', g))]
        BY <1>5, Following
      <4>2. extended'[g].by \in BeyondEnd(candles', g)
        BY <1>5, Following
      <4>3. Min(BeyondEnd(candles', g)) \in Nat
        BY <2>2, <4>1, <4>2 DEF BeyondEnd
      <4>. QED
        BY <2>3, <4>1, <4>3 DEF Active
    <3>2. \A g \in DOMAIN extended :
             g \in DOMAIN born /\ extended'[g] \in [at : 0 .. now', by : Nat]
      <4>1. \A g \in DOMAIN extended : extended'[g] = extended[g]
        BY <1>5, Following
      <4>. QED
        BY <1>1, <2>3, <4>1 DEF RecordTypes
    <3>3. DOMAIN born \subseteq DOMAIN born'
      BY <1>5, Following
    <3>. QED
      BY <3>1, <3>2, <3>3
  <2>6. DOMAIN closed' \subseteq DOMAIN extended'
    <3>1. /\ DOMAIN closed' = DOMAIN closed \cup Abandoned \cup Succeeded
          /\ DOMAIN extended \subseteq DOMAIN extended'
      BY <1>5, Following
    <3>. QED
      BY <1>1, <3>1 DEF RecordTypes, Abandoned, Succeeded
  <2>7. ASSUME NEW g \in DOMAIN closed'
        PROVE  closed'[g] \in
                 [at : 0 .. now', by : Nat, closure : {"CANDIDATE_ABANDONED"}]
                 \cup [at : 0 .. now', by : Nat, closure : {"NEW_INSTANCE"},
                       successor : DOMAIN born']
    <3>1. DOMAIN born' = DOMAIN born \cup Newborn
      BY <1>5, Following
    <3>2. CASE g \in DOMAIN closed
      <4>1. closed'[g] = closed[g]
        BY <1>5, <3>2, Following
      <4>. QED
        BY <1>1, <2>3, <3>1, <3>2, <4>1 DEF RecordTypes
    <3>3. CASE g \in Abandoned
      <4>1. /\ closed'[g] = Abandonment(g)
            /\ Abandonment(g).by \in BeyondStart(candles', g, extended'[g].by)
        BY <1>5, <3>3, Following
      <4>2. Abandonment(g).by \in Nat
        BY <2>2, <4>1 DEF BeyondStart
      <4>. QED
        BY <2>3, <4>1, <4>2 DEF Abandonment
    <3>4. CASE g \in Succeeded
      <4>1. closed'[g] = Succession(g) /\ Succession(g).successor \in Successors(g)
        BY <1>5, <3>4, Following
      <4>2. PICK j \in Successors(g) :
               Succession(g) = [at |-> now', by |-> ConfirmingCandle(j),
                                closure |-> "NEW_INSTANCE", successor |-> j]
        BY <4>1 DEF Succession
      <4>3. j \in Newborn /\ ConfirmingCandle(j) \in Nat
        BY <2>1, <2>2, <4>2, Finding DEF Successors
      <4>. QED
        BY <2>3, <3>1, <4>1, <4>2, <4>3
    <3>. QED
      BY <1>5, <3>2, <3>3, <3>4, Following
  <2>8. RecordTypes'
    BY <2>4, <2>5, <2>6, <2>7 DEF RecordTypes
  <2>9. TypeOK'
    BY <2>1, <2>8, Receiving, Finding DEF TypeOK, RecordTypes
  <2>10. Grounded'
    BY <1>5, <2>1, <2>2, Following, Finding DEF Grounded
  <2>. QED
    BY <2>9, <2>10
<1>. QED
  BY <1>2, <1>3, <1>4, <1>5 DEF Next

\* The series, the search and the records stay well typed, and no instance
\* ever loses the candles it joins.
THEOREM TypeCorrect == Spec => [](TypeOK /\ Grounded)
<1>1. Init => TypeOK /\ Grounded
  BY InitTyped
<1>2. (TypeOK /\ Grounded) /\ [Next]_vars => (TypeOK /\ Grounded)'
  BY TypedStep
<1>. QED
  BY <1>1, <1>2, PTL DEF Spec

-----------------------------------------------------------------------------
(* The records and their evidence *)

\* Every tick keeps each record resting on a candle received by then, and the
\* records of an instance in order.
LEMMA EvidenceStep ==
    ASSUME TypeOK, Grounded, RecordsFollowEvidence, [Next]_vars
    PROVE  RecordsFollowEvidence'
<1>1. CASE UNCHANGED vars \/ Silence
  BY <1>1 DEF vars, record, Silence, RecordsFollowEvidence, Proved
<1>2. CASE Unfit
  <2>1. Receive /\ born' = born /\ extended' = extended /\ closed' = closed
    BY <1>2 DEF Unfit, record
  <2>. QED
    BY <2>1, Receiving DEF RecordsFollowEvidence, Proved, TypeOK
<1>3. CASE Follow
  <2>1. Receive
    BY <1>3 DEF Follow
  <2>2. /\ now \in Nat /\ now' = now + 1
        /\ DOMAIN candles' \subseteq Nat
        /\ \A i \in DOMAIN candles' : received'[i] \in Nat /\ received'[i] <= now'
    BY <2>1, Receiving
  <2>3. \A r : Proved(r) => Proved(r)'
    BY <2>1, ProofsStand
  <2>4. \A r : r.by \in DOMAIN candles' /\ r.at = now' => Proved(r)'
    BY <2>2 DEF Proved
  <2>5. ASSUME NEW g \in DOMAIN born'
        PROVE  Proved(born[g])'
    <3>1. CASE g \in DOMAIN born
      <4>1. born'[g] = born[g]
        BY <1>3, <3>1, Following
      <4>. QED
        BY <2>3, <3>1, <4>1 DEF RecordsFollowEvidence, Proved
    <3>2. CASE g \in Newborn
      <4>1. born'[g] = [at |-> now', by |-> ConfirmingCandle(g)]
        BY <1>3, <3>2, Following
      <4>2. ConfirmingCandle(g) \in DOMAIN candles'
        BY <2>1, <3>2, Finding
      <4>. QED
        BY <2>2, <4>1, <4>2 DEF Proved
    <3>. QED
      BY <1>3, <3>1, <3>2, Following
  <2>6. ASSUME NEW g \in DOMAIN extended'
        PROVE  /\ Proved(extended[g])'
               /\ born'[g].at < extended'[g].at
               /\ extended'[g].by > g.end
    <3>1. CASE g \in DOMAIN extended
      <4>1. g \in DOMAIN born /\ born'[g] = born[g] /\ extended'[g] = extended[g]
        BY <1>3, <3>1, Following DEF TypeOK
      <4>. QED
        BY <2>3, <3>1, <4>1 DEF RecordsFollowEvidence, Proved
    <3>2. CASE g \in DOMAIN extended' \ DOMAIN extended
      <4>1. /\ g \in Active
            /\ extended'[g] = [at |-> now', by |-> Min(BeyondEnd(candles', g))]
        BY <1>3, <3>2, Following
      <4>2. extended'[g].by \in BeyondEnd(candles', g)
        BY <1>3, <3>2, Following
      <4>3. extended'[g].by \in DOMAIN candles' /\ extended'[g].by > g.end
        BY <4>2 DEF BeyondEnd
      <4>4. extended'[g].at = now'
        BY <4>1
      <4>5. born'[g] = born[g] /\ born[g].at \in 0 .. now
        BY <1>3, <4>1, Following DEF Active, TypeOK
      <4>. QED
        BY <2>2, <4>3, <4>4, <4>5 DEF Proved
    <3>. QED
      BY <3>1, <3>2
  <2>7. ASSUME NEW g \in DOMAIN closed'
        PROVE  Proved(closed[g])' /\ extended'[g].at <= closed'[g].at
    <3>1. CASE g \in DOMAIN closed
      <4>1. /\ g \in DOMAIN extended
            /\ closed'[g] = closed[g] /\ extended'[g] = extended[g]
        BY <1>3, <3>1, Following DEF TypeOK
      <4>. QED
        BY <2>3, <3>1, <4>1 DEF RecordsFollowEvidence, Proved
    <3>2. ASSUME g \in Abandoned \cup Succeeded
          PROVE  extended'[g].at \in Nat /\ extended'[g].at <= now'
      <4>1. g \in DOMAIN extended'
        BY <3>2 DEF Abandoned, Succeeded
      <4>2. TypeOK'
        BY <1>3, TypedStep DEF Next
      <4>. QED
        BY <2>2, <4>1, <4>2 DEF TypeOK
    <3>3. CASE g \in Abandoned
      <4>1. /\ closed'[g] = Abandonment(g)
            /\ Abandonment(g).by \in BeyondStart(candles', g, extended'[g].by)
        BY <1>3, <3>3, Following
      <4>2. closed'[g].at = now' /\ closed'[g].by \in DOMAIN candles'
        BY <4>1 DEF Abandonment, BeyondStart
      <4>. QED
        BY <2>2, <3>2, <3>3, <4>2 DEF Proved
    <3>4. CASE g \in Succeeded
      <4>1. closed'[g] = Succession(g) /\ Succession(g).successor \in Successors(g)
        BY <1>3, <3>4, Following
      <4>2. PICK j \in Successors(g) :
               Succession(g) = [at |-> now', by |-> ConfirmingCandle(j),
                                closure |-> "NEW_INSTANCE", successor |-> j]
        BY <4>1 DEF Succession
      <4>3. ConfirmingCandle(j) \in DOMAIN candles'
        BY <2>1, <4>2, Finding DEF Successors
      <4>4. closed'[g].at = now' /\ closed'[g].by \in DOMAIN candles'
        BY <4>1, <4>2, <4>3
      <4>. QED
        BY <2>2, <3>2, <3>4, <4>4 DEF Proved
    <3>. QED
      BY <1>3, <3>1, <3>3, <3>4, Following
  <2>. QED
    BY <2>5, <2>6, <2>7 DEF RecordsFollowEvidence, Proved
<1>. QED
  BY <1>1, <1>2, <1>3 DEF Next

\* Whatever order candles arrive in, a record rests on a candle received when
\* it was written, and an instance is known, extended and closed in that order.
THEOREM EvidenceComesFirst == Spec => []RecordsFollowEvidence
<1>. DEFINE IInv == TypeOK /\ Grounded /\ RecordsFollowEvidence
<1>1. Init => IInv
  BY InitTyped DEF Init, Nothing, RecordsFollowEvidence
<1>2. IInv /\ [Next]_vars => IInv'
  BY TypedStep, EvidenceStep
<1>. QED
  BY <1>1, <1>2, PTL DEF Spec

-----------------------------------------------------------------------------
(* The history is append-only *)

\* Nothing recorded is ever rewritten, and what is added is dated by the
\* present, never by the market.
THEOREM RecordsAreFinal == Spec => HistoryOnlyGrows
<1>. DEFINE Grows == /\ AppendsTo(born, born', now')
                     /\ AppendsTo(extended, extended', now')
                     /\ AppendsTo(closed, closed', now')
<1>1. ASSUME TypeOK, Grounded, [Next]_vars
      PROVE  Grows
  <2>1. CASE UNCHANGED record
    BY <2>1 DEF record, AppendsTo
  <2>2. CASE Follow
    <3>1. AppendsTo(born, born', now')
      BY <1>1, <2>2, Following DEF AppendsTo
    <3>2. AppendsTo(extended, extended', now')
      <4>1. /\ DOMAIN extended \subseteq DOMAIN extended'
            /\ \A g \in DOMAIN extended : extended'[g] = extended[g]
        BY <1>1, <2>2, Following
      <4>2. ASSUME NEW g \in DOMAIN extended' \ DOMAIN extended
            PROVE  extended'[g].at = now'
        <5>1. extended'[g] = [at |-> now', by |-> Min(BeyondEnd(candles', g))]
          BY <1>1, <2>2, Following
        <5>. QED
          BY <5>1
      <4>. QED
        BY <4>1, <4>2 DEF AppendsTo
    <3>3. AppendsTo(closed, closed', now')
      <4>1. /\ DOMAIN closed' = DOMAIN closed \cup Abandoned \cup Succeeded
            /\ \A g \in DOMAIN closed : closed'[g] = closed[g]
            /\ \A g \in Abandoned : closed'[g] = Abandonment(g)
            /\ \A g \in Succeeded : closed'[g] = Succession(g)
        BY <1>1, <2>2, Following
      <4>2. \A g : Abandonment(g).at = now' /\ Succession(g).at = now'
        BY DEF Abandonment, Succession
      <4>. QED
        BY <4>1, <4>2 DEF AppendsTo
    <3>. QED
      BY <3>1, <3>2, <3>3
  <2>3. Silence \/ Unfit \/ UNCHANGED vars => UNCHANGED record
    BY DEF Silence, Unfit, vars
  <2>. QED
    BY <1>1, <2>1, <2>2, <2>3 DEF Next
<1>2. (TypeOK /\ Grounded) /\ [Next]_vars => [Grows]_vars
  BY <1>1
<1>. QED
  BY <1>2, TypeCorrect, PTL DEF Spec, HistoryOnlyGrows

-----------------------------------------------------------------------------
(* Gaps and their successors *)

\* Whether one instance takes over from another depends on candles that were
\* known when both were, so new candles do not change it.
LEMMA TakingOverStands ==
    ASSUME TypeOK, Grounded, Receive, NEW j \in DOMAIN born, NEW g \in DOMAIN born,
           NEW extension
    PROVE  TakesOver(candles', j, g, extension) <=> TakesOver(candles, j, g, extension)
<1>1. candles'[j.end] = candles[j.end] /\ candles'[g.end] = candles[g.end]
  BY Receiving DEF Grounded
<1>. QED
  BY <1>1 DEF TakesOver, EndPrice

\* Every tick closes the gaps that the instances born at it can close.
LEMMA SuccessionStep ==
    ASSUME TypeOK, Grounded, GapsCloseAtSuccession, [Next]_vars
    PROVE  GapsCloseAtSuccession'
<1>1. CASE UNCHANGED vars \/ Silence
  BY <1>1 DEF vars, record, Silence, GapsCloseAtSuccession
<1>2. CASE Unfit
  <2>1. Receive /\ born' = born /\ extended' = extended /\ closed' = closed
    BY <1>2 DEF Unfit, record
  <2>2. ASSUME NEW g \in DOMAIN extended, NEW j \in DOMAIN born
        PROVE  TakesOver(candles', j, g, extended[g].by)
                  <=> TakesOver(candles, j, g, extended[g].by)
    BY <2>1, TakingOverStands DEF TypeOK
  <2>3. \A g \in DOMAIN closed : closed[g].closure = "NEW_INSTANCE" =>
                                    closed[g].successor \in DOMAIN born
    BY DEF GapsCloseAtSuccession, TypeOK
  <2>. QED
    BY <2>1, <2>2, <2>3 DEF GapsCloseAtSuccession
<1>3. CASE Follow
  <2>1. Receive
    BY <1>3 DEF Follow
  <2>2. now \in Nat /\ now' = now + 1
    BY <2>1, Receiving
  <2>3. \A g \in DOMAIN extended :
           /\ g \in DOMAIN born
           /\ extended'[g] = extended[g]
           /\ extended[g].at \in Nat /\ extended[g].at <= now
    BY <1>3, Following DEF TypeOK
  <2>4. \A g \in DOMAIN born :
           /\ born'[g] = born[g]
           /\ born[g].at \in Nat /\ born[g].at <= now
    BY <1>3, Following DEF TypeOK
  <2>5. \A g \in DOMAIN closed :
           /\ closed'[g] = closed[g]
           /\ closed[g].at \in Nat /\ closed[g].at <= now
    <3>1. \A g \in DOMAIN closed : closed[g].at \in 0 .. now
      BY DEF TypeOK
    <3>. QED
      BY <1>3, <2>2, <3>1, Following
  <2>6. \A g \in DOMAIN extended' \ DOMAIN extended : extended'[g].at = now'
    <3>. SUFFICES ASSUME NEW g \in DOMAIN extended' \ DOMAIN extended
                  PROVE  extended'[g].at = now'
      OBVIOUS
    <3>1. extended'[g] = [at |-> now', by |-> Min(BeyondEnd(candles', g))]
      BY <1>3, Following
    <3>. QED
      BY <3>1
  <2>7. /\ DOMAIN closed' = DOMAIN closed \cup Abandoned \cup Succeeded
        /\ \A g \in Abandoned : closed'[g] = Abandonment(g)
        /\ \A g \in Succeeded :
              closed'[g] = Succession(g) /\ Succession(g).successor \in Successors(g)
    BY <1>3, Following
  <2>8. \A g : Abandonment(g).at = now' /\ Succession(g).at = now'
    BY DEF Abandonment, Succession
  <2>9. /\ DOMAIN born' = DOMAIN born \cup Newborn
        /\ \A j \in Newborn : born'[j].at = now'
    BY <1>3, Following
  <2>10. ASSUME NEW g \in DOMAIN extended', NEW j \in DOMAIN born',
                TakesOver(candles', j, g, extended'[g].by),
                born'[j].at >= extended'[g].at
         PROVE  g \in DOMAIN closed' /\ closed'[g].at <= born'[j].at
    <3>1. CASE j \in DOMAIN born
      <4>1. g \in DOMAIN extended
        BY <2>2, <2>4, <2>6, <2>10, <3>1
      <4>2. TakesOver(candles, j, g, extended[g].by)
        BY <2>1, <2>3, <2>10, <3>1, <4>1, TakingOverStands
      <4>3. g \in DOMAIN closed /\ closed[g].at <= born[j].at
        BY <2>3, <2>4, <2>10, <3>1, <4>1, <4>2 DEF GapsCloseAtSuccession
      <4>. QED
        BY <2>4, <2>5, <2>7, <3>1, <4>3
    <3>2. CASE j \in Newborn
      <4>1. CASE g \in DOMAIN closed
        BY <2>2, <2>5, <2>7, <2>9, <3>2, <4>1
      <4>2. CASE g \notin DOMAIN closed
        <5>1. j \in Successors(g)
          BY <2>10, <3>2 DEF Successors
        <5>2. g \in Abandoned \cup Succeeded
          BY <2>10, <4>2, <5>1 DEF Succeeded
        <5>3. g \in DOMAIN closed' /\ closed'[g].at = now'
          BY <2>7, <2>8, <5>2
        <5>. QED
          BY <2>2, <2>9, <3>2, <5>3
      <4>. QED
        BY <4>1, <4>2
    <3>. QED
      BY <2>9, <3>1, <3>2
  <2>11. ASSUME NEW g \in DOMAIN closed', closed'[g].closure = "NEW_INSTANCE"
         PROVE  /\ closed'[g].successor \in DOMAIN born'
                /\ born'[closed'[g].successor].at = closed'[g].at
                /\ TakesOver(candles', closed'[g].successor, g, extended'[g].by)
    <3>1. CASE g \in DOMAIN closed
      <4>1. g \in DOMAIN extended /\ closed'[g] = closed[g]
        BY <2>5, <3>1 DEF TypeOK
      <4>2. /\ closed[g].successor \in DOMAIN born
            /\ born[closed[g].successor].at = closed[g].at
            /\ TakesOver(candles, closed[g].successor, g, extended[g].by)
        BY <2>11, <3>1, <4>1 DEF GapsCloseAtSuccession
      <4>3. TakesOver(candles', closed[g].successor, g, extended[g].by)
        BY <2>1, <2>3, <4>1, <4>2, TakingOverStands
      <4>. QED
        BY <2>3, <2>4, <2>9, <4>1, <4>2, <4>3
    <3>2. CASE g \in Abandoned
      BY <2>7, <2>11, <3>2 DEF Abandonment
    <3>3. CASE g \in Succeeded
      <4>1. closed'[g].successor \in Successors(g) /\ closed'[g].at = now'
        BY <2>7, <2>8, <3>3
      <4>. QED
        BY <2>9, <4>1 DEF Successors
    <3>. QED
      BY <2>7, <3>1, <3>2, <3>3
  <2>. QED
    BY <2>10, <2>11 DEF GapsCloseAtSuccession
<1>. QED
  BY <1>1, <1>2, <1>3 DEF Next

\* A gap closes when the first instance that can take over is born, not later
\* and not by another.
THEOREM GapsCloseInTime == Spec => []GapsCloseAtSuccession
<1>. DEFINE IInv == TypeOK /\ Grounded /\ GapsCloseAtSuccession
<1>1. Init => IInv
  BY InitTyped DEF Init, Nothing, GapsCloseAtSuccession
<1>2. IInv /\ [Next]_vars => IInv'
  BY TypedStep, SuccessionStep
<1>. QED
  BY <1>1, <1>2, PTL DEF Spec

-----------------------------------------------------------------------------
(* The records agree with what is known *)

\* The instant at which candles were just received is the last one.
LEMMA ReceivingIsLast ==
    ASSUME TypeOK, Receive
    PROVE  LastInstant' = now'
<1>. DEFINE times == {received'[i] : i \in DOMAIN received'}
<1>1. now' \in times /\ \A t \in times : t \in Int /\ t <= now'
  BY Receiving
<1>2. now' \in Int
  BY <1>1
<1>. HIDE DEF times
<1>3. Max(times) = now'
  BY <1>1, <1>2, GreatestIs
<1>. QED
  BY <1>3 DEF LastInstant, times

\* After every fit instant no wick beyond an end is left unrecorded.
LEMMA UpToDateStep ==
    ASSUME TypeOK, Grounded, RecordsAreUpToDate, [Next]_vars
    PROVE  RecordsAreUpToDate'
<1>1. CASE UNCHANGED vars \/ Silence
  BY <1>1 DEF vars, record, Silence, RecordsAreUpToDate, Active, OpenGaps, LastInstant
<1>2. CASE Unfit
  BY <1>2 DEF Unfit, RecordsAreUpToDate
<1>3. CASE Follow
  <2>1. ASSUME NEW g \in DOMAIN born' \ DOMAIN extended'
        PROVE  BeyondEnd(candles', g) = {} \/ born'[g].at = LastInstant'
    <3>1. CASE g \in DOMAIN born
      <4>1. g \in Active \/ g \in DOMAIN extended
        BY <3>1 DEF Active
      <4>2. DOMAIN extended' =
              DOMAIN extended \cup {x \in Active : BeyondEnd(candles', x) # {}}
        BY <1>3, Following
      <4>. QED
        BY <2>1, <4>1, <4>2
    <3>2. CASE g \in Newborn
      <4>1. born'[g].at = now'
        BY <1>3, <3>2, Following
      <4>. QED
        BY <1>3, <4>1, ReceivingIsLast DEF Follow
    <3>. QED
      BY <1>3, <2>1, <3>1, <3>2, Following
  <2>2. ASSUME NEW g \in DOMAIN extended' \ DOMAIN closed'
        PROVE  BeyondStart(candles', g, extended'[g].by) = {}
    <3>1. g \notin DOMAIN closed /\ g \notin Abandoned
      BY <1>3, <2>2, Following
    <3>. QED
      BY <2>2, <3>1 DEF Abandoned
  <2>. QED
    BY <2>1, <2>2 DEF RecordsAreUpToDate, Active, OpenGaps
<1>. QED
  BY <1>1, <1>2, <1>3 DEF Next

\* After an instant at which the data was fit, the records agree with every
\* candle known, however late it came.
THEOREM RecordsKeepUp == Spec => []RecordsAreUpToDate
<1>. DEFINE IInv == TypeOK /\ Grounded /\ RecordsAreUpToDate
<1>1. Init => IInv
  BY InitTyped DEF Init, Nothing, RecordsAreUpToDate
<1>2. IInv /\ [Next]_vars => IInv'
  BY TypedStep, UpToDateStep
<1>. QED
  BY <1>1, <1>2, PTL DEF Spec


-----------------------------------------------------------------------------
(* Impulses that were found *)

\* What the search reads up to a candle does not depend on later ones.
LEMMA SameImpulses ==
    ASSUME NEW cs, IsSeries(cs), NEW more, IsSeries(more), Continues(more, cs),
           NEW a, NEW b, a.at \in DOMAIN cs, b.at \in DOMAIN cs
    PROVE  /\ Position(more, a.at) = Position(cs, a.at)
           /\ IsImpulse(more, a, b) <=> IsImpulse(cs, a, b)
<1>1. \A i \in DOMAIN cs : i \in DOMAIN more /\ more[i] = cs[i]
    BY DEF Continues
<1>2. \A i \in DOMAIN more, j \in DOMAIN cs : i <= j => i \in DOMAIN cs
    <2>1. \A i \in DOMAIN more, j \in DOMAIN cs : i \in Nat /\ j \in Nat
        BY IndicesOfSeries
    <2> QED
        BY <2>1 DEF Continues
<1>3. {j \in DOMAIN more : j <= a.at} = {j \in DOMAIN cs : j <= a.at}
    BY <1>1, <1>2
<1>4. Position(more, a.at) = Position(cs, a.at)
    BY <1>3 DEF Position
<1>5. ReferenceRange(more, a.at) = ReferenceRange(cs, a.at)
    <2> DEFINE window == Newest({j \in DOMAIN cs : j <= a.at}, RangeWindow)
    <2>1. window \subseteq DOMAIN cs
        BY DEF Newest
    <2>2. /\ {more[j].high : j \in window} = {cs[j].high : j \in window}
          /\ {more[j].low : j \in window} = {cs[j].low : j \in window}
        <3> HIDE DEF window
        <3> QED
            BY <1>1, <2>1
    <2>3. Newest({j \in DOMAIN more : j <= a.at}, RangeWindow) = window
        BY <1>3
    <2> QED
        BY <2>2, <2>3 DEF ReferenceRange
<1>6. DOMAIN more \cap (a.at .. b.at) = DOMAIN cs \cap (a.at .. b.at)
    BY <1>1, <1>2
<1>7. \A j \in DOMAIN cs \cap (a.at .. b.at) : more[j] = cs[j]
    BY <1>1
<1> QED
    BY <1>4, <1>5, <1>6, <1>7 DEF IsImpulse

\* An impulse found is found as long as nothing goes beyond its end.
LEMMA ImpulsesStay ==
    ASSUME NEW cs, IsSeries(cs), NEW more, IsSeries(more), Continues(more, cs),
           NEW g \in FindImpulses(cs, RunExtremes(DetectPivots(cs))),
           BeyondEnd(more, g) = {}
    PROVE  g \in FindImpulses(more, RunExtremes(DetectPivots(more)))
<1> DEFINE was == RunExtremes(DetectPivots(cs))
           is == RunExtremes(DetectPivots(more))
<1>1. PICK leg \in was \X was :
         /\ leg[1] \in Starts(cs, was, leg[2])
         /\ \A start \in Starts(cs, was, leg[2]) : leg[1].at <= start.at
         /\ g = [direction |-> IF leg[2].kind = "HIGH" THEN "BULLISH" ELSE "BEARISH",
                 start |-> leg[1].at, end |-> leg[2].at]
    BY DEF FindImpulses
<1> DEFINE a == leg[1]
           b == leg[2]
<1>2. /\ was = {p \in Singles(cs) : \A q \in Singles(cs) :
                  SameRun(Singles(cs), p, q) =>
                     /\ ~Beyond(p.kind, q.price, p.price)
                     /\ q.price = p.price => p.at <= q.at}
      /\ is = {p \in Singles(more) : \A q \in Singles(more) :
                  SameRun(Singles(more), p, q) =>
                     /\ ~Beyond(p.kind, q.price, p.price)
                     /\ q.price = p.price => p.at <= q.at}
    BY DEF RunExtremes, Singles
<1>3. a \in was /\ b \in was /\ a \in Singles(cs) /\ b \in Singles(cs)
    BY <1>2
<1>4. /\ a.kind # b.kind /\ a.at < b.at
      /\ IsImpulse(cs, a, b)
    BY <1>1 DEF Starts, IsImpulse
<1>5. /\ Singles(cs) \subseteq Singles(more)
      /\ \A p \in Singles(more) \ Singles(cs) : \A q \in Singles(cs) : q.at < p.at
    BY SinglesStay, SinglesAre
<1>6. \A p \in Singles(more) :
         p.at \in Nat /\ p.kind \in PivotKind /\ p.price \in Int /\ p.at \in DOMAIN more
         /\ p.price = Extreme(p.kind, more[p.at])
    BY SinglesAre
<1>7. \A p \in Singles(cs) : p.at \in DOMAIN cs
    BY SinglesAre
\* A run that ends before b, and b's own, is the same with the later pivots.
<1>8. ASSUME NEW p \in Singles(cs), NEW q \in Singles(cs)
      PROVE  SameRun(Singles(more), p, q) <=> SameRun(Singles(cs), p, q)
    BY <1>5, <1>6 DEF SameRun
<1>9. b \in is
    <2>1. ASSUME NEW q \in Singles(more), SameRun(Singles(more), b, q)
          PROVE  /\ ~Beyond(b.kind, q.price, b.price)
                 /\ q.price = b.price => b.at <= q.at
        <3>1. CASE q \in Singles(cs)
            BY <1>2, <1>3, <1>8, <2>1, <3>1
        <3>2. CASE q \notin Singles(cs)
            <4>1. b.at < q.at
                BY <1>3, <1>5, <3>2
            <4>2. q.kind = b.kind
                BY <2>1 DEF SameRun
            <4>3. EndKind(g.direction) = b.kind
                BY <1>1, <1>3, <1>5, <1>6 DEF EndKind, PivotKind
            <4>4. EndPrice(more, g) = b.price
                BY <1>1, <1>3, <1>5, <1>6, <4>3 DEF EndPrice
            <4>5. g.end = b.at
                BY <1>1
            <4>6. q.at \in DOMAIN more /\ q.price = Extreme(b.kind, more[q.at])
                BY <1>6, <4>2
            <4>7. ~Beyond(b.kind, q.price, b.price)
                BY <4>1, <4>3, <4>4, <4>5, <4>6 DEF BeyondEnd
            <4> QED
                BY <1>3, <1>5, <1>6, <4>1, <4>7
        <3> QED
            BY <3>1, <3>2
    <2> QED
        BY <1>2, <1>3, <1>5, <2>1
\* Between a run and a later pivot of its kind lies b.
<1>10. ASSUME NEW p \in Singles(cs), p.at < b.at, p.kind # b.kind
       PROVE  p \in is <=> p \in was
    <2>1. ASSUME NEW q \in Singles(more), SameRun(Singles(more), p, q)
          PROVE  q \in Singles(cs)
        <3>1. SUFFICES ASSUME q \notin Singles(cs)
                       PROVE  FALSE
            OBVIOUS
        <3>2. b.at < q.at /\ b \in Singles(more)
            BY <1>3, <1>5, <3>1
        <3> QED
            BY <1>10, <2>1, <3>2 DEF SameRun
    <2> QED
        BY <1>2, <1>5, <1>8, <2>1
<1>11. a \in is
    BY <1>3, <1>4, <1>10
<1>12. ASSUME NEW p \in is
       PROVE  p \in Starts(more, is, b) <=> p \in Starts(cs, was, b)
    <2>1. CASE p \in Singles(cs)
        <3>1. p.at \in DOMAIN cs /\ b.at \in DOMAIN cs
            BY <1>3, <1>7, <2>1
        <3>2. /\ Position(more, p.at) = Position(cs, p.at)
              /\ Position(more, b.at) = Position(cs, b.at)
              /\ IsImpulse(more, p, b) <=> IsImpulse(cs, p, b)
            BY <3>1, SameImpulses
        <3>3. IsImpulse(cs, p, b) => p \in was
            BY <1>10, <1>12, <2>1 DEF IsImpulse
        <3> QED
            BY <1>12, <3>2, <3>3 DEF Starts
    <2>2. CASE p \notin Singles(cs)
        <3>1. p \in Singles(more) /\ b.at < p.at
            BY <1>2, <1>3, <1>5, <1>12, <2>2
        <3>2. ~(p.at < b.at)
            BY <1>3, <1>5, <1>6, <3>1
        <3>3. p \notin was
            BY <1>2, <2>2
        <3> QED
            BY <3>2, <3>3 DEF Starts, IsImpulse
    <2> QED
        BY <2>1, <2>2
<1>13. /\ a \in Starts(more, is, b)
       /\ \A start \in Starts(more, is, b) : a.at <= start.at
    <2>1. a \in Starts(more, is, b)
        BY <1>1, <1>11, <1>12
    <2>2. ASSUME NEW start \in Starts(more, is, b)
          PROVE  a.at <= start.at
        <3>1. start \in is
            BY DEF Starts
        <3>2. start \in Starts(cs, was, b)
            BY <1>12, <3>1
        <3> QED
            BY <1>1, <3>2
    <2> QED
        BY <2>1, <2>2
<1>14. leg \in is \X is
    BY <1>9, <1>11
<1>15. g \in FindImpulses(more, is)
    <2> HIDE DEF is, was
    <2>1. leg \in {x \in is \X is :
                     /\ x[1] \in Starts(more, is, x[2])
                     /\ \A start \in Starts(more, is, x[2]) : x[1].at <= start.at}
        BY <1>13, <1>14
    <2> QED
        BY <1>1, <2>1 DEF FindImpulses
<1> QED
    BY <1>15

-----------------------------------------------------------------------------
(* Candles that arrive in order *)

LEMMA ClosedCandlesAreSeries ==
    ASSUME NEW t \in Nat, NEW cs, DOMAIN cs \in SUBSET (0 .. NewestClosed(t)),
           \A i \in DOMAIN cs : cs[i] \in Shapes
    PROVE  IsSeries(cs)
<1>1. NewestClosed(t) \in Int
    BY ClosedCandles
<1>2. \E n \in Nat : DOMAIN cs \subseteq 0 .. n
    BY <1>1, 0 \in Nat, NewestClosed(t) < 0 => DOMAIN cs \subseteq 0 .. 0
<1>3. \A i \in DOMAIN cs : cs[i].low \in Int /\ cs[i].high \in Int
    BY SeriesAssumption
<1> QED
    BY <1>2, <1>3 DEF IsSeries

LEMMA CandlesAreSeries ==
    ASSUME TypeOK
    PROVE  IsSeries(candles)
<1>1. now \in Nat /\ DOMAIN candles \in SUBSET (0 .. NewestClosed(now))
    BY SeriesAssumption DEF TypeOK
<1>2. \A i \in DOMAIN candles : candles[i] \in Shapes
    BY DEF TypeOK
<1> QED
    BY <1>1, <1>2, ClosedCandlesAreSeries

\* If they still are in order, what arrives now comes after what was there.
LEMMA ArrivingInOrder ==
    ASSUME TypeOK, Receive, InOrder'
    PROVE  /\ InOrder
           /\ Continues(candles', candles)
           /\ candles' = [i \in DOMAIN candles' |-> candles'[i]]
<1>1. PICK new \in SUBSET Awaited(now') :
         /\ received' = Overlay(received, [i \in new |-> now'])
         /\ \E c \in [new -> Shapes] : candles' = Overlay(candles, c)
    BY DEF Receive
<1>2. PICK c \in [new -> Shapes] : candles' = Overlay(candles, c)
    BY <1>1
<1>3. /\ DOMAIN received = DOMAIN candles
      /\ DOMAIN candles' = DOMAIN candles \cup new
      /\ DOMAIN received' = DOMAIN candles \cup new
      /\ candles' = [i \in DOMAIN candles' |-> candles'[i]]
    BY <1>1, <1>2 DEF Overlay, TypeOK
<1>4. /\ now' \in Nat /\ now' = now + 1 /\ now \in Nat
      /\ DOMAIN candles' \subseteq Nat
      /\ \A i \in DOMAIN candles : candles'[i] = candles[i] /\ received'[i] = received[i]
      /\ \A i \in DOMAIN received' : received'[i] \in Nat
    BY Receiving, SeriesAssumption
<1>5. \A i \in DOMAIN candles : received[i] <= now
    <2>1. ASSUME NEW i \in DOMAIN candles
          PROVE  received[i] <= now
        <3>1. received[i] \in CloseTime(i) .. now
            BY DEF TypeOK
        <3>2. i \in 0 .. NewestClosed(now)
            BY DEF TypeOK
        <3>3. CloseTime(i) \in Nat
            BY <1>4, <3>2, ClosedCandles
        <3> QED
            BY <1>4, <3>1, <3>3
    <2> QED
        BY <2>1
<1>6. \A i \in DOMAIN candles' \ DOMAIN candles : received'[i] = now'
    BY <1>1, <1>3 DEF Overlay
<1>7. InOrder
    <2>1. \A i, j \in DOMAIN received : i < j => received'[i] <= received'[j]
        BY <1>3 DEF InOrder
    <2> QED
        BY <1>3, <1>4, <2>1 DEF InOrder
<1>8. ASSUME NEW i \in DOMAIN candles' \ DOMAIN candles, NEW j \in DOMAIN candles
      PROVE  j < i
    <2>1. i \in Nat /\ j \in Nat /\ i # j
        BY <1>3, <1>4
    <2>2. received'[i] = now' /\ received'[j] <= now /\ received'[j] \in Nat
        BY <1>3, <1>4, <1>5, <1>6
    <2>3. ~(received'[i] <= received'[j])
        BY <1>4, <2>2
    <2>4. ~(i < j)
        BY <1>3, <2>3 DEF InOrder
    <2> QED
        BY <2>1, <2>4
<1> QED
    BY <1>3, <1>4, <1>7, <1>8 DEF Continues

\* The candles of a series up to one of them.
Beginning(cs, D) == [i \in D |-> cs[i]]

IsBeginning(D, cs) ==
    /\ D \in SUBSET DOMAIN cs
    /\ \A i \in DOMAIN cs \ D : \A j \in D : j < i

ImpulsesOf(cs) == FindImpulses(cs, RunExtremes(DetectPivots(cs)))

\* Every instance was found in a beginning of the series.
WasFound(g) ==
    \E D \in SUBSET DOMAIN candles :
       IsBeginning(D, candles) /\ g \in ImpulsesOf(Beginning(candles, D))

Foundations == InOrder => \A g \in DOMAIN born : WasFound(g)

\* At a fit instant everything active is found now or has nothing beyond its end.
Looked ==
    found.unfit = {} =>
       /\ found.impulses = ImpulsesOf(candles)
       /\ \A g \in Active : g \in found.impulses \/ BeyondEnd(candles, g) = {}

Searched == TypeOK /\ Grounded /\ Foundations /\ Looked

\* What is found in a beginning is found in the whole, unless a candle goes
\* beyond it.
LEMMA FoundAgain ==
    ASSUME TypeOK, NEW g, WasFound(g), BeyondEnd(candles, g) = {}
    PROVE  g \in ImpulsesOf(candles)
<1>1. PICK D \in SUBSET DOMAIN candles :
         IsBeginning(D, candles) /\ g \in ImpulsesOf(Beginning(candles, D))
    BY DEF WasFound
<1>2. IsSeries(candles)
    BY CandlesAreSeries
<1>3. \E n \in Nat : D \subseteq 0 .. n
    BY <1>2 DEF IsSeries
<1>4. DOMAIN Beginning(candles, D) = D /\ \A i \in D : Beginning(candles, D)[i] = candles[i]
    BY DEF Beginning
<1>5. IsSeries(Beginning(candles, D))
    BY <1>2, <1>3, <1>4 DEF IsSeries
<1>6. Continues(candles, Beginning(candles, D))
    BY <1>1, <1>4 DEF Continues, IsBeginning
<1> QED
    BY <1>1, <1>2, <1>5, <1>6, ImpulsesStay DEF ImpulsesOf

LEMMA FoundStays ==
    ASSUME TypeOK, Receive, InOrder', NEW g, WasFound(g)
    PROVE  WasFound(g)'
<1>1. PICK D \in SUBSET DOMAIN candles :
         IsBeginning(D, candles) /\ g \in ImpulsesOf(Beginning(candles, D))
    BY DEF WasFound
<1>2. /\ \A i \in DOMAIN candles : i \in DOMAIN candles' /\ candles'[i] = candles[i]
      /\ \A i \in DOMAIN candles' \ DOMAIN candles : \A j \in DOMAIN candles : j < i
    BY ArrivingInOrder DEF Continues
<1>3. Beginning(candles', D) = Beginning(candles, D)
    BY <1>2 DEF Beginning
<1>4. IsBeginning(D, candles')
    BY <1>1, <1>2 DEF IsBeginning
<1>5. g \in ImpulsesOf(Beginning(candles', D))
    BY <1>1, <1>3
<1> QED
    BY <1>2, <1>4, <1>5 DEF WasFound

LEMMA FitSearch ==
    ASSUME found' = SearchImpulses(candles', now'), found'.unfit = {}
    PROVE  found'.impulses = ImpulsesOf(candles')
BY DEF SearchImpulses, ImpulsesOf

LEMMA NextSearched == Searched /\ [Next]_vars => Searched'
<1>1. SUFFICES ASSUME Searched, [Next]_vars
               PROVE  Searched'
    OBVIOUS
<1>2. TypeOK /\ Grounded /\ TypeOK' /\ Grounded'
    BY <1>1, TypedStep DEF Searched
<1>3. CASE UNCHANGED <<candles, received, found, record>>
    BY <1>1, <1>2, <1>3 DEF Searched, Foundations, Looked, WasFound, InOrder, Active, record
<1>4. CASE Unfit
    <2>1. Receive /\ found'.unfit # {} /\ born' = born
        BY <1>4 DEF Unfit, record
    <2>2. Foundations'
        <3>1. SUFFICES ASSUME InOrder', NEW g \in DOMAIN born
                       PROVE  WasFound(g)'
            BY <2>1 DEF Foundations
        <3>2. InOrder
            BY <1>2, <2>1, <3>1, ArrivingInOrder
        <3>3. WasFound(g)
            BY <1>1, <3>1, <3>2 DEF Searched, Foundations
        <3> QED
            BY <1>2, <2>1, <3>1, <3>3, FoundStays
    <2> QED
        BY <1>2, <2>1, <2>2 DEF Searched, Looked
<1>5. CASE Follow
    <2>1. Receive /\ found'.unfit = {} /\ found' = SearchImpulses(candles', now')
        BY <1>5 DEF Follow, Receive
    <2>2. found'.impulses = ImpulsesOf(candles')
        BY <2>1, FitSearch
    <2>3. /\ DOMAIN born' = DOMAIN born \cup Newborn
          /\ DOMAIN extended' =
               DOMAIN extended \cup {g \in Active : BeyondEnd(candles', g) # {}}
        BY <1>2, <1>5, Following
    <2>4. Foundations'
        <3>1. SUFFICES ASSUME InOrder', NEW g \in DOMAIN born'
                       PROVE  WasFound(g)'
            BY DEF Foundations
        <3>2. CASE g \in DOMAIN born
            <4>1. InOrder
                BY <1>2, <2>1, <3>1, ArrivingInOrder
            <4>2. WasFound(g)
                BY <1>1, <3>2, <4>1 DEF Searched, Foundations
            <4> QED
                BY <1>2, <2>1, <3>1, <4>2, FoundStays
        <3>3. CASE g \in Newborn
            <4>1. candles' = Beginning(candles', DOMAIN candles')
                BY <1>2, <2>1, <3>1, ArrivingInOrder DEF Beginning
            <4>2. g \in ImpulsesOf(Beginning(candles', DOMAIN candles'))
                BY <2>2, <3>3, <4>1 DEF Newborn
            <4>3. IsBeginning(DOMAIN candles', candles')
                BY DEF IsBeginning
            <4> QED
                BY <4>2, <4>3 DEF WasFound
        <3> QED
            BY <2>3, <3>1, <3>2, <3>3
    <2>5. Looked'
        BY <2>2, <2>3 DEF Looked, Active, Newborn
    <2> QED
        BY <1>2, <2>4, <2>5 DEF Searched
<1> QED
    BY <1>1, <1>3, <1>4, <1>5 DEF Next, Silence, vars

\* The search forgets nothing: an instance that is active is found at every fit
\* instant, however long the history has grown since it was born.
THEOREM ImpulsesAreFoundAgain == Spec => []ActiveImpulsesAreFound
<1>1. Init => Searched
    <2>1. Init => Foundations /\ Looked
        BY DEF Init, Foundations, Looked, Nothing
    <2> QED
        BY <2>1, InitTyped DEF Searched
<1>2. Searched => ActiveImpulsesAreFound
    BY FoundAgain DEF Searched, Foundations, Looked, Active, ActiveImpulsesAreFound
<1> QED
    BY <1>1, <1>2, NextSearched, PTL DEF Spec

-----------------------------------------------------------------------------
(* The structure of the candles of the replay *)

\* What the search reads is what swing_points makes.
THEOREM SwingsAreExtremes == Spec => []SwingsAreRunExtremes
<1>1. ASSUME TypeOK
      PROVE  SwingsAreRunExtremes
    <2> DEFINE swings == SwingsOf(candles)
    <2>1. Built(Singles(candles), swings)
        BY <1>1, CandlesAreSeries, SwingsAreBuilt
    <2>2. RunExtremes(DetectPivots(candles)) = Extremes(Singles(candles))
        BY DEF RunExtremes, Extremes, Singles
    <2>3. \A n \in 1 .. (Len(swings) - 1) :
             swings[n].kind # swings[n + 1].kind /\ swings[n].at < swings[n + 1].at
        <3> HIDE DEF swings
        <3> QED
            BY <2>1 DEF Built
    <2>4. {swings[n] : n \in DOMAIN swings} = Extremes(Singles(candles))
        BY <2>1 DEF Built
    <2> QED
        BY <2>2, <2>3, <2>4 DEF SwingsAreRunExtremes, Swings, SwingsOf
<1> QED
    BY <1>1, TypeCorrect, PTL

\* Candles that arrive in order neither remove nor change a confirmed pivot, nor a
\* swing but the last.
THEOREM StructureStays == Spec => StructureIsNotRepainted
<1> DEFINE Stays == /\ Confirmed(DetectPivots(candles))
                          \subseteq Confirmed(DetectPivots(candles'))
                    /\ IsPrefix(Front(Swings(candles)), Swings(candles'))
<1>1. ASSUME TypeOK, Grounded, [Next]_vars, InOrder', candles' # candles
      PROVE  Stays
    <2>1. Receive
        BY <1>1 DEF Next, Silence, Unfit, Follow, vars
    <2>2. Continues(candles', candles)
        BY <1>1, <2>1, ArrivingInOrder
    <2>3. TypeOK'
        BY <1>1, TypedStep
    <2>4. IsSeries(candles)
        BY <1>1, CandlesAreSeries
    <2>5. IsSeries(candles')
        <3>1. now' \in Nat /\ DOMAIN candles' \in SUBSET (0 .. NewestClosed(now'))
            BY <2>3, SeriesAssumption DEF TypeOK
        <3>2. \A i \in DOMAIN candles' : candles'[i] \in Shapes
            BY <2>3 DEF TypeOK
        <3> QED
            BY <3>1, <3>2, ClosedCandlesAreSeries
    <2> QED
        BY <2>2, <2>4, <2>5, ConfirmedPivotsStay, SwingsStay DEF ConfirmedPivots, Swings, SwingsOf
<1>2. TypeOK /\ Grounded /\ [Next]_vars => [InOrder' => Stays]_candles
    BY <1>1
<1> QED
    BY <1>2, TypeCorrect, PTL DEF StructureIsNotRepainted, Spec

=============================================================================
