------------------------ MODULE CandleScannerProofs -------------------------
(***************************************************************************)
(* Proofs about CandleScanner, for every set of scanners, series and       *)
(* sources, every limit, horizon and period, and every bound: types,       *)
(* mutual exclusion, freshness, dates, that the store it keeps implements  *)
(* CandleHistory, that a source is left alone while it cools down, and     *)
(* that a candle is passed over only with a cause.                         *)
(*                                                                         *)
(* The safety properties rest on two facts about a step of one scanner: it *)
(* leaves the locals and the locks of the others alone (OthersUntouched),  *)
(* and it changes the store only by Store, at the commit of an answer it   *)
(* holds (StoreOnlyAtCommit).                                              *)
(***************************************************************************)
EXTENDS CandleScanner, TLAPS

-----------------------------------------------------------------------------
(* The time grid *)

LEMMA FloorType ==
    ASSUME NEW t \in Int
    PROVE  Floor(t) \in Int
BY PeriodAssumption DEF Floor

LEMMA FloorMonotone ==
    ASSUME NEW t \in Int, NEW u \in Int, t <= u
    PROVE  Floor(t) <= Floor(u)
BY PeriodAssumption DEF Floor

LEMMA GridTypes ==
    ASSUME NEW t \in Int
    PROVE  NewestClosed(t) \in Int /\ NewestExpectedOpen(t) \in Int
BY PeriodAssumption DEF NewestClosed, NewestExpectedOpen, Floor

LEMMA GridMonotone ==
    ASSUME NEW t \in Int, NEW u \in Int, t <= u
    PROVE  /\ NewestClosed(t) <= NewestClosed(u)
           /\ NewestExpectedOpen(t) <= NewestExpectedOpen(u)
<1>1. Floor(t) <= Floor(u)
  BY FloorMonotone
<1>2. t - Grace \in Int /\ u - Grace \in Int /\ t - Grace <= u - Grace
  BY PeriodAssumption
<1>3. Floor(t - Grace) <= Floor(u - Grace)
  BY <1>2, FloorMonotone
<1> QED
  BY <1>1, <1>2, <1>3, FloorType DEF NewestClosed, NewestExpectedOpen

\* A candle the code expects has closed.
LEMMA ExpectedIsClosed ==
    ASSUME NEW t \in Int
    PROVE  NewestExpectedOpen(t) <= NewestClosed(t)
BY PeriodAssumption DEF NewestClosed, NewestExpectedOpen, Floor

\* The grace makes at most one closed candle not yet due.
LEMMA GraceIsShort ==
    ASSUME NEW t \in Int
    PROVE  NewestClosed(t) <= NewestExpectedOpen(t) + 1
BY PeriodAssumption DEF NewestClosed, NewestExpectedOpen, Floor

\* From its first start on, the system expects candles the grid has.
LEMMA ExpectedIsNat ==
    ASSUME NEW t \in Nat, t >= StartTime
    PROVE  NewestExpectedOpen(t) \in Nat /\ NewestClosed(t) \in Nat
<1>1. Duration \in Nat \ {0} /\ Grace \in Nat /\ StartTime \in Nat /\ StartTime >= Duration + Grace
  BY PeriodAssumption, ScannerAssumption
<1>2. Floor(Duration) = 1
  BY <1>1 DEF Floor
<1>3. t - Grace \in Int /\ Duration <= t - Grace
  BY <1>1
<1>4. Floor(t - Grace) >= 1 /\ Floor(t - Grace) \in Int
  BY <1>1, <1>2, <1>3, FloorMonotone, FloorType
<1>5. NewestExpectedOpen(t) \in Nat
  BY <1>4 DEF NewestExpectedOpen
<1> QED
  BY <1>5, ExpectedIsClosed, GridTypes

-----------------------------------------------------------------------------
(* Types of the operators *)

LEMMA ConstantTypes ==
    /\ Len(Targets) \in Nat \ {0}
    /\ \A i \in 1..Len(Targets) : Targets[i] \in Series
    /\ Len(CooldownTicks) \in Nat \ {0}
    /\ \A i \in 1..Len(CooldownTicks) : CooldownTicks[i] \in Nat
BY ScannerAssumption

LEMMA TargetTypes ==
    ASSUME LocalsTyped, NEW p \in Scanners
    PROVE  TargetSeries(p) \in Series /\ Source(p) \in Sources
BY ConstantTypes, ScannerAssumption DEF LocalsTyped, TargetSeries, Source

LEMMA LimitTypes ==
    ASSUME NEW source \in Sources
    PROVE  /\ MaxPerRequest[source] \in Nat \ {0}
           /\ HistoryCandles[source] \in Nat
           /\ Recent(source) \in Nat \ {0}
           /\ ClosedInRecent(source) \in Nat
           /\ ClosedInRecent(source) <= Recent(source)
<1>1. MaxPerRequest[source] \in Nat \ {0} /\ HistoryCandles[source] \in Nat
  BY ScannerAssumption
<1>2. RecentLimit \in Nat \ {0}
  BY ScannerAssumption
<1>3. Recent(source) \in Nat \ {0}
  BY <1>1, <1>2 DEF Recent, Smaller
<1> QED
  BY <1>1, <1>3 DEF ClosedInRecent

LEMMA EmptyTypes ==
    /\ NoScan \in Plan
    /\ IsAnswer(NoAnswer)
    /\ IsCandles(NoCandles)
    /\ NoSyncState \in SyncState
BY DEF NoScan, Plan, IsAnswer, NoAnswer, IsCandles, NoCandles, NoSyncState, SyncState, Never,
       DataQuality, QualityIssueCode

LEMMA InsertTypes ==
    ASSUME NEW stored, NEW batch, IsCandles(stored), IsCandles(batch)
    PROVE  IsCandles(InsertCandles(stored, batch))
BY DEF IsCandles, InsertCandles

LEMMA QualityType ==
    ASSUME NEW codes
    PROVE  QualityFromIssues(codes) \in DataQuality
BY DEF QualityFromIssues, DataQuality

LEMMA RecordTypes ==
    ASSUME NEW row \in SyncState, NEW at \in Nat, NEW status \in DataQuality
    PROVE  RecordSyncAttempt(row, at, status) \in SyncState
<1>1. CASE status # "UNAVAILABLE"
  BY <1>1 DEF RecordSyncAttempt, SyncState
<1>2. CASE status = "UNAVAILABLE"
  <2>1. RecordSyncAttempt(row, at, status) =
           [row EXCEPT !.attempt = at, !.status = status, !.failures = row.failures + 1]
    BY <1>2 DEF RecordSyncAttempt
  <2>2. row.failures + 1 \in Nat
    BY DEF SyncState
  <2> QED
    BY <2>1, <2>2 DEF SyncState
<1> QED
  BY <1>1, <1>2

LEMMA FinishTypes ==
    ASSUME LocalsTyped, NEW p \in Scanners, Finish(p)
    PROVE  LocalsTyped'
<1>1. scan' \in [Scanners -> Plan]
  BY EmptyTypes DEF LocalsTyped, Finish, Forget
<1>2. DOMAIN answer' = Scanners /\ \A q \in Scanners : IsAnswer(answer'[q])
  BY EmptyTypes DEF LocalsTyped, Finish, Forget
<1>3. pc' \in [Scanners -> {"idle", "next", "latest", "lock", "answer", "commit"}]
  BY DEF LocalsTyped, Finish, GoTo
<1>4. target' \in [Scanners -> 1..Len(Targets)]
  <2>1. target[p] \in 1..Len(Targets) /\ Len(Targets) \in Nat \ {0}
    BY ConstantTypes DEF LocalsTyped
  <2>2. CASE target[p] < Len(Targets)
    <3>1. target' = [target EXCEPT ![p] = target[p] + 1] /\ target[p] + 1 \in 1..Len(Targets)
      BY <2>1, <2>2 DEF Finish
    <3> QED
      BY <3>1 DEF LocalsTyped
  <2>3. CASE ~(target[p] < Len(Targets))
    <3>1. target' = [target EXCEPT ![p] = 1]
      BY <2>3 DEF Finish
    <3> QED
      BY <3>1, <2>1 DEF LocalsTyped
  <2> QED
    BY <2>2, <2>3
<1> QED
  BY <1>1, <1>2, <1>3, <1>4 DEF LocalsTyped, IsAnswer

LEMMA EndPassTypes ==
    ASSUME LocalsTyped, NEW p \in Scanners, EndPass(p)
    PROVE  LocalsTyped'
<1>1. scan' \in [Scanners -> Plan]
  BY EmptyTypes DEF LocalsTyped, EndPass, Forget
<1>2. DOMAIN answer' = Scanners /\ \A q \in Scanners : IsAnswer(answer'[q])
  BY EmptyTypes DEF LocalsTyped, EndPass, Forget
<1>3. pc' \in [Scanners -> {"idle", "next", "latest", "lock", "answer", "commit"}]
  BY DEF LocalsTyped, EndPass, GoTo
<1>4. target' \in [Scanners -> 1..Len(Targets)]
  BY ConstantTypes DEF LocalsTyped, EndPass
<1> QED
  BY <1>1, <1>2, <1>3, <1>4 DEF LocalsTyped, IsAnswer

LEMMA ReleaseTypes ==
    ASSUME StoreTyped, NEW p \in Scanners, Release(p)
    PROVE  lock' \in [Series -> Scanners \cup {Nobody}]
BY DEF StoreTyped, Release

LEMMA StoreTypes ==
    ASSUME StoreTyped, LocalsTyped, NEW p \in Scanners, Store(p)
    PROVE  StoreTyped'
<1> DEFINE s == TargetSeries(p)
           issues == SyncIssues(answer[p].issues, candles[s], answer[p].candles)
<1>1. s \in Series /\ IsAnswer(answer[p])
  BY TargetTypes DEF LocalsTyped
<1>2. IsCandles(InsertCandles(candles[s], answer[p].candles))
  BY <1>1, InsertTypes DEF StoreTyped, IsAnswer
<1>3. candles' = [r \in Series |-> candles'[r]] /\ \A r \in Series : IsCandles(candles'[r])
  BY <1>1, <1>2 DEF Store, StoreTyped
<1>4. RecordSyncAttempt(syncState[s], answer[p].at, QualityFromIssues(issues)) \in SyncState
  BY <1>1, QualityType, RecordTypes DEF StoreTyped, IsAnswer
<1>5. syncState' \in [Series -> SyncState]
  BY <1>1, <1>4 DEF Store, StoreTyped
<1>6. omitted' \in [Series -> SUBSET Nat]
  BY <1>1 DEF Store, StoreTyped, IsAnswer
<1>7. lock' \in [Series -> Scanners \cup {Nobody}]
  BY ReleaseTypes DEF Store
<1> QED
  BY <1>3, <1>5, <1>6, <1>7 DEF StoreTyped, IsCandles

LEMMA RequestedTypes ==
    ASSUME LocalsTyped, now \in Nat, NEW p \in Scanners, NEW newest \in Nat
    PROVE  Requested(p, newest) \subseteq Nat /\ Available(p, newest) \subseteq Nat
<1>1. scan[p] \in Plan /\ Source(p) \in Sources
  BY TargetTypes DEF LocalsTyped
<1>2. PageEnd(p) \in Nat
  BY <1>1, LimitTypes DEF PageEnd, Plan, Smaller
<1>3. \A i \in Requested(p, newest) : i \in Nat
  BY <1>1, <1>2, LimitTypes DEF Requested, Plan, Smaller, Larger
<1> QED
  BY <1>3 DEF Available

LEMMA BatchTypes ==
    ASSUME LocalsTyped, now \in Nat, NEW p \in Scanners, NEW newest \in Nat,
           NEW served \in SUBSET Available(p, newest), NEW v \in Values
    PROVE  IsAnswer(Batch(p, served, newest, v))
<1>1. Available(p, newest) \subseteq Nat
  BY RequestedTypes
<1>2. IsCandles([i \in served |-> v])
  BY <1>1 DEF IsCandles
<1> QED
  BY <1>1, <1>2 DEF IsAnswer, Batch, QualityIssueCode, DegradingIssues

LEMMA AnswerStepTypes ==
    ASSUME LocalsTyped, NEW p \in Scanners, NEW batch, IsAnswer(batch),
           answer' = [answer EXCEPT ![p] = batch], GoTo(p, "commit"),
           UNCHANGED <<target, scan>>
    PROVE  LocalsTyped'
<1>1. DOMAIN answer' = Scanners /\ \A q \in Scanners : IsAnswer(answer'[q])
  BY DEF LocalsTyped
<1>2. pc' \in [Scanners -> {"idle", "next", "latest", "lock", "answer", "commit"}]
  BY DEF LocalsTyped, GoTo
<1> QED
  BY <1>1, <1>2 DEF LocalsTyped, IsAnswer

-----------------------------------------------------------------------------
(* Type correctness *)

LEMMA InitTyped == Init => TypeOK
<1> SUFFICES ASSUME Init PROVE TypeOK
  OBVIOUS
<1>1. StoreTyped
  BY EmptyTypes DEF Init, StoreTyped
<1>2. LocalsTyped
  BY EmptyTypes, ConstantTypes DEF Init, LocalsTyped
<1> QED
  BY <1>1, <1>2, ScannerAssumption DEF Init, TypeOK, NoCooldown

LEMMA OpenCooldownTypes ==
    ASSUME TypeOK, NEW p \in Scanners, OpenCooldown(p)
    PROVE  cooldown' \in [Scanners -> [Sources -> [until : Nat, streak : Nat]]]
<1> DEFINE streak == cooldown[p][Source(p)].streak + 1
           ticks == CooldownTicks[Smaller(streak, Len(CooldownTicks))]
<1>1. Source(p) \in Sources /\ scan[p].since \in Nat
  BY TargetTypes DEF TypeOK, LocalsTyped, Plan
<1>2. streak \in Nat \ {0}
  BY <1>1 DEF TypeOK
<1>3. Smaller(streak, Len(CooldownTicks)) \in 1..Len(CooldownTicks)
  BY <1>2, ConstantTypes DEF Smaller
<1>4. ticks \in Nat
  BY <1>3, ConstantTypes
<1>5. [until |-> scan[p].since + ticks, streak |-> streak] \in [until : Nat, streak : Nat]
  BY <1>1, <1>2, <1>4
<1>6. cooldown' = [cooldown EXCEPT ![p][Source(p)] =
                      [until |-> scan[p].since + ticks, streak |-> streak]]
  BY DEF OpenCooldown
<1> HIDE DEF streak, ticks
<1> QED
  BY <1>1, <1>5, <1>6 DEF TypeOK

LEMMA CloseCooldownTypes ==
    ASSUME TypeOK, NEW p \in Scanners, CloseCooldown(p)
    PROVE  cooldown' \in [Scanners -> [Sources -> [until : Nat, streak : Nat]]]
BY TargetTypes DEF TypeOK, CloseCooldown, NoCooldown

\* What the store and the locals keep their types by, action by action.
LEMMA PlanStepTypes ==
    ASSUME LocalsTyped, NEW p \in Scanners, NEW plan \in Plan, NEW label,
           label \in {"idle", "next", "latest", "lock", "answer", "commit"},
           scan' = [scan EXCEPT ![p] = plan], GoTo(p, label),
           UNCHANGED <<target, answer>>
    PROVE  LocalsTyped'
<1>1. pc' \in [Scanners -> {"idle", "next", "latest", "lock", "answer", "commit"}]
  BY DEF LocalsTyped, GoTo
<1>2. scan' \in [Scanners -> Plan]
  BY DEF LocalsTyped
<1> QED
  BY <1>1, <1>2 DEF LocalsTyped, IsAnswer

LEMMA MoveTypes ==
    ASSUME LocalsTyped, NEW p \in Scanners, NEW label,
           label \in {"idle", "next", "latest", "lock", "answer", "commit"},
           GoTo(p, label), UNCHANGED <<target, scan, answer>>
    PROVE  LocalsTyped'
<1>1. pc' \in [Scanners -> {"idle", "next", "latest", "lock", "answer", "commit"}]
  BY DEF LocalsTyped, GoTo
<1> QED
  BY <1>1 DEF LocalsTyped, IsAnswer

LEMMA WorkTyped ==
    ASSUME TypeOK, NEW p \in Scanners, Work(p)
    PROVE  TypeOK'
<1> USE DEF TypeOK
<1>0. /\ scan[p] \in Plan /\ answer[p].at \in Nat
      /\ TargetSeries(p) \in Series /\ Source(p) \in Sources
      /\ NewestExpectedOpen(now) \in Nat /\ NewestClosed(now) \in Nat
  BY TargetTypes, ExpectedIsNat DEF LocalsTyped, IsAnswer
<1>1. CASE StartPass(p)
  BY <1>1, MoveTypes DEF StartPass, StoreTyped, IsCandles, shared
<1>2. CASE Skip(p)
  BY <1>2, FinishTypes DEF Skip, StoreTyped, IsCandles, shared
<1>3. CASE BeginScan(p)
  <2> DEFINE plan == [NoScan EXCEPT !.since = now, !.expected = NewestExpectedOpen(now)]
  <2>1. plan \in Plan
    BY <1>0 DEF NoScan, Plan
  <2>2. LocalsTyped'
    <3>1. scan' = [scan EXCEPT ![p] = plan] /\ GoTo(p, "latest") /\ UNCHANGED <<target, answer>>
      BY <1>3 DEF BeginScan
    <3> QED
      BY <2>1, <3>1, PlanStepTypes
  <2> QED
    BY <1>3, <2>2 DEF BeginScan, StoreTyped, IsCandles, shared
<1>4. CASE FindCurrent(p)
  BY <1>4, FinishTypes DEF FindCurrent, StoreTyped, IsCandles, shared
<1>5. CASE PlanFirst(p)
  <2>1. [scan[p] EXCEPT !.mode = "first"] \in Plan
    BY <1>0 DEF Plan
  <2>2. scan' = [scan EXCEPT ![p] = [scan[p] EXCEPT !.mode = "first"]]
    BY <1>5 DEF PlanFirst, LocalsTyped
  <2>3. LocalsTyped'
    BY <1>5, <2>1, <2>2, PlanStepTypes DEF PlanFirst
  <2> QED
    BY <1>5, <2>3 DEF PlanFirst, StoreTyped, IsCandles, shared
<1>6. CASE PlanRecent(p)
  <2>1. [scan[p] EXCEPT !.mode = "recent"] \in Plan
    BY <1>0 DEF Plan
  <2>2. scan' = [scan EXCEPT ![p] = [scan[p] EXCEPT !.mode = "recent"]]
    BY <1>6 DEF PlanRecent, LocalsTyped
  <2>3. LocalsTyped'
    BY <1>6, <2>1, <2>2, PlanStepTypes DEF PlanRecent
  <2> QED
    BY <1>6, <2>3 DEF PlanRecent, StoreTyped, IsCandles, shared
<1>7. CASE PlanCatchUp(p)
  <2>1. PICK latest \in DOMAIN candles[TargetSeries(p)] :
           scan' = [scan EXCEPT ![p].mode = "catchup",
                                ![p].cursor = FirstMissed(p, latest),
                                ![p].end = scan[p].expected + 1,
                                ![p].budget = MaxCatchup]
    BY <1>7 DEF PlanCatchUp
  <2> DEFINE plan == [scan[p] EXCEPT !.mode = "catchup",
                                     !.cursor = FirstMissed(p, latest),
                                     !.end = scan[p].expected + 1,
                                     !.budget = MaxCatchup]
  <2>2. latest \in Nat /\ scan[p].expected \in Nat /\ HistoryCandles[Source(p)] \in Nat
    BY <1>0, LimitTypes DEF StoreTyped, IsCandles, Plan
  <2>3. FirstMissed(p, latest) \in Nat
    BY <2>2 DEF FirstMissed, Larger
  <2>4. scan[p].expected + 1 \in Nat /\ MaxCatchup \in Nat
    <3>1. scan[p].expected + 1 \in Nat
      BY <2>2
    <3>2. MaxCatchup \in Nat
      BY ScannerAssumption
    <3> QED
      BY <3>1, <3>2
  <2>5. plan \in Plan
    BY <1>0, <2>3, <2>4 DEF Plan
  <2>6. scan' = [scan EXCEPT ![p] = plan]
    BY <2>1 DEF LocalsTyped
  <2>7. LocalsTyped'
    BY <1>7, <2>5, <2>6, PlanStepTypes DEF PlanCatchUp
  <2> QED
    BY <1>7, <2>7 DEF PlanCatchUp, StoreTyped, IsCandles, shared
<1>8. CASE TryLock(p)
  <2>1. LocalsTyped'
    BY <1>8, MoveTypes DEF TryLock
  <2>2. StoreTyped'
    BY <1>0, <1>8 DEF TryLock, StoreTyped, IsCandles
  <2> QED
    BY <1>8, <2>1, <2>2 DEF TryLock
<1>9. CASE FindLocked(p)
  BY <1>9, FinishTypes DEF FindLocked, StoreTyped, IsCandles, shared
<1>10. CASE Deliver(p)
  <2>1. PICK newest \in NewestExpectedOpen(now) .. NewestClosed(now), v \in Values :
           answer' = [answer EXCEPT ![p] = Batch(p, Available(p, newest), newest, v)]
    BY <1>10 DEF Deliver
  <2>2. IsAnswer(Batch(p, Available(p, newest), newest, v))
    BY <1>0, BatchTypes
  <2>3. LocalsTyped'
    BY <1>10, <2>1, <2>2, AnswerStepTypes DEF Deliver
  <2> QED
    BY <1>10, <2>3 DEF Deliver, StoreTyped, IsCandles, shared
<1>11. CASE CommitFailure(p)
  <2>1. cooldown' \in [Scanners -> [Sources -> [until : Nat, streak : Nat]]]
    BY <1>11, OpenCooldownTypes DEF CommitFailure
  <2> QED
    BY <1>11, <2>1, FinishTypes, StoreTypes DEF CommitFailure
<1>12. CASE CommitRecent(p)
  BY <1>12, CloseCooldownTypes, FinishTypes, StoreTypes DEF CommitRecent
<1>13. CASE CommitPage(p)
  <2> DEFINE plan == [scan[p] EXCEPT !.cursor = PageEnd(p),
                                     !.budget = scan[p].budget - MaxPerRequest[Source(p)]]
  <2>1. MaxPerRequest[Source(p)] \in Nat \ {0} /\ scan[p].budget - MaxPerRequest[Source(p)] \in Nat
    BY <1>0, <1>13, LimitTypes DEF CommitPage, Plan
  <2>2. PageEnd(p) \in Nat
    BY <1>0, <2>1 DEF PageEnd, Smaller, Plan
  <2>3. plan \in Plan
    BY <1>0, <2>1, <2>2 DEF Plan
  <2>4. scan' = [scan EXCEPT ![p] = plan]
    BY <1>13 DEF CommitPage, LocalsTyped
  <2>5. scan' \in [Scanners -> Plan]
    BY <2>3, <2>4 DEF LocalsTyped
  <2>6. DOMAIN answer' = Scanners /\ \A q \in Scanners : IsAnswer(answer'[q])
    BY <1>13, EmptyTypes DEF CommitPage, LocalsTyped
  <2>7. pc' \in [Scanners -> {"idle", "next", "latest", "lock", "answer", "commit"}]
    BY <1>13 DEF CommitPage, GoTo, LocalsTyped
  <2>8. LocalsTyped'
    BY <1>13, <2>5, <2>6, <2>7 DEF CommitPage, LocalsTyped, IsAnswer
  <2> QED
    BY <1>13, <2>8, StoreTypes DEF CommitPage
<1>14. CASE CommitLastPage(p)
  BY <1>14, CloseCooldownTypes, FinishTypes, StoreTypes DEF CommitLastPage
<1> QED
  BY <1>1, <1>2, <1>3, <1>4, <1>5, <1>6, <1>7, <1>8, <1>9, <1>10, <1>11, <1>12, <1>13, <1>14 DEF Work

LEMMA BreakTyped ==
    ASSUME TypeOK, NEW p \in Scanners, Break(p)
    PROVE  TypeOK'
<1> USE DEF TypeOK
<1>0. NewestExpectedOpen(now) \in Nat /\ NewestClosed(now) \in Nat
  BY ExpectedIsNat
<1>f. Fault => faults' \in Nat
  BY DEF Fault
<1>1. CASE DeliverPart(p)
  <2>1. PICK newest \in NewestExpectedOpen(now) .. NewestClosed(now), v \in Values :
           \E served \in SUBSET Available(p, newest) :
              answer' = [answer EXCEPT ![p] = Batch(p, served, newest, v)]
    BY <1>1 DEF DeliverPart
  <2>2. PICK served \in SUBSET Available(p, newest) :
           answer' = [answer EXCEPT ![p] = Batch(p, served, newest, v)]
    BY <2>1
  <2>3. IsAnswer(Batch(p, served, newest, v))
    BY <1>0, BatchTypes
  <2>4. LocalsTyped'
    BY <1>1, <2>2, <2>3, AnswerStepTypes DEF DeliverPart
  <2> QED
    BY <1>1, <1>f, <2>4 DEF DeliverPart, StoreTyped, IsCandles, shared
<1>2. CASE Fail(p)
  <2>1. PICK code \in FailureCodes : answer' = [answer EXCEPT ![p] =
           [issues |-> {code}, candles |-> NoCandles, omitted |-> {}, at |-> now]]
    BY <1>2 DEF Fail
  <2>2. code \in QualityIssueCode
    BY ScannerAssumption DEF QualityIssueCode
  <2>3. IsAnswer([issues |-> {code}, candles |-> NoCandles, omitted |-> {}, at |-> now])
    BY <2>2, EmptyTypes DEF IsAnswer
  <2>4. LocalsTyped'
    BY <1>2, <2>1, <2>3, AnswerStepTypes DEF Fail
  <2> QED
    BY <1>2, <1>f, <2>4 DEF Fail, StoreTyped, IsCandles, shared
<1>3. CASE Refuse(p)
  BY <1>3, <1>f, FinishTypes, ReleaseTypes DEF Refuse, StoreTyped, IsCandles
<1>4. CASE DatabaseFails(p)
  BY <1>4, <1>f, EndPassTypes, ReleaseTypes DEF DatabaseFails, StoreTyped, IsCandles
<1>5. CASE CommitUnacknowledged(p)
  BY <1>5, <1>f, EndPassTypes, StoreTypes DEF CommitUnacknowledged
<1>6. CASE Restart(p)
  <2>1. cooldown' \in [Scanners -> [Sources -> [until : Nat, streak : Nat]]]
    BY <1>6 DEF Restart, NoCooldown
  <2> QED
    BY <1>6, <1>f, <2>1, EndPassTypes, ReleaseTypes DEF Restart, StoreTyped, IsCandles
<1> QED
  BY <1>1, <1>2, <1>3, <1>4, <1>5, <1>6 DEF Break

LEMMA TickTyped ==
    ASSUME TypeOK, Tick
    PROVE  TypeOK'
<1>1. now \in Nat /\ now >= StartTime /\ StartTime \in Nat /\ now' = now + 1
  BY ScannerAssumption DEF TypeOK, Tick
<1>2. now' \in Nat /\ now' >= StartTime
  BY <1>1
<1>3. UNCHANGED <<shared, locals, cooldown, omitted, faults>>
  BY DEF Tick
<1>4. LocalsTyped'
  BY <1>3 DEF TypeOK, locals, LocalsTyped, IsAnswer
<1>5. StoreTyped'
  BY <1>3 DEF TypeOK, shared, StoreTyped, IsCandles
<1> QED
  BY <1>2, <1>3, <1>4, <1>5 DEF TypeOK

\* Whatever the scanners do, the rows, locks and locals stay of their types:
\* in particular no scanner's cursor leaves the grid, no budget gets negative
\* and no target is looked up outside the settings' list.
THEOREM TypeCorrect == Spec => []TypeOK
<1>1. TypeOK /\ [Next]_vars => TypeOK'
  <2> SUFFICES ASSUME TypeOK, [Next]_vars PROVE TypeOK'
    OBVIOUS
  <2>1. CASE UNCHANGED vars
    BY <2>1 DEF vars, shared, locals, TypeOK, StoreTyped, LocalsTyped, IsCandles, IsAnswer
  <2> QED
    BY <2>1, TickTyped, WorkTyped, BreakTyped DEF Next
<1> QED
  BY <1>1, InitTyped, PTL DEF Spec

-----------------------------------------------------------------------------
(* What one step touches *)

\* The locals of a scanner are its own.
LEMMA OthersUntouched ==
    ASSUME TypeOK, NEW p \in Scanners, Work(p) \/ Break(p), NEW q \in Scanners, q # p
    PROVE  /\ pc'[q] = pc[q]
           /\ target'[q] = target[q]
           /\ scan'[q] = scan[q]
           /\ answer'[q] = answer[q]
           /\ cooldown'[q] = cooldown[q]
<1> USE DEF TypeOK, LocalsTyped
<1>1. CASE Work(p)
  <2>1. CASE StartPass(p) \/ BeginScan(p)
    BY <2>1 DEF StartPass, BeginScan, GoTo
  <2>2. CASE Skip(p) \/ FindCurrent(p) \/ FindLocked(p)
    BY <2>2 DEF Skip, FindCurrent, FindLocked, Finish, Forget, GoTo
  <2>3. CASE PlanFirst(p) \/ PlanRecent(p) \/ PlanCatchUp(p)
    BY <2>3 DEF PlanFirst, PlanRecent, PlanCatchUp, GoTo
  <2>4. CASE TryLock(p) \/ Deliver(p)
    BY <2>4 DEF TryLock, Deliver, GoTo
  <2>5. CASE CommitFailure(p)
    BY <2>5 DEF CommitFailure, Finish, Forget, GoTo, OpenCooldown
  <2>6. CASE CommitRecent(p) \/ CommitLastPage(p)
    BY <2>6 DEF CommitRecent, CommitLastPage, Finish, Forget, GoTo, CloseCooldown
  <2>7. CASE CommitPage(p)
    BY <2>7 DEF CommitPage, GoTo
  <2> QED
    BY <1>1, <2>1, <2>2, <2>3, <2>4, <2>5, <2>6, <2>7 DEF Work
<1>2. CASE Break(p)
  <2>1. CASE DeliverPart(p) \/ Fail(p)
    BY <2>1 DEF DeliverPart, Fail, GoTo
  <2>2. CASE Refuse(p)
    BY <2>2 DEF Refuse, Finish, Forget, GoTo
  <2>3. CASE DatabaseFails(p) \/ CommitUnacknowledged(p) \/ Restart(p)
    BY <2>3 DEF DatabaseFails, CommitUnacknowledged, Restart, EndPass, Forget, GoTo
  <2> QED
    BY <1>2, <2>1, <2>2, <2>3 DEF Break
<1> QED
  BY <1>1, <1>2

\* Locks held by other scanners stay held.
LEMMA OthersKeepTheirLocks ==
    ASSUME TypeOK, NEW p \in Scanners, Work(p) \/ Break(p),
           NEW q \in Scanners, q # p, NEW s \in Series, lock[s] = q
    PROVE  lock'[s] = q
<1> USE DEF TypeOK, StoreTyped
<1>1. CASE UNCHANGED lock
  BY <1>1
<1>2. CASE Release(p)
  BY <1>2 DEF Release
<1>3. CASE TryLock(p)
  BY <1>3, ScannerAssumption DEF TryLock
<1> QED
  BY <1>1, <1>2, <1>3 DEF Work, Break, StartPass, BeginScan, Skip, FindCurrent, FindLocked, PlanFirst,
     PlanRecent, PlanCatchUp, Deliver, CommitFailure, CommitRecent, CommitLastPage, CommitPage,
     DeliverPart, Fail, Refuse, DatabaseFails, CommitUnacknowledged, Restart, Store, shared

\* The clock is not a scanner's.
LEMMA ClockUntouched ==
    ASSUME NEW p \in Scanners, Work(p) \/ Break(p)
    PROVE  now' = now
BY DEF Work, Break, StartPass, BeginScan, Skip, FindCurrent, FindLocked, PlanFirst, PlanRecent,
   PlanCatchUp, TryLock, Deliver, CommitFailure, CommitRecent, CommitLastPage, CommitPage, DeliverPart,
   Fail, Refuse, DatabaseFails, CommitUnacknowledged, Restart

\* The store changes only when an answer is committed.
LEMMA StoreOnlyAtCommit ==
    ASSUME NEW p \in Scanners, Work(p) \/ Break(p)
    PROVE  \/ UNCHANGED <<candles, syncState, omitted>>
           \/ pc[p] = "commit" /\ Store(p)
BY DEF Work, Break, StartPass, BeginScan, Skip, FindCurrent, FindLocked, PlanFirst, PlanRecent,
   PlanCatchUp, TryLock, Deliver, CommitFailure, CommitRecent, CommitLastPage, CommitPage, DeliverPart,
   Fail, Refuse, DatabaseFails, CommitUnacknowledged, Restart, shared

\* The labels a step may leave its scanner at.
LEMMA WhereAStepEnds ==
    ASSUME TypeOK, NEW p \in Scanners, Work(p) \/ Break(p)
    PROVE  \/ pc'[p] \in {"idle", "next"}
           \/ BeginScan(p) /\ pc'[p] = "latest"
           \/ (PlanFirst(p) \/ PlanRecent(p) \/ PlanCatchUp(p) \/ CommitPage(p)) /\ pc'[p] = "lock"
           \/ TryLock(p) /\ pc'[p] = "answer"
           \/ (Deliver(p) \/ DeliverPart(p) \/ Fail(p)) /\ pc'[p] = "commit"
<1> USE DEF TypeOK, LocalsTyped, GoTo
<1>1. CASE Finish(p)
  BY <1>1 DEF Finish
<1>2. CASE EndPass(p)
  BY <1>2 DEF EndPass
<1>3. CASE BeginScan(p)
  BY <1>3 DEF BeginScan
<1>4. CASE PlanFirst(p) \/ PlanRecent(p) \/ PlanCatchUp(p) \/ CommitPage(p)
  BY <1>4 DEF PlanFirst, PlanRecent, PlanCatchUp, CommitPage
<1>5. CASE TryLock(p)
  BY <1>5 DEF TryLock
<1>6. CASE Deliver(p) \/ DeliverPart(p) \/ Fail(p)
  BY <1>6 DEF Deliver, DeliverPart, Fail
<1>7. CASE StartPass(p)
  BY <1>7 DEF StartPass
<1> QED
  BY <1>1, <1>2, <1>3, <1>4, <1>5, <1>6, <1>7 DEF Work, Break, Skip, FindCurrent, FindLocked,
     CommitFailure, CommitRecent, CommitLastPage, Refuse, DatabaseFails, CommitUnacknowledged, Restart

-----------------------------------------------------------------------------
(* Mutual exclusion *)

\* A scanner that waits for an answer, or stores one, holds the series' lock.
HoldsItsLock ==
    \A p \in Scanners : pc[p] \in {"answer", "commit"} => lock[TargetSeries(p)] = p

LEMMA HoldsItsLockStep ==
    ASSUME TypeOK, HoldsItsLock, [Next]_vars
    PROVE  HoldsItsLock'
<1> SUFFICES ASSUME NEW q \in Scanners, pc'[q] \in {"answer", "commit"}
             PROVE  lock'[TargetSeries(q)'] = q
  BY DEF HoldsItsLock
<1>1. CASE UNCHANGED <<lock, pc, target>>
  BY <1>1 DEF HoldsItsLock, TargetSeries
<1>2. ASSUME NEW p \in Scanners, Work(p) \/ Break(p)
      PROVE  lock'[TargetSeries(q)'] = q
  <2>1. CASE q # p
    <3>1. pc[q] \in {"answer", "commit"} /\ TargetSeries(q)' = TargetSeries(q)
      BY <1>2, <2>1, OthersUntouched DEF TargetSeries
    <3>2. TargetSeries(q) \in Series /\ lock[TargetSeries(q)] = q
      BY <3>1, TargetTypes DEF HoldsItsLock, TypeOK
    <3> QED
      BY <1>2, <2>1, <3>1, <3>2, OthersKeepTheirLocks
  <2>2. CASE q = p
    <3>1. TryLock(p) \/ Deliver(p) \/ DeliverPart(p) \/ Fail(p)
      BY <1>2, <2>2, WhereAStepEnds
    <3>2. TargetSeries(p)' = TargetSeries(p) /\ TargetSeries(p) \in Series
      BY <3>1, TargetTypes DEF TryLock, Deliver, DeliverPart, Fail, TargetSeries, TypeOK
    <3>3. CASE TryLock(p)
      BY <2>2, <3>2, <3>3 DEF TryLock, TypeOK, StoreTyped
    <3>4. CASE Deliver(p) \/ DeliverPart(p) \/ Fail(p)
      BY <2>2, <3>2, <3>4 DEF Deliver, DeliverPart, Fail, HoldsItsLock, shared
    <3> QED
      BY <3>1, <3>3, <3>4
  <2> QED
    BY <2>1, <2>2
<1> QED
  BY <1>1, <1>2 DEF Next, Tick, vars, shared, locals

LEMMA HoldsItsLockAlways == Spec => []HoldsItsLock
<1>1. Init => HoldsItsLock
  BY DEF Init, HoldsItsLock
<1>2. TypeOK /\ HoldsItsLock /\ [Next]_vars => HoldsItsLock'
  BY HoldsItsLockStep
<1> QED
  BY <1>1, <1>2, TypeCorrect, PTL DEF Spec

\* Two backend instances never fetch one series at the same time, however many
\* there are and however their transactions end.
THEOREM MutualExclusion == Spec => []NeverFetchedTogether
<1>1. TypeOK /\ HoldsItsLock => NeverFetchedTogether
  BY DEF TypeOK, HoldsItsLock, NeverFetchedTogether
<1> QED
  BY <1>1, TypeCorrect, HoldsItsLockAlways, PTL

-----------------------------------------------------------------------------
(* What an answer brings, and what storing it does *)

Failing(batch) == batch.issues \cap FailureIssues # {}

\* Nothing in a batch is newer than its moment; a failed one is empty.
Honest(batch) ==
    /\ \A i \in DOMAIN batch.candles : i <= NewestClosed(batch.at)
    /\ Failing(batch) => DOMAIN batch.candles = {}

LEMMA RequestedIsClosed ==
    ASSUME TypeOK, NEW p \in Scanners, NEW newest \in Int, newest <= NewestClosed(now),
           NEW i \in Requested(p, newest)
    PROVE  i <= NewestClosed(now)
<1>1. scan[p] \in Plan /\ Source(p) \in Sources /\ NewestClosed(now) \in Int
  BY TargetTypes, ExpectedIsNat DEF TypeOK, LocalsTyped
<1>2. PageEnd(p) \in Int
  BY <1>1, LimitTypes DEF PageEnd, Plan, Smaller
<1>3. i \in Int /\ i <= newest
  BY <1>1, <1>2, LimitTypes DEF Requested, Plan, Smaller, Larger
<1> QED
  BY <1>1, <1>3

LEMMA AnswersAreHonest ==
    ASSUME TypeOK, NEW p \in Scanners, Deliver(p) \/ DeliverPart(p) \/ Fail(p)
    PROVE  answer'[p].at = now /\ Honest(answer'[p])
<1>0. NewestExpectedOpen(now) \in Nat /\ NewestClosed(now) \in Nat
  BY ExpectedIsNat DEF TypeOK
<1>1. CASE Deliver(p) \/ DeliverPart(p)
  <2>1. PICK newest \in NewestExpectedOpen(now) .. NewestClosed(now), v \in Values :
           \E served \in SUBSET Available(p, newest) :
              answer' = [answer EXCEPT ![p] = Batch(p, served, newest, v)]
    BY <1>1 DEF Deliver, DeliverPart
  <2>2. PICK served \in SUBSET Available(p, newest) : answer'[p] = Batch(p, served, newest, v)
    BY <2>1 DEF TypeOK, LocalsTyped
  <2>3. answer'[p].at = now /\ DOMAIN answer'[p].candles = served /\ ~Failing(answer'[p])
    BY <2>2 DEF Batch, Failing, FailureIssues
  <2>4. \A i \in served : i <= NewestClosed(now)
    BY <1>0, RequestedIsClosed DEF Available
  <2> QED
    BY <2>3, <2>4 DEF Honest
<1>2. CASE Fail(p)
  BY <1>2 DEF Fail, TypeOK, LocalsTyped, Honest, NoCandles
<1> QED
  BY <1>1, <1>2

LEMMA InsertFacts ==
    ASSUME NEW stored, NEW batch, IsCandles(stored), IsCandles(batch)
    PROVE  /\ DOMAIN InsertCandles(stored, batch) = DOMAIN stored \cup DOMAIN batch
           /\ \A i \in DOMAIN stored : InsertCandles(stored, batch)[i] = stored[i]
           /\ DOMAIN batch = {} => InsertCandles(stored, batch) = stored
BY DEF IsCandles, InsertCandles

\* Only the provider makes an answer worthless: a revised candle degrades it.
LEMMA StoredQuality ==
    ASSUME NEW issues, NEW stored, NEW batch
    PROVE  (QualityFromIssues(SyncIssues(issues, stored, batch)) = "UNAVAILABLE")
              <=> (issues \cap FailureIssues # {})
BY DEF QualityFromIssues, SyncIssues, FailureIssues

LEMMA RecordFacts ==
    ASSUME NEW row \in SyncState, NEW at \in Nat, NEW status
    PROVE  LET new == RecordSyncAttempt(row, at, status)
           IN  /\ new.attempt = at
               /\ status # "UNAVAILABLE" => new.success = at
               /\ status = "UNAVAILABLE" => new.success = row.success
BY DEF RecordSyncAttempt, SyncState

LEMMA StoreFacts ==
    ASSUME TypeOK, NEW p \in Scanners, Store(p), Honest(answer[p])
    PROVE  LET s == TargetSeries(p)
           IN  /\ \A r \in Series \ {s} : candles'[r] = candles[r] /\ syncState'[r] = syncState[r]
               /\ DOMAIN candles'[s] = DOMAIN candles[s] \cup DOMAIN answer[p].candles
               /\ \A i \in DOMAIN candles[s] : candles'[s][i] = candles[s][i]
               /\ syncState'[s].attempt = answer[p].at
               /\ Failing(answer[p]) => candles' = candles /\ syncState'[s].success = syncState[s].success
               /\ ~Failing(answer[p]) => syncState'[s].success = answer[p].at
<1> DEFINE s == TargetSeries(p)
           status == QualityFromIssues(SyncIssues(answer[p].issues, candles[s], answer[p].candles))
<1>1. /\ s \in Series /\ answer[p].at \in Nat
      /\ IsCandles(candles[s]) /\ IsCandles(answer[p].candles)
      /\ syncState[s] \in SyncState
      /\ DOMAIN candles = Series /\ DOMAIN syncState = Series
  BY TargetTypes DEF TypeOK, StoreTyped, LocalsTyped, IsAnswer
<1>2. /\ candles' = [candles EXCEPT ![s] = InsertCandles(candles[s], answer[p].candles)]
      /\ syncState' = [syncState EXCEPT ![s] = RecordSyncAttempt(syncState[s], answer[p].at, status)]
  BY DEF Store
<1>3. status = "UNAVAILABLE" <=> Failing(answer[p])
  BY StoredQuality DEF Failing
<1> HIDE DEF status, s
<1>4. \A r \in Series \ {s} : candles'[r] = candles[r] /\ syncState'[r] = syncState[r]
  BY <1>1, <1>2
<1>5. candles'[s] = InsertCandles(candles[s], answer[p].candles)
  BY <1>1, <1>2
<1>6. syncState'[s] = RecordSyncAttempt(syncState[s], answer[p].at, status)
  BY <1>1, <1>2
<1>7. /\ DOMAIN candles'[s] = DOMAIN candles[s] \cup DOMAIN answer[p].candles
      /\ \A i \in DOMAIN candles[s] : candles'[s][i] = candles[s][i]
  <2> DEFINE stored == candles[s]
             batch == answer[p].candles
  <2>1. IsCandles(stored) /\ IsCandles(batch)
    BY <1>1
  <2> HIDE DEF stored, batch
  <2>2. /\ DOMAIN InsertCandles(stored, batch) = DOMAIN stored \cup DOMAIN batch
        /\ \A i \in DOMAIN stored : InsertCandles(stored, batch)[i] = stored[i]
    BY <2>1, InsertFacts
  <2>3. candles'[s] = InsertCandles(stored, batch)
    BY <1>5 DEF stored, batch
  <2>4. /\ DOMAIN candles'[s] = DOMAIN stored \cup DOMAIN batch
        /\ \A i \in DOMAIN stored : candles'[s][i] = stored[i]
    BY <2>2, <2>3
  <2> QED
    BY <2>4 DEF stored, batch
<1>8. /\ syncState'[s].attempt = answer[p].at
      /\ Failing(answer[p]) => syncState'[s].success = syncState[s].success
      /\ ~Failing(answer[p]) => syncState'[s].success = answer[p].at
  BY <1>1, <1>3, <1>6, RecordFacts
<1>9. Failing(answer[p]) => candles' = candles
  <2> SUFFICES ASSUME Failing(answer[p]) PROVE candles' = candles
    OBVIOUS
  <2>1. InsertCandles(candles[s], answer[p].candles) = candles[s]
    BY <1>1, InsertFacts DEF Honest
  <2>2. candles' = [candles EXCEPT ![s] = candles[s]]
    BY <1>2, <2>1
  <2>3. candles = [r \in Series |-> candles[r]]
    BY DEF TypeOK, StoreTyped
  <2> QED
    BY <2>2, <2>3
<1> QED
  BY <1>4, <1>7, <1>8, <1>9 DEF s

-----------------------------------------------------------------------------
(* The dates of the store *)

\* No row is dated in the future, nor later for its success than its attempt.
RowsDated ==
    \A s \in Series : /\ syncState[s].success <= syncState[s].attempt
                      /\ syncState[s].attempt <= now

\* An answer waiting to be stored is not older than its series' row: the lock
\* was held since before it was given.
AnswersDated ==
    \A p \in Scanners : pc[p] = "commit" =>
        /\ syncState[TargetSeries(p)].attempt <= answer[p].at
        /\ answer[p].at <= now
        /\ Honest(answer[p])

Dated == RowsDated /\ AnswersDated

LEMMA RowTypes ==
    ASSUME TypeOK, NEW s \in Series
    PROVE  syncState[s].attempt \in Int /\ syncState[s].success \in Int
BY DEF TypeOK, StoreTyped, SyncState, Never

LEMMA AnswerInHand ==
    ASSUME TypeOK, Dated, NEW p \in Scanners, pc[p] = "commit"
    PROVE  LET s == TargetSeries(p)
           IN  /\ s \in Series /\ Honest(answer[p]) /\ answer[p].at \in Nat
               /\ syncState[s].attempt \in Int /\ syncState[s].success \in Int
               /\ syncState[s].attempt <= answer[p].at
               /\ syncState[s].success <= answer[p].at
<1> DEFINE s == TargetSeries(p)
<1>1. s \in Series /\ answer[p].at \in Nat
  BY TargetTypes DEF TypeOK, LocalsTyped, IsAnswer
<1>2. syncState[s].attempt \in Int /\ syncState[s].success \in Int
  BY <1>1, RowTypes
<1>3. syncState[s].success <= syncState[s].attempt /\ syncState[s].attempt <= answer[p].at
  BY <1>1 DEF Dated, RowsDated, AnswersDated
<1>4. syncState[s].success <= answer[p].at
  BY <1>1, <1>2, <1>3
<1> QED
  BY <1>1, <1>2, <1>3, <1>4 DEF Dated, AnswersDated

LEMMA DatedStep ==
    ASSUME TypeOK, TypeOK', HoldsItsLock, Dated, [Next]_vars
    PROVE  Dated'
<1>0. now \in Int /\ now' \in Int
  BY DEF TypeOK
<1>1. CASE UNCHANGED <<candles, syncState, pc, target, answer>> /\ now <= now'
  <2>1. RowsDated'
    BY <1>0, <1>1, RowTypes DEF Dated, RowsDated
  <2>2. \A p \in Scanners : answer[p].at \in Int
    BY DEF TypeOK, LocalsTyped, IsAnswer
  <2>3. AnswersDated'
    BY <1>0, <1>1, <2>2 DEF Dated, AnswersDated, TargetSeries, Honest, Failing
  <2> QED
    BY <2>1, <2>3 DEF Dated
<1>2. ASSUME NEW p \in Scanners, Work(p) \/ Break(p)
      PROVE  Dated'
  <2>0. now' = now
    BY <1>2, ClockUntouched
  <2>1. /\ \A q \in Scanners : TargetSeries(q) \in Series /\ answer[q].at \in Int
        /\ DOMAIN candles = Series
    BY TargetTypes DEF TypeOK, LocalsTyped, StoreTyped, IsAnswer
  <2>2. CASE UNCHANGED <<candles, syncState>>
    <3>1. RowsDated'
      BY <2>0, <2>2 DEF Dated, RowsDated
    <3>2. ASSUME NEW q \in Scanners, pc'[q] = "commit"
          PROVE  /\ syncState'[TargetSeries(q)'].attempt <= answer'[q].at
                 /\ answer'[q].at <= now'
                 /\ Honest(answer'[q])
      <4>1. CASE q # p
        BY <1>2, <2>0, <2>2, <3>2, <4>1, OthersUntouched DEF Dated, AnswersDated, TargetSeries
      <4>2. CASE q = p
        <5>1. Deliver(p) \/ DeliverPart(p) \/ Fail(p)
          BY <1>2, <3>2, <4>2, WhereAStepEnds
        <5>2. TargetSeries(p)' = TargetSeries(p)
          BY <5>1 DEF Deliver, DeliverPart, Fail, TargetSeries
        <5>3. answer'[p].at = now /\ Honest(answer'[p])
          BY <5>1, AnswersAreHonest
        <5> QED
          BY <1>0, <2>0, <2>1, <2>2, <4>2, <5>2, <5>3 DEF Dated, RowsDated
      <4> QED
        BY <4>1, <4>2
    <3> QED
      BY <3>1, <3>2 DEF Dated, AnswersDated, Honest, Failing
  <2>3. CASE pc[p] = "commit" /\ Store(p)
    <3> DEFINE s == TargetSeries(p)
    <3>1. /\ syncState[s].attempt <= answer[p].at /\ answer[p].at <= now /\ Honest(answer[p])
          /\ syncState[s].success <= syncState[s].attempt /\ s \in Series
      BY <2>1, <2>3 DEF Dated, AnswersDated, RowsDated
    <3>2. /\ \A r \in Series \ {s} : syncState'[r] = syncState[r]
          /\ syncState'[s].attempt = answer[p].at
          /\ syncState'[s].success \in {syncState[s].success, answer[p].at}
      BY <2>3, <3>1, StoreFacts
    <3>3. RowsDated'
      BY <2>0, <2>1, <3>1, <3>2, RowTypes DEF Dated, RowsDated
    <3>4. ASSUME NEW q \in Scanners, pc'[q] = "commit"
          PROVE  /\ syncState'[TargetSeries(q)'].attempt <= answer'[q].at
                 /\ answer'[q].at <= now'
                 /\ Honest(answer'[q])
      <4>1. q # p
        BY <1>2, <2>3, <3>4, WhereAStepEnds DEF Deliver, DeliverPart, Fail
      <4>2. /\ pc[q] = "commit" /\ TargetSeries(q)' = TargetSeries(q) /\ answer'[q] = answer[q]
        BY <1>2, <3>4, <4>1, OthersUntouched DEF TargetSeries
      <4>3. TargetSeries(q) # s
        BY <2>3, <4>1, <4>2 DEF HoldsItsLock
      <4> QED
        BY <2>0, <2>1, <3>2, <4>2, <4>3 DEF Dated, AnswersDated
    <3> QED
      BY <3>3, <3>4 DEF Dated, AnswersDated, Honest, Failing
  <2> QED
    BY <1>2, <2>2, <2>3, StoreOnlyAtCommit
<1>3. CASE Tick
  BY <1>0, <1>1, <1>3 DEF Tick, shared, locals
<1> QED
  BY <1>0, <1>1, <1>2, <1>3 DEF Next, vars, shared, locals

LEMMA DatedAlways == Spec => []Dated
<1>1. Init => Dated
  <2> SUFFICES ASSUME Init PROVE Dated
    OBVIOUS
  <2>1. now \in Nat
    BY ScannerAssumption DEF Init
  <2> QED
    BY <2>1 DEF Init, Dated, RowsDated, AnswersDated, NoSyncState, Never
<1>2. TypeOK /\ TypeOK' /\ HoldsItsLock /\ Dated /\ [Next]_vars => Dated'
  BY DatedStep
<1> QED
  BY <1>1, <1>2, TypeCorrect, HoldsItsLockAlways, PTL DEF Spec

-----------------------------------------------------------------------------
(* Freshness *)

LEMMA CoversStep ==
    ASSUME TypeOK, Dated, RecordedSuccessCoversCandles, [Next]_vars
    PROVE  RecordedSuccessCoversCandles'
<1>1. CASE UNCHANGED <<candles, syncState>>
  BY <1>1 DEF RecordedSuccessCoversCandles
<1>2. ASSUME NEW p \in Scanners, pc[p] = "commit", Store(p)
      PROVE  RecordedSuccessCoversCandles'
  <2> DEFINE s == TargetSeries(p)
  <2>1. /\ s \in Series /\ Honest(answer[p]) /\ answer[p].at \in Int
        /\ syncState[s].success \in Int /\ syncState[s].success <= answer[p].at
    BY <1>2, AnswerInHand
  <2>2. NewestClosed(syncState[s].success) <= NewestClosed(answer[p].at)
    BY <2>1, GridMonotone
  <2>3. CASE Failing(answer[p])
    <3>1. candles' = candles /\ \A r \in Series : syncState'[r].success = syncState[r].success
      BY <1>2, <2>1, <2>3, StoreFacts
    <3> QED
      BY <3>1 DEF RecordedSuccessCoversCandles
  <2>4. CASE ~Failing(answer[p])
    <3>1. /\ \A r \in Series \ {s} : candles'[r] = candles[r] /\ syncState'[r] = syncState[r]
          /\ DOMAIN candles'[s] = DOMAIN candles[s] \cup DOMAIN answer[p].candles
          /\ syncState'[s].success = answer[p].at
      BY <1>2, <2>1, <2>4, StoreFacts
    <3>2. /\ \A i \in DOMAIN candles[s] : i \in Int /\ i <= NewestClosed(syncState[s].success)
          /\ \A i \in DOMAIN answer[p].candles : i \in Int /\ i <= NewestClosed(answer[p].at)
          /\ NewestClosed(syncState[s].success) \in Int /\ NewestClosed(answer[p].at) \in Int
      BY <2>1, GridTypes
      DEF RecordedSuccessCoversCandles, Honest, TypeOK, StoreTyped, LocalsTyped, IsAnswer, IsCandles
    <3>3. \A i \in DOMAIN candles'[s] : i <= NewestClosed(syncState'[s].success)
      BY <2>2, <3>1, <3>2
    <3> QED
      BY <3>1, <3>3 DEF RecordedSuccessCoversCandles
  <2> QED
    BY <2>3, <2>4
<1> QED
  BY <1>1, <1>2, StoreOnlyAtCommit DEF Next, Tick, vars, shared

\* A recorded success vouches for every stored candle: each had closed when
\* that answer was given, whatever failed, restarted or was revised since.
THEOREM FreshnessCovers == Spec => []RecordedSuccessCoversCandles
<1>1. Init => RecordedSuccessCoversCandles
  BY DEF Init, RecordedSuccessCoversCandles, NoCandles
<1>2. TypeOK /\ Dated /\ RecordedSuccessCoversCandles /\ [Next]_vars => RecordedSuccessCoversCandles'
  BY CoversStep
<1> QED
  BY <1>1, <1>2, TypeCorrect, DatedAlways, PTL DEF Spec

\* No attempt is recorded over a later one, by any number of scanners.
THEOREM RowsMoveForward == Spec => AttemptsMoveForward
<1>1. TypeOK /\ Dated /\ [Next]_vars
         => [\A s \in Series : /\ syncState'[s].attempt >= syncState[s].attempt
                               /\ syncState'[s].success >= syncState[s].success]_syncState
  <2> SUFFICES ASSUME TypeOK, Dated, [Next]_vars, ~UNCHANGED syncState
               PROVE  \A s \in Series : /\ syncState'[s].attempt >= syncState[s].attempt
                                        /\ syncState'[s].success >= syncState[s].success
    OBVIOUS
  <2>1. PICK p \in Scanners : pc[p] = "commit" /\ Store(p)
    BY StoreOnlyAtCommit DEF Next, Tick, vars, shared
  <2> DEFINE s == TargetSeries(p)
  <2>2. /\ s \in Series /\ Honest(answer[p])
        /\ syncState[s].attempt <= answer[p].at /\ syncState[s].success <= answer[p].at
        /\ answer[p].at \in Int
    BY <2>1, AnswerInHand
  <2>3. /\ \A r \in Series \ {s} : syncState'[r] = syncState[r]
        /\ syncState'[s].attempt = answer[p].at
        /\ syncState'[s].success \in {syncState[s].success, answer[p].at}
    BY <2>1, <2>2, StoreFacts
  <2>4. \A r \in Series : syncState[r].attempt \in Int /\ syncState[r].success \in Int
    BY RowTypes
  <2> QED
    BY <2>2, <2>3, <2>4
<1> QED
  BY <1>1, TypeCorrect, DatedAlways, PTL DEF Spec, AttemptsMoveForward

-----------------------------------------------------------------------------
(* Refinement *)

LEMMA LedgerStep ==
    ASSUME TypeOK, TypeOK', Dated, RecordedSuccessCoversCandles', [Next]_vars
    PROVE  [Ledgers!Next]_(Ledgers!ledgers)
<1>1. CASE UNCHANGED <<candles, syncState>>
  BY <1>1 DEF Ledgers!ledgers
<1>2. ASSUME NEW p \in Scanners, pc[p] = "commit", Store(p)
      PROVE  [Ledgers!Next]_(Ledgers!ledgers)
  <2> DEFINE s == TargetSeries(p)
  <2>1. s \in Series /\ Honest(answer[p]) /\ answer[p].at \in Nat
        /\ syncState[s].success <= answer[p].at
    BY <1>2, AnswerInHand
  <2>2. CASE Failing(answer[p])
    <3>1. candles' = candles /\ \A r \in Series : syncState'[r].success = syncState[r].success
      BY <1>2, <2>1, <2>2, StoreFacts
    <3> QED
      BY <3>1 DEF Ledgers!ledgers
  <2>3. CASE ~Failing(answer[p])
    <3>1. /\ \A r \in Series \ {s} : candles'[r] = candles[r] /\ syncState'[r] = syncState[r]
          /\ DOMAIN candles'[s] = DOMAIN candles[s] \cup DOMAIN answer[p].candles
          /\ \A i \in DOMAIN candles[s] : candles'[s][i] = candles[s][i]
          /\ syncState'[s].success = answer[p].at
      BY <1>2, <2>1, <2>3, StoreFacts
    <3>2. IsCandles(candles'[s])
      BY <2>1 DEF TypeOK, StoreTyped
    <3>3. \A i \in DOMAIN candles'[s] : i <= NewestClosed(syncState'[s].success)
      BY <2>1 DEF RecordedSuccessCoversCandles
    <3>4. Ledgers!Record(s)
      BY <2>1, <3>1, <3>2, <3>3
      DEF Ledgers!Record, Ledgers!IsCandles, IsCandles, Ledgers!NewestClosed, NewestClosed,
          Ledgers!Floor, Floor
    <3> HIDE DEF s
    <3>5. Ledgers!Next
      BY <2>1, <3>4 DEF Ledgers!Next, Ledgers!Record
    <3> QED
      BY <3>5
  <2> QED
    BY <2>2, <2>3
<1> QED
  BY <1>1, <1>2, StoreOnlyAtCommit DEF Next, Tick, vars, shared

\* The scanners and their store implement append-only ledgers.
THEOREM ScannersKeepLedgers == Spec => SeriesAreLedgers
<1>1. Init => Ledgers!Init
  BY DEF Init, Ledgers!Init, Ledgers!NoCandles, NoCandles, Ledgers!Never, Never, NoSyncState
<1>2. TypeOK /\ TypeOK' /\ Dated /\ RecordedSuccessCoversCandles' /\ [Next]_vars
         => [Ledgers!Next]_(Ledgers!ledgers)
  BY LedgerStep
<1> QED
  BY <1>1, <1>2, TypeCorrect, DatedAlways, FreshnessCovers, PTL DEF Spec, SeriesAreLedgers, Ledgers!Spec

-----------------------------------------------------------------------------
(* The moment a scan started *)

Scanning(p) == pc[p] \in {"latest", "lock", "answer", "commit"}

\* A scan was started in the past, when its source was not cooling down, and
\* its expectation is the one of that moment.
ScansDated ==
    \A p \in Scanners : Scanning(p) =>
        /\ scan[p].since <= now
        /\ cooldown[p][Source(p)].until <= scan[p].since
        /\ scan[p].expected = NewestExpectedOpen(scan[p].since)
        /\ scan[p].since >= StartTime

LEMMA ScanTypes ==
    ASSUME TypeOK, NEW p \in Scanners
    PROVE  /\ scan[p].since \in Nat /\ scan[p].expected \in Nat
           /\ scan[p].cursor \in Nat /\ scan[p].end \in Nat /\ scan[p].budget \in Nat
           /\ scan[p].mode \in {"none", "first", "recent", "catchup"}
           /\ Source(p) \in Sources /\ TargetSeries(p) \in Series
           /\ cooldown[p][Source(p)].until \in Nat
           /\ answer[p].at \in Nat
BY TargetTypes DEF TypeOK, LocalsTyped, Plan, IsAnswer

\* A step that leaves its scanner scanning keeps its target, its cooldowns and,
\* unless it starts the scan, the scan's moment.
LEMMA ScanKept ==
    ASSUME TypeOK, NEW p \in Scanners, Work(p) \/ Break(p), Scanning(p)', ~BeginScan(p)
    PROVE  /\ Scanning(p)
           /\ target'[p] = target[p] /\ cooldown' = cooldown
           /\ scan'[p].since = scan[p].since /\ scan'[p].expected = scan[p].expected
<1> USE DEF TypeOK, LocalsTyped, Plan
<1>1. \/ PlanFirst(p) \/ PlanRecent(p) \/ PlanCatchUp(p) \/ CommitPage(p)
      \/ TryLock(p) \/ Deliver(p) \/ DeliverPart(p) \/ Fail(p)
  BY WhereAStepEnds DEF Scanning
<1>2. CASE PlanFirst(p)
  BY <1>2 DEF PlanFirst, Scanning
<1>3. CASE PlanRecent(p)
  BY <1>3 DEF PlanRecent, Scanning
<1>4. CASE PlanCatchUp(p)
  BY <1>4 DEF PlanCatchUp, Scanning
<1>5. CASE CommitPage(p)
  BY <1>5 DEF CommitPage, Scanning
<1>6. CASE TryLock(p)
  BY <1>6 DEF TryLock, Scanning
<1>7. CASE Deliver(p) \/ DeliverPart(p) \/ Fail(p)
  BY <1>7 DEF Deliver, DeliverPart, Fail, Scanning
<1> QED
  BY <1>1, <1>2, <1>3, <1>4, <1>5, <1>6, <1>7

LEMMA ScansDatedStep ==
    ASSUME TypeOK, ScansDated, [Next]_vars
    PROVE  ScansDated'
<1>0. now \in Nat /\ now >= StartTime /\ StartTime \in Nat
  BY ScannerAssumption DEF TypeOK
<1> SUFFICES ASSUME NEW q \in Scanners, Scanning(q)'
             PROVE  /\ scan'[q].since <= now'
                    /\ cooldown'[q][Source(q)'].until <= scan'[q].since
                    /\ scan'[q].expected = NewestExpectedOpen(scan'[q].since)
                    /\ scan'[q].since >= StartTime
  BY DEF ScansDated, NewestExpectedOpen, Floor
<1>1. CASE UNCHANGED <<locals, cooldown>> /\ now' \in Nat /\ now <= now'
  BY <1>0, <1>1, ScanTypes DEF ScansDated, Scanning, locals, Source, TargetSeries
<1>2. ASSUME NEW p \in Scanners, Work(p) \/ Break(p), q # p
      PROVE  /\ Scanning(q) /\ Source(q)' = Source(q)
             /\ scan'[q] = scan[q] /\ cooldown'[q] = cooldown[q] /\ now' = now
  BY <1>2, OthersUntouched, ClockUntouched DEF Scanning, Source, TargetSeries
<1>3. ASSUME Work(q) \/ Break(q), ~BeginScan(q)
      PROVE  /\ Scanning(q) /\ Source(q)' = Source(q)
             /\ scan'[q].since = scan[q].since /\ scan'[q].expected = scan[q].expected
             /\ cooldown'[q] = cooldown[q] /\ now' = now
  BY <1>3, ScanKept, ClockUntouched DEF Source, TargetSeries
<1>4. ASSUME BeginScan(q)
      PROVE  /\ scan'[q].since = now /\ scan'[q].expected = NewestExpectedOpen(now)
             /\ cooldown'[q][Source(q)'].until <= now /\ now' = now
  <2>1. /\ scan'[q] = [NoScan EXCEPT !.since = now, !.expected = NewestExpectedOpen(now)]
        /\ now >= cooldown[q][Source(q)].until /\ cooldown' = cooldown /\ Source(q)' = Source(q)
        /\ now' = now
    BY <1>4 DEF BeginScan, TypeOK, LocalsTyped, Source, TargetSeries
  <2>2. cooldown[q][Source(q)].until <= now
    BY <1>0, <2>1, ScanTypes
  <2> QED
    BY <2>1, <2>2 DEF NoScan
<1>5. CASE Tick
  BY <1>0, <1>1, <1>5 DEF Tick
<1>6. CASE \E p \in Scanners : (Work(p) \/ Break(p)) /\ q # p
  BY <1>2, <1>6 DEF ScansDated
<1>7. CASE Work(q) \/ Break(q)
  BY <1>0, <1>3, <1>4, <1>7 DEF ScansDated
<1> QED
  BY <1>0, <1>1, <1>5, <1>6, <1>7 DEF Next, vars

LEMMA ScansDatedAlways == Spec => []ScansDated
<1>1. Init => ScansDated
  BY DEF Init, ScansDated, Scanning
<1>2. TypeOK /\ ScansDated /\ [Next]_vars => ScansDated'
  BY ScansDatedStep
<1> QED
  BY <1>1, <1>2, TypeCorrect, PTL DEF Spec

\* A source that said "too many requests" is left alone by the scanner it told,
\* for as long as the cooldown it opened says: for all its series, every page.
THEOREM CooldownsAreKept == Spec => []QuietWhileCoolingDown
<1>1. TypeOK /\ ScansDated => QuietWhileCoolingDown
  <2> SUFFICES ASSUME TypeOK, ScansDated, NEW p \in Scanners, pc[p] \in {"lock", "answer"}
               PROVE  now >= cooldown[p][Source(p)].until
    BY DEF QuietWhileCoolingDown
  <2>1. scan[p].since <= now /\ cooldown[p][Source(p)].until <= scan[p].since
    BY DEF ScansDated, Scanning
  <2> QED
    BY <2>1, ScanTypes DEF TypeOK
<1> QED
  BY <1>1, TypeCorrect, ScansDatedAlways, PTL

-----------------------------------------------------------------------------
(* What an answer covers *)

\* Every candle the request asked for is served, left out, or out of reach.
Complete(p) ==
    \E newest \in NewestExpectedOpen(answer[p].at) .. NewestClosed(answer[p].at) :
        /\ DOMAIN answer[p].candles \subseteq Requested(p, newest)
        /\ \A i \in Requested(p, newest) :
              \/ i \in DOMAIN answer[p].candles
              \/ i \in answer[p].omitted
              \/ OutOfReach(Source(p), i, answer[p].at)

AnswersComplete ==
    \A p \in Scanners : pc[p] = "commit" /\ ~Failing(answer[p]) =>
        scan[p].since <= answer[p].at /\ Complete(p)

LEMMA ReachOnlyShrinks ==
    ASSUME NEW source \in Sources, NEW i \in Int, NEW t \in Int, NEW u \in Int, t <= u,
           OutOfReach(source, i, t)
    PROVE  OutOfReach(source, i, u)
<1>1. NewestClosed(t) \in Int /\ NewestClosed(u) \in Int /\ NewestClosed(t) <= NewestClosed(u)
  BY GridMonotone, GridTypes
<1>2. HistoryCandles[source] \in Nat
  BY LimitTypes
<1> QED
  BY <1>1, <1>2 DEF OutOfReach

LEMMA DeliveredIsComplete ==
    ASSUME TypeOK, ScansDated, NEW p \in Scanners, Deliver(p) \/ DeliverPart(p)
    PROVE  scan'[p].since <= answer'[p].at /\ Complete(p)'
<1>1. PICK newest \in NewestExpectedOpen(now) .. NewestClosed(now), v \in Values :
         \E served \in SUBSET Available(p, newest) :
            answer' = [answer EXCEPT ![p] = Batch(p, served, newest, v)]
  BY DEF Deliver, DeliverPart
<1>2. PICK served \in SUBSET Available(p, newest) : answer'[p] = Batch(p, served, newest, v)
  BY <1>1 DEF TypeOK, LocalsTyped
<1>3. scan' = scan /\ target' = target /\ pc[p] = "answer"
  BY DEF Deliver, DeliverPart
<1>4. /\ answer'[p].at = now /\ DOMAIN answer'[p].candles = served
      /\ answer'[p].omitted = Available(p, newest) \ served
  BY <1>2 DEF Batch
<1>5. Requested(p, newest)' = Requested(p, newest)
  BY <1>3 DEF Requested, PageEnd, Source, TargetSeries
<1>6. \A i \in Requested(p, newest) :
         \/ i \in served \/ i \in Available(p, newest) \ served \/ OutOfReach(Source(p), i, now)
  BY DEF Available
<1>7. served \subseteq Requested(p, newest)
  BY DEF Available
<1>8. Source(p)' = Source(p)
  BY <1>3 DEF Source, TargetSeries
<1>9. Complete(p)'
  <2>1. /\ DOMAIN answer'[p].candles \subseteq Requested(p, newest)'
        /\ \A i \in Requested(p, newest)' :
              \/ i \in DOMAIN answer'[p].candles
              \/ i \in answer'[p].omitted
              \/ OutOfReach(Source(p)', i, answer'[p].at)
    BY <1>4, <1>5, <1>6, <1>7, <1>8
  <2>2. newest \in NewestExpectedOpen(answer'[p].at) .. NewestClosed(answer'[p].at)
    BY <1>4
  <2> QED
    BY <2>1, <2>2 DEF Complete, OutOfReach, NewestClosed, NewestExpectedOpen, Floor, Requested
<1> QED
  BY <1>3, <1>4, <1>9 DEF ScansDated, Scanning

LEMMA AnswersCompleteStep ==
    ASSUME TypeOK, ScansDated, AnswersComplete, [Next]_vars
    PROVE  AnswersComplete'
<1> SUFFICES ASSUME NEW q \in Scanners, pc'[q] = "commit", ~Failing(answer'[q])
             PROVE  scan'[q].since <= answer'[q].at /\ Complete(q)'
  BY DEF AnswersComplete, Failing
<1>1. ASSUME pc'[q] = pc[q], target'[q] = target[q], scan'[q] = scan[q], answer'[q] = answer[q]
      PROVE  scan'[q].since <= answer'[q].at /\ Complete(q)'
  <2>1. scan[q].since <= answer[q].at /\ Complete(q)
    BY <1>1 DEF AnswersComplete
  <2> QED
    BY <1>1, <2>1 DEF Complete, Requested, PageEnd, Source, TargetSeries, OutOfReach, NewestClosed,
       NewestExpectedOpen, Floor
<1>2. CASE UNCHANGED locals
  BY <1>1, <1>2 DEF locals
<1>3. CASE \E p \in Scanners : (Work(p) \/ Break(p)) /\ q # p
  BY <1>1, <1>3, OthersUntouched
<1>4. CASE Work(q) \/ Break(q)
  <2>1. Deliver(q) \/ DeliverPart(q) \/ Fail(q)
    BY <1>4, WhereAStepEnds
  <2>2. ~Fail(q)
    BY ScannerAssumption DEF Fail, TypeOK, LocalsTyped, Failing
  <2> QED
    BY <2>1, <2>2, DeliveredIsComplete
<1> QED
  BY <1>2, <1>3, <1>4 DEF Next, Tick, vars

LEMMA AnswersCompleteAlways == Spec => []AnswersComplete
<1>1. Init => AnswersComplete
  BY DEF Init, AnswersComplete
<1>2. TypeOK /\ ScansDated /\ AnswersComplete /\ [Next]_vars => AnswersComplete'
  BY AnswersCompleteStep
<1> QED
  BY <1>1, <1>2, TypeCorrect, ScansDatedAlways, PTL DEF Spec

-----------------------------------------------------------------------------
(* What a plan rests on *)

Planned(p) == pc[p] \in {"lock", "answer", "commit"}

\* One request was enough when it was planned: it would have reached back to a
\* candle that is still stored.
RecentGrounded(p) ==
    \E j \in DOMAIN candles[TargetSeries(p)] : scan[p].expected - j < Recent(Source(p))

\* Behind the cursor of a catch-up nothing can be filled in any more that is
\* not already between stored candles.
CatchUpGrounded(p) ==
    /\ scan[p].end = scan[p].expected + 1
    /\ \E j \in DOMAIN candles[TargetSeries(p)] : j < scan[p].cursor /\ j < scan[p].end
    /\ \A i \in Nat : i < scan[p].cursor /\ i \notin DOMAIN candles[TargetSeries(p)] =>
          \/ OutOfReach(Source(p), i, now)
          \/ i \in omitted[TargetSeries(p)]
          \/ \E j \in DOMAIN candles[TargetSeries(p)] : i < j

Grounded(p) ==
    \/ scan[p].mode = "first"
    \/ scan[p].mode = "recent" /\ RecentGrounded(p)
    \/ scan[p].mode = "catchup" /\ CatchUpGrounded(p)

PlansGrounded == \A p \in Scanners : Planned(p) => Grounded(p)

\* Nothing that was stored, or known to be left out, is forgotten.
LEMMA StoreGrows ==
    ASSUME TypeOK, Dated, [Next]_vars, NEW s \in Series
    PROVE  /\ DOMAIN candles[s] \subseteq DOMAIN candles'[s]
           /\ omitted[s] \subseteq omitted'[s]
           /\ now <= now' /\ now' \in Int
<1>1. now <= now' /\ now' \in Int
  <2>1. now \in Int
    BY DEF TypeOK
  <2> QED
    BY <2>1, ClockUntouched DEF Next, Tick, vars
<1>2. ASSUME NEW p \in Scanners, pc[p] = "commit", Store(p)
      PROVE  DOMAIN candles[s] \subseteq DOMAIN candles'[s] /\ omitted[s] \subseteq omitted'[s]
  <2>1. Honest(answer[p])
    BY <1>2, AnswerInHand
  <2>2. DOMAIN candles[s] \subseteq DOMAIN candles'[s]
    BY <1>2, <2>1, StoreFacts
  <2>3. omitted[s] \subseteq omitted'[s]
    BY <1>2 DEF Store, TypeOK, StoreTyped
  <2> QED
    BY <2>2, <2>3
<1>3. CASE UNCHANGED <<candles, omitted>>
  BY <1>1, <1>3
<1> QED
  BY <1>1, <1>2, <1>3, StoreOnlyAtCommit DEF Next, Tick, vars, shared

\* A plan stays grounded while its scanner waits, whatever others store.
LEMMA GroundsKept ==
    ASSUME TypeOK, TypeOK', Dated, [Next]_vars, NEW p \in Scanners, Grounded(p),
           scan'[p] = scan[p], target'[p] = target[p]
    PROVE  Grounded(p)'
<1> DEFINE s == TargetSeries(p)
<1>1. s \in Series /\ Source(p) \in Sources /\ s' = s /\ Source(p)' = Source(p) /\ now \in Int
  BY TargetTypes DEF TypeOK, TargetSeries, Source
<1>2. /\ DOMAIN candles[s] \subseteq DOMAIN candles'[s]
      /\ omitted[s] \subseteq omitted'[s]
      /\ now <= now' /\ now' \in Int
  BY <1>1, StoreGrows
<1>3. CASE scan[p].mode = "first"
  BY <1>3 DEF Grounded
<1>4. CASE scan[p].mode = "recent"
  <2>1. PICK j \in DOMAIN candles[s] : scan[p].expected - j < Recent(Source(p))
    BY <1>4 DEF Grounded, RecentGrounded
  <2>2. RecentGrounded(p)'
    BY <1>1, <1>2, <2>1 DEF RecentGrounded, Recent
  <2> QED
    BY <1>4, <2>2 DEF Grounded
<1>5. CASE scan[p].mode = "catchup"
  <2>1. CatchUpGrounded(p)
    BY <1>5 DEF Grounded
  <2>2. scan'[p].end = scan'[p].expected + 1
    BY <2>1 DEF CatchUpGrounded
  <2>3. \E j \in DOMAIN candles'[s'] : j < scan'[p].cursor /\ j < scan'[p].end
    BY <1>1, <1>2, <2>1 DEF CatchUpGrounded
  <2>4. ASSUME NEW i \in Nat, i < scan'[p].cursor, i \notin DOMAIN candles'[s']
        PROVE  \/ OutOfReach(Source(p)', i, now')
               \/ i \in omitted'[s']
               \/ \E j \in DOMAIN candles'[s'] : i < j
    <3>1. \/ OutOfReach(Source(p), i, now)
          \/ i \in omitted[s]
          \/ \E j \in DOMAIN candles[s] : i < j
      BY <1>1, <1>2, <2>1, <2>4 DEF CatchUpGrounded
    <3> QED
      BY <1>1, <1>2, <3>1, ReachOnlyShrinks
  <2>5. CatchUpGrounded(p)'
    BY <2>2, <2>3, <2>4 DEF CatchUpGrounded, OutOfReach, NewestClosed, Floor
  <2> QED
    BY <1>5, <2>5 DEF Grounded
<1> QED
  BY <1>3, <1>4, <1>5 DEF Grounded

\* A catch-up starts right after what is stored, or where the source's horizon
\* starts.
LEMMA CatchUpStartsGrounded ==
    ASSUME TypeOK, ScansDated, NEW p \in Scanners, PlanCatchUp(p)
    PROVE  Grounded(p)'
<1> DEFINE s == TargetSeries(p)
           reach == HistoryCandles[Source(p)]
<1>1. PICK latest \in DOMAIN candles[s] :
         /\ IsLatest(latest, candles[s])
         /\ scan' = [scan EXCEPT ![p].mode = "catchup",
                                 ![p].cursor = FirstMissed(p, latest),
                                 ![p].end = scan[p].expected + 1,
                                 ![p].budget = MaxCatchup]
  BY DEF PlanCatchUp
<1>2. /\ scan'[p].mode = "catchup" /\ scan'[p].cursor = FirstMissed(p, latest)
      /\ scan'[p].end = scan[p].expected + 1 /\ scan'[p].expected = scan[p].expected
  BY <1>1 DEF TypeOK, LocalsTyped, Plan
<1>3. /\ latest \in Nat /\ reach \in Nat /\ scan[p].expected \in Nat
      /\ s \in Series /\ Source(p) \in Sources /\ now \in Int /\ scan[p].since \in Int
      /\ DOMAIN candles[s] \subseteq Nat
  BY <1>1, ScanTypes, LimitTypes DEF TypeOK, StoreTyped, IsCandles
<1>4. candles' = candles /\ omitted' = omitted /\ now' = now /\ s' = s /\ Source(p)' = Source(p)
  BY DEF PlanCatchUp, shared, TargetSeries, Source
<1>5. scan[p].expected <= NewestClosed(now) /\ NewestClosed(now) \in Int
  <2>1. scan[p].expected = NewestExpectedOpen(scan[p].since) /\ scan[p].since <= now
    BY DEF ScansDated, Scanning, PlanCatchUp
  <2>2. NewestExpectedOpen(scan[p].since) <= NewestExpectedOpen(now)
    BY <1>3, <2>1, GridMonotone
  <2>3. NewestExpectedOpen(now) <= NewestClosed(now)
    BY <1>3, ExpectedIsClosed
  <2> QED
    BY <1>3, <2>1, <2>2, <2>3, GridTypes
<1>6. /\ FirstMissed(p, latest) \in Int /\ latest < FirstMissed(p, latest)
      /\ FirstMissed(p, latest) > latest + 1 =>
            reach > 0 /\ FirstMissed(p, latest) = scan[p].expected - (reach - 1)
  BY <1>3 DEF FirstMissed, Larger
<1>7. ASSUME NEW i \in Nat, i < FirstMissed(p, latest), i \notin DOMAIN candles[s]
      PROVE  OutOfReach(Source(p), i, now) \/ \E j \in DOMAIN candles[s] : i < j
  <2>1. CASE i < latest
    BY <1>1, <2>1
  <2>2. CASE i > latest
    <3>1. reach > 0 /\ i <= scan[p].expected - reach
      BY <1>3, <1>6, <1>7, <2>2
    <3> QED
      BY <1>3, <1>5, <3>1 DEF OutOfReach
  <2> QED
    BY <1>1, <1>3, <1>7, <2>1, <2>2
<1>8. latest < scan[p].expected + 1
  <2>1. scan[p].expected - latest >= Recent(Source(p))
    BY <1>1, <1>3 DEF PlanCatchUp, IsLatest
  <2>2. Recent(Source(p)) \in Nat \ {0}
    BY <1>3, LimitTypes
  <2> QED
    BY <1>3, <2>1, <2>2
<1> HIDE DEF s, reach
<1>9. CatchUpGrounded(p)'
  <2>1. \E j \in DOMAIN candles'[s'] : j < scan'[p].cursor /\ j < scan'[p].end
    BY <1>1, <1>2, <1>4, <1>6, <1>8
  <2>2. \A i \in Nat : i < scan'[p].cursor /\ i \notin DOMAIN candles'[s'] =>
           \/ OutOfReach(Source(p)', i, now')
           \/ i \in omitted'[s']
           \/ \E j \in DOMAIN candles'[s'] : i < j
    BY <1>2, <1>4, <1>7
  <2> QED
    BY <1>2, <2>1, <2>2 DEF CatchUpGrounded, OutOfReach, NewestClosed, Floor, s
<1> QED
  BY <1>2, <1>9 DEF Grounded

\* The next page starts where this one ended.
LEMMA NextPageGrounded ==
    ASSUME TypeOK, TypeOK', Dated, ScansDated, AnswersComplete, NEW p \in Scanners,
           CommitPage(p), Grounded(p)
    PROVE  Grounded(p)'
<1> DEFINE s == TargetSeries(p)
<1>1. /\ pc[p] = "commit" /\ ~Failing(answer[p]) /\ scan[p].mode = "catchup" /\ Store(p)
      /\ PageEnd(p) < scan[p].end /\ now' = now /\ s' = s /\ Source(p)' = Source(p)
  BY DEF CommitPage, Failed, Failing, TargetSeries, Source
<1>2. /\ scan'[p].mode = "catchup" /\ scan'[p].cursor = PageEnd(p)
      /\ scan'[p].end = scan[p].end /\ scan'[p].expected = scan[p].expected
  BY <1>1 DEF CommitPage, TypeOK, LocalsTyped, Plan
<1>3. /\ s \in Series /\ Source(p) \in Sources /\ now \in Int /\ answer[p].at \in Int
      /\ scan[p].cursor \in Nat /\ scan[p].end \in Nat /\ scan[p].expected \in Nat
      /\ scan[p].since \in Int /\ MaxPerRequest[Source(p)] \in Nat \ {0}
      /\ DOMAIN candles[s] \subseteq Nat
  BY ScanTypes, LimitTypes DEF TypeOK, StoreTyped, IsCandles
<1>4. PageEnd(p) \in Nat /\ PageEnd(p) <= scan[p].end /\ PageEnd(p) <= scan[p].cursor + MaxPerRequest[Source(p)]
      /\ PageEnd(p) \in {scan[p].end, scan[p].cursor + MaxPerRequest[Source(p)]}
  BY <1>3 DEF PageEnd, Smaller
<1>5. CatchUpGrounded(p)
  BY <1>1 DEF Grounded
<1>6. /\ Honest(answer[p]) /\ answer[p].at <= now /\ scan[p].since <= answer[p].at /\ Complete(p)
  BY <1>1 DEF Dated, AnswersDated, AnswersComplete
<1>7. /\ DOMAIN candles'[s] = DOMAIN candles[s] \cup DOMAIN answer[p].candles
      /\ omitted'[s] = omitted[s] \cup answer[p].omitted
  <2>1. omitted'[s] = omitted[s] \cup answer[p].omitted
    BY <1>1, <1>3 DEF Store, TypeOK, StoreTyped
  <2> QED
    BY <1>1, <1>6, <2>1, StoreFacts
<1>8. PICK newest \in NewestExpectedOpen(answer[p].at) .. NewestClosed(answer[p].at) :
         \A i \in Requested(p, newest) :
            \/ i \in DOMAIN answer[p].candles
            \/ i \in answer[p].omitted
            \/ OutOfReach(Source(p), i, answer[p].at)
  BY <1>6 DEF Complete
<1>9. scan[p].expected <= newest /\ newest \in Int
  <2>1. /\ NewestExpectedOpen(scan[p].since) <= NewestExpectedOpen(answer[p].at)
        /\ NewestExpectedOpen(answer[p].at) \in Int /\ NewestClosed(answer[p].at) \in Int
    BY <1>3, <1>6, GridMonotone, GridTypes
  <2>2. scan[p].expected = NewestExpectedOpen(scan[p].since)
    BY <1>1 DEF ScansDated, Scanning
  <2> QED
    BY <1>3, <1>8, <2>1, <2>2
<1>10. ASSUME NEW i \in Nat, i < PageEnd(p), i \notin DOMAIN candles'[s]
       PROVE  \/ OutOfReach(Source(p), i, now)
              \/ i \in omitted'[s]
              \/ \E j \in DOMAIN candles'[s] : i < j
  <2>1. CASE i < scan[p].cursor
    BY <1>5, <1>7, <1>10, <2>1 DEF CatchUpGrounded
  <2>2. CASE i >= scan[p].cursor
    <3>1. scan[p].end = scan[p].expected + 1
      BY <1>5 DEF CatchUpGrounded
    <3>2. i <= PageEnd(p) - 1 /\ i <= newest
      BY <1>3, <1>4, <1>9, <1>10, <3>1
    <3>3. i \in Requested(p, newest)
      BY <1>1, <1>3, <1>4, <1>9, <2>2, <3>2 DEF Requested, Smaller
    <3> QED
      BY <1>3, <1>6, <1>7, <1>8, <1>10, <3>3, ReachOnlyShrinks
  <2> QED
    BY <1>3, <2>1, <2>2
<1>11. \E j \in DOMAIN candles'[s] : j < PageEnd(p) /\ j < scan[p].end
  <2>1. PICK j \in DOMAIN candles[s] : j < scan[p].cursor /\ j < scan[p].end
    BY <1>5 DEF CatchUpGrounded
  <2>2. j < PageEnd(p)
    BY <1>3, <1>4, <2>1
  <2> QED
    BY <1>7, <2>1, <2>2
<1> HIDE DEF s
<1>12. CatchUpGrounded(p)'
  <2>1. scan'[p].end = scan'[p].expected + 1
    BY <1>2, <1>5 DEF CatchUpGrounded
  <2>2. \E j \in DOMAIN candles'[s'] : j < scan'[p].cursor /\ j < scan'[p].end
    BY <1>1, <1>2, <1>11
  <2>3. \A i \in Nat : i < scan'[p].cursor /\ i \notin DOMAIN candles'[s'] =>
           \/ OutOfReach(Source(p)', i, now')
           \/ i \in omitted'[s']
           \/ \E j \in DOMAIN candles'[s'] : i < j
    BY <1>1, <1>2, <1>10
  <2> QED
    BY <2>1, <2>2, <2>3 DEF CatchUpGrounded, OutOfReach, NewestClosed, Floor, s
<1> QED
  BY <1>2, <1>12 DEF Grounded

LEMMA PlansGroundedStep ==
    ASSUME TypeOK, TypeOK', Dated, ScansDated, AnswersComplete, PlansGrounded, [Next]_vars
    PROVE  PlansGrounded'
<1> SUFFICES ASSUME NEW q \in Scanners, Planned(q)'
             PROVE  Grounded(q)'
  BY DEF PlansGrounded
<1>1. CASE UNCHANGED locals
  BY <1>1, GroundsKept DEF locals, PlansGrounded, Planned
<1>2. CASE \E p \in Scanners : (Work(p) \/ Break(p)) /\ q # p
  BY <1>2, OthersUntouched, GroundsKept DEF PlansGrounded, Planned
<1>3. CASE Work(q) \/ Break(q)
  <2>1. \/ PlanFirst(q) \/ PlanRecent(q) \/ PlanCatchUp(q) \/ CommitPage(q)
        \/ TryLock(q) \/ Deliver(q) \/ DeliverPart(q) \/ Fail(q)
    BY <1>3, WhereAStepEnds DEF Planned
  <2>2. CASE PlanFirst(q)
    BY <2>2 DEF PlanFirst, Grounded, TypeOK, LocalsTyped, Plan
  <2>3. CASE PlanRecent(q)
    <3>1. scan'[q].mode = "recent" /\ scan'[q].expected = scan[q].expected
      BY <2>3 DEF PlanRecent, TypeOK, LocalsTyped, Plan
    <3>2. UNCHANGED <<candles, target>>
      BY <2>3 DEF PlanRecent, shared
    <3>3. RecentGrounded(q)
      BY <2>3 DEF PlanRecent, RecentGrounded
    <3>4. RecentGrounded(q)'
      BY <3>1, <3>2, <3>3 DEF RecentGrounded, TargetSeries, Source, Recent
    <3> QED
      BY <3>1, <3>4 DEF Grounded
  <2>4. CASE PlanCatchUp(q)
    BY <2>4, CatchUpStartsGrounded
  <2>5. CASE CommitPage(q)
    BY <2>5, NextPageGrounded DEF PlansGrounded, Planned, CommitPage
  <2>6. CASE TryLock(q)
    BY <2>6, GroundsKept DEF TryLock, PlansGrounded, Planned
  <2>7. CASE Deliver(q) \/ DeliverPart(q) \/ Fail(q)
    BY <2>7, GroundsKept DEF Deliver, DeliverPart, Fail, PlansGrounded, Planned
  <2> QED
    BY <2>1, <2>2, <2>3, <2>4, <2>5, <2>6, <2>7
<1> QED
  BY <1>1, <1>2, <1>3 DEF Next, Tick, vars

LEMMA PlansGroundedAlways == Spec => []PlansGrounded
<1>1. Init => PlansGrounded
  BY DEF Init, PlansGrounded, Planned
<1>2. TypeOK /\ TypeOK' /\ Dated /\ ScansDated /\ AnswersComplete /\ PlansGrounded /\ [Next]_vars
         => PlansGrounded'
  BY PlansGroundedStep
<1> QED
  BY <1>1, <1>2, TypeCorrect, DatedAlways, ScansDatedAlways, AnswersCompleteAlways, PTL DEF Spec

-----------------------------------------------------------------------------
(* Holes *)

\* The cases of the theorem below: what the commit of an answer does to a candle
\* i that it leaves between stored ones.
LEMMA NewHoleHasCause ==
    ASSUME TypeOK, HoldsItsLock, Dated, ScansDated, AnswersComplete, PlansGrounded,
           RecordedSuccessCoversCandles,
           NEW p \in Scanners, pc[p] = "commit", Store(p), now' = now,
           NEW s \in Series, s = TargetSeries(p), NEW i \in Holes(s)', i \notin Holes(s)
    PROVE  \/ OutOfReach(SourceOf[s], i, now)
           \/ i \in omitted'[s]
           \/ scan[p].mode = "first"
           \/ scan[p].mode = "recent" /\ Late(p)
<1> DEFINE C == ClosedInRecent(Source(p))
           R == Recent(Source(p))
<1>1. /\ Source(p) = SourceOf[s] /\ Source(p) \in Sources /\ now \in Int /\ answer[p].at \in Int
      /\ scan[p].cursor \in Nat /\ scan[p].end \in Nat /\ scan[p].expected \in Nat
      /\ scan[p].since \in Int /\ C \in Nat /\ R \in Nat
      /\ DOMAIN candles[s] \subseteq Nat /\ DOMAIN answer[p].candles \subseteq Nat
  BY ScanTypes, LimitTypes DEF TypeOK, StoreTyped, LocalsTyped, IsAnswer, IsCandles, Source
<1>2. Honest(answer[p]) /\ answer[p].at <= now
  BY DEF Dated, AnswersDated
<1>3. ~Failing(answer[p])
  <2> SUFFICES ASSUME Failing(answer[p]) PROVE FALSE
    OBVIOUS
  <2>1. candles' = candles
    BY <1>2, StoreFacts
  <2> QED
    BY <2>1 DEF Holes, NewestClosed, Floor
<1>4. /\ DOMAIN candles'[s] = DOMAIN candles[s] \cup DOMAIN answer[p].candles
      /\ omitted'[s] = omitted[s] \cup answer[p].omitted
  <2>1. omitted'[s] = omitted[s] \cup answer[p].omitted
    BY DEF Store, TypeOK, StoreTyped
  <2> QED
    BY <1>2, <2>1, StoreFacts
<1>5. PICK older \in DOMAIN candles'[s], newer \in DOMAIN candles'[s] :
         /\ older < i /\ i < newer /\ i \notin DOMAIN candles'[s]
         /\ i \in Nat /\ i <= NewestClosed(now)
  <2>1. NewestClosed(now) \in Int
    BY <1>1, GridTypes
  <2> QED
    BY <2>1 DEF Holes, NewestClosed, Floor
<1>6. \A j, k \in DOMAIN candles[s] : ~(j < i /\ i < k)
  <2>1. NewestClosed(now) \in Int
    BY <1>1, GridTypes
  <2> QED
    BY <1>4, <1>5, <2>1 DEF Holes
<1>7. PICK newest \in NewestExpectedOpen(answer[p].at) .. NewestClosed(answer[p].at) :
         /\ DOMAIN answer[p].candles \subseteq Requested(p, newest)
         /\ \A k \in Requested(p, newest) :
               \/ k \in DOMAIN answer[p].candles
               \/ k \in answer[p].omitted
               \/ OutOfReach(Source(p), k, answer[p].at)
  BY <1>3 DEF AnswersComplete, Complete
<1>8. /\ newest \in Int /\ newest <= NewestClosed(answer[p].at)
      /\ NewestClosed(answer[p].at) \in Int /\ NewestClosed(answer[p].at) <= newest + 1
  <2>1. NewestClosed(answer[p].at) \in Int /\ NewestExpectedOpen(answer[p].at) \in Int
    BY <1>1, GridTypes
  <2>2. NewestClosed(answer[p].at) <= NewestExpectedOpen(answer[p].at) + 1
    BY <1>1, GraceIsShort
  <2> QED
    BY <1>7, <2>1, <2>2
\* A candle the request asked for has been served unless there is a cause.
<1>9. i \in Requested(p, newest) => OutOfReach(SourceOf[s], i, now) \/ i \in omitted'[s]
  BY <1>1, <1>2, <1>4, <1>5, <1>7, ReachOnlyShrinks
<1>10. Grounded(p)
  BY DEF PlansGrounded, Planned
<1>11. CASE scan[p].mode = "recent"
  <2>1. \A k \in Requested(p, newest) : k \in Int /\ newest + 1 - C <= k /\ k <= newest
    BY <1>1, <1>8, <1>11 DEF Requested, Larger
  <2>2. \A k \in Nat : newest + 1 - C <= k /\ k <= newest => k \in Requested(p, newest)
    BY <1>1, <1>8, <1>11 DEF Requested, Larger
  <2>3. PICK latest \in DOMAIN candles[s] : scan[p].expected - latest < R
    BY <1>10, <1>11 DEF Grounded, RecentGrounded
  <2>4. latest \in Nat /\ latest # i /\ latest <= NewestClosed(answer[p].at)
    <3>1. latest <= NewestClosed(syncState[s].success)
      BY <2>3 DEF RecordedSuccessCoversCandles
    <3>2. /\ NewestClosed(syncState[s].success) <= NewestClosed(answer[p].at)
          /\ NewestClosed(syncState[s].success) \in Int
      BY <1>1, AnswerInHand, GridMonotone, GridTypes
    <3> QED
      BY <1>1, <1>4, <1>5, <1>8, <2>3, <3>1, <3>2
  <2>5. CASE i < latest
    <3>1. older \in Requested(p, newest)
      BY <1>4, <1>5, <1>6, <1>7, <2>3, <2>5
    <3>2. newest + 1 - C <= i /\ i <= newest
      BY <1>1, <1>5, <1>8, <2>1, <2>4, <2>5, <3>1
    <3> QED
      BY <1>5, <1>9, <2>2, <3>2
  <2>6. CASE latest < i
    <3>1. newer \in Requested(p, newest)
      BY <1>4, <1>5, <1>6, <1>7, <2>3, <2>6
    <3>2. i <= newest
      BY <1>1, <1>5, <1>8, <2>1, <3>1
    <3>3. CASE newest + 1 - C <= i
      BY <1>5, <1>9, <2>2, <3>2, <3>3
    <3>4. CASE i < newest + 1 - C
      <4>1. NewestClosed(answer[p].at) + (R - C) > scan[p].expected + 1
        BY <1>1, <1>5, <1>8, <2>3, <2>4, <2>6, <3>4
      <4> QED
        BY <1>11, <4>1 DEF Late
    <3> QED
      BY <1>1, <1>5, <1>8, <3>3, <3>4
  <2> QED
    BY <1>5, <2>4, <2>5, <2>6
<1>12. CASE scan[p].mode = "catchup"
  <2>1. CatchUpGrounded(p)
    BY <1>10, <1>12 DEF Grounded
  <2>2. PageEnd(p) \in Int
    BY <1>1, LimitTypes DEF PageEnd, Smaller
  <2>3. \A k \in Requested(p, newest) : k \in Int /\ scan[p].cursor <= k /\ k <= newest /\ k <= PageEnd(p) - 1
    BY <1>1, <1>8, <1>12, <2>2 DEF Requested, Smaller
  <2>4. \A k \in Nat : scan[p].cursor <= k /\ k <= newest /\ k <= PageEnd(p) - 1 => k \in Requested(p, newest)
    BY <1>1, <1>8, <1>12, <2>2 DEF Requested, Smaller
  <2>5. CASE i < scan[p].cursor
    <3>1. \/ OutOfReach(Source(p), i, now)
          \/ i \in omitted[s]
          \/ \E j \in DOMAIN candles[s] : i < j
      BY <1>4, <1>5, <2>1, <2>5 DEF CatchUpGrounded
    <3>2. ~ \E j \in DOMAIN candles[s] : i < j
      <4> SUFFICES ASSUME NEW j \in DOMAIN candles[s], i < j PROVE FALSE
        OBVIOUS
      <4>1. older \in Requested(p, newest)
        BY <1>4, <1>5, <1>6, <1>7
      <4> QED
        BY <1>1, <1>5, <2>3, <2>5, <4>1
    <3> QED
      BY <1>1, <1>4, <3>1, <3>2
  <2>6. CASE i >= scan[p].cursor
    <3>1. PICK j \in DOMAIN candles[s] : j < scan[p].cursor
      BY <2>1 DEF CatchUpGrounded
    <3>2. j < i
      BY <1>1, <1>5, <2>6, <3>1
    <3>3. newer \in Requested(p, newest)
      BY <1>4, <1>5, <1>6, <1>7, <3>2
    <3>4. i <= newest /\ i <= PageEnd(p) - 1
      BY <1>1, <1>5, <1>8, <2>2, <2>3, <3>3
    <3> QED
      BY <1>5, <1>9, <2>4, <2>6, <3>4
  <2> QED
    BY <1>1, <1>5, <2>5, <2>6
<1> QED
  BY <1>10, <1>11, <1>12 DEF Grounded

\* Whatever scanners run, whatever fails and however late answers come, no
\* candle is passed over without one of the causes the property names.
THEOREM HolesHaveCauses == Spec => SkippedOnlyWithCause
<1>1. TypeOK /\ HoldsItsLock /\ Dated /\ ScansDated /\ AnswersComplete /\ PlansGrounded
         /\ RecordedSuccessCoversCandles /\ [Next]_vars
         => [\A s \in Series : \A i \in Holes(s)' \ Holes(s) :
                \/ OutOfReach(SourceOf[s], i, now)
                \/ i \in omitted'[s]
                \/ \E p \in Scanners :
                      /\ lock[s] = p
                      /\ \/ scan[p].mode = "first"
                         \/ scan[p].mode = "recent" /\ Late(p)]_candles
  <2> SUFFICES ASSUME TypeOK, HoldsItsLock, Dated, ScansDated, AnswersComplete, PlansGrounded,
                      RecordedSuccessCoversCandles, [Next]_vars, ~UNCHANGED candles,
                      NEW s \in Series, NEW i \in Holes(s)', i \notin Holes(s)
               PROVE  \/ OutOfReach(SourceOf[s], i, now)
                      \/ i \in omitted'[s]
                      \/ \E p \in Scanners :
                            /\ lock[s] = p
                            /\ \/ scan[p].mode = "first"
                               \/ scan[p].mode = "recent" /\ Late(p)
    OBVIOUS
  <2>1. PICK p \in Scanners : pc[p] = "commit" /\ Store(p) /\ now' = now
    BY StoreOnlyAtCommit, ClockUntouched DEF Next, Tick, vars, shared
  <2>2. s = TargetSeries(p)
    <3> SUFFICES ASSUME s # TargetSeries(p) PROVE FALSE
      OBVIOUS
    <3>1. candles'[s] = candles[s]
      BY <2>1, AnswerInHand, StoreFacts
    <3> QED
      BY <2>1, <3>1 DEF Holes, NewestClosed, Floor
  <2>3. lock[s] = p
    BY <2>1, <2>2 DEF HoldsItsLock
  <2> QED
    BY <2>1, <2>2, <2>3, NewHoleHasCause
<1> QED
  BY <1>1, TypeCorrect, HoldsItsLockAlways, DatedAlways, ScansDatedAlways, AnswersCompleteAlways,
     PlansGroundedAlways, FreshnessCovers, PTL DEF Spec, SkippedOnlyWithCause

=============================================================================
