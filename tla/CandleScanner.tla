--------------------------- MODULE CandleScanner ----------------------------
(***************************************************************************)
(* application/candle_scanner.py with the parts of                         *)
(* application/market_data_service.py and of the store it calls: several   *)
(* scanner processes (backend instances) bring the series of one database  *)
(* up to date from public REST providers.                                  *)
(*                                                                         *)
(* One scanner is one thread that runs scan_once over and over.  A step of *)
(* it is one interaction with something shared: the clock, the database    *)
(* (a read, an advisory lock, a commit) or the provider (an answer).  In   *)
(* between, other scanners run, time passes, the database or the provider  *)
(* fails and the process is restarted.                                     *)
(***************************************************************************)
EXTENDS CandleStore, Sequences

CONSTANTS
    Scanners,          \* backend processes that scan the same database
    Nobody,            \* the holder of a free lock
    Sources,           \* source codes
    Series,            \* stored series
    SourceOf,          \* [Series -> Sources]
    Targets,           \* the series of a pass, in order (the same settings everywhere)
    Providers,         \* sources the process has an adapter for
    RecentLimit,       \* recent_limit
    MaxPerRequest,     \* [Sources -> limits.max_candles_per_request]
    HistoryCandles,    \* [Sources -> limits.history_candles, 0 when None]
    CountsOpenCandle,  \* sources whose limit counts the candle in progress
    MaxCatchup,        \* max_catchup_candles
    CooldownTicks,     \* RATE_LIMIT_COOLDOWN_SECONDS
    FailureCodes,      \* how a provider may fail
    Omissions,         \* may a provider leave out candles it was asked for?
    StartTime,         \* bound: the clock when the system is first started
    MaxTime,           \* bound: the clock stops here
    MaxFaults          \* bound: faults of the environment in one behaviour

ASSUME ScannerAssumption ==
    /\ Nobody \notin Scanners
    /\ SourceOf \in [Series -> Sources]
    /\ Targets \in Seq(Series)
    /\ Len(Targets) > 0
    /\ Providers \subseteq Sources
    /\ RecentLimit \in Nat \ {0}
    /\ MaxPerRequest \in [Sources -> Nat \ {0}]
    /\ HistoryCandles \in [Sources -> Nat]
    /\ CountsOpenCandle \subseteq Sources
    /\ MaxCatchup \in Nat \ {0}
    /\ CooldownTicks \in Seq(Nat \ {0})
    /\ Len(CooldownTicks) > 0
    /\ FailureCodes \subseteq FailureIssues
    /\ Omissions \in BOOLEAN
    /\ StartTime \in Nat
    /\ StartTime >= Duration + Grace   \* the grid starts before the system does
    /\ MaxTime \in Nat
    /\ MaxFaults \in Nat

VARIABLES
    now,        \* the clock every process and provider reads
    candles,    \* [Series -> stored candles]: freyja2_candles
    syncState,  \* [Series -> row]: freyja2_market_data_sync_state
    lock,       \* [Series -> the scanner whose transaction holds the advisory lock]
    pc,         \* [Scanners -> where its thread is]
    target,     \* [Scanners -> position in Targets of the series being scanned]
    cooldown,   \* [Scanners -> [Sources -> _Cooldown]], in memory only
    scan,       \* [Scanners -> locals of _scan_or_skip, _bring_up_to_date, _catch_up]
    answer,     \* [Scanners -> the CandleBatch of the request in progress]
    omitted,    \* history: [Series -> candles the provider had and left out of a stored answer]
    faults      \* faults so far, for the bound

shared == <<candles, syncState, lock>>
locals == <<pc, target, scan, answer>>
vars == <<now, shared, locals, cooldown, omitted, faults>>

\* No _Cooldown for the source.
NoCooldown == [until |-> 0, streak |-> 0]

NoScan == [mode |-> "none", since |-> 0, expected |-> 0, cursor |-> 0, end |-> 0, budget |-> 0]

NoAnswer == [issues |-> {}, candles |-> NoCandles, omitted |-> {}, at |-> 0]

-----------------------------------------------------------------------------
(* Reading the constants *)

TargetSeries(p) == Targets[target[p]]
Source(p) == SourceOf[TargetSeries(p)]

Smaller(a, b) == IF a < b THEN a ELSE b
Larger(a, b) == IF a > b THEN a ELSE b

\* recent: the limit of a request for the latest candles.
Recent(source) == Smaller(RecentLimit, MaxPerRequest[source])

\* How many closed candles that limit buys: Binance counts the candle in
\* progress as one of them, Kraken's adapter does not.
ClosedInRecent(source) ==
    IF source \in CountsOpenCandle THEN Recent(source) - 1 ELSE Recent(source)

\* A candle the source can no longer serve at time t: older than its horizon.
OutOfReach(source, i, t) ==
    /\ HistoryCandles[source] > 0
    /\ i <= NewestClosed(t) - HistoryCandles[source]

\* The exclusive end of the page a catch-up is on.
PageEnd(p) == Smaller(scan[p].end, scan[p].cursor + MaxPerRequest[Source(p)])

-----------------------------------------------------------------------------
\* What the database holds.
StoreTyped ==
    /\ candles = [s \in Series |-> candles[s]]
    /\ \A s \in Series : IsCandles(candles[s])
    /\ syncState \in [Series -> SyncState]
    /\ lock \in [Series -> Scanners \cup {Nobody}]
    /\ omitted \in [Series -> SUBSET Nat]

Plan == [mode : {"none", "first", "recent", "catchup"}, since : Nat, expected : Nat,
         cursor : Nat, end : Nat, budget : Nat]

IsAnswer(batch) ==
    /\ IsCandles(batch.candles)
    /\ batch.issues \subseteq QualityIssueCode
    /\ batch.omitted \subseteq Nat
    /\ batch.at \in Nat

\* What a scanner's thread holds.
LocalsTyped ==
    /\ pc \in [Scanners -> {"idle", "next", "latest", "lock", "answer", "commit"}]
    /\ target \in [Scanners -> 1..Len(Targets)]
    /\ scan \in [Scanners -> Plan]
    /\ DOMAIN answer = Scanners
    /\ \A p \in Scanners : IsAnswer(answer[p])

TypeOK ==
    /\ now \in Nat /\ now >= StartTime
    /\ StoreTyped
    /\ LocalsTyped
    /\ cooldown \in [Scanners -> [Sources -> [until : Nat, streak : Nat]]]
    /\ faults \in Nat

\* A first start on an empty database.
Init ==
    /\ now = StartTime
    /\ candles = [s \in Series |-> NoCandles]
    /\ syncState = [s \in Series |-> NoSyncState]
    /\ lock = [s \in Series |-> Nobody]
    /\ pc = [p \in Scanners |-> "idle"]
    /\ target = [p \in Scanners |-> 1]
    /\ cooldown = [p \in Scanners |-> [source \in Sources |-> NoCooldown]]
    /\ scan = [p \in Scanners |-> NoScan]
    /\ answer = [p \in Scanners |-> NoAnswer]
    /\ omitted = [s \in Series |-> {}]
    /\ faults = 0

-----------------------------------------------------------------------------
(* Control shared by the actions *)

GoTo(p, label) == pc' = [pc EXCEPT ![p] = label]

\* The locals of the series go out of scope.
Forget(p) ==
    /\ scan' = [scan EXCEPT ![p] = NoScan]
    /\ answer' = [answer EXCEPT ![p] = NoAnswer]

\* Mistake: one more target than there are.
FinishOneTooMany(p) ==
    /\ Forget(p)
    /\ IF target[p] <= Len(Targets)
       THEN GoTo(p, "next") /\ target' = [target EXCEPT ![p] = @ + 1]
       ELSE GoTo(p, "idle") /\ target' = [target EXCEPT ![p] = 1]

\* scan_once appends the series' report and takes the next target, or returns.
Finish(p) ==
    /\ Forget(p)
    /\ IF target[p] < Len(Targets)
       THEN GoTo(p, "next") /\ target' = [target EXCEPT ![p] = @ + 1]
       ELSE GoTo(p, "idle") /\ target' = [target EXCEPT ![p] = 1]

\* scan_once returns early: the later targets are NOT_ATTEMPTED.
EndPass(p) == Forget(p) /\ GoTo(p, "idle") /\ target' = [target EXCEPT ![p] = 1]

\* Mistake: a lock of the session, which a pooled connection keeps.
KeepLock(p) == UNCHANGED lock

\* The transaction ends, by commit, rollback or disconnection, and with it
\* the advisory lock it holds.
Release(p) ==
    lock' = [s \in Series |-> IF lock[s] = p THEN Nobody ELSE lock[s]]

\* One of the environment's faults.
Fault == faults < MaxFaults /\ faults' = faults + 1

-----------------------------------------------------------------------------
(* _note: what the report of a series says about its source *)

OpenCooldown(p) ==
    LET streak == cooldown[p][Source(p)].streak + 1
        ticks == CooldownTicks[Smaller(streak, Len(CooldownTicks))]
    IN  cooldown' = [cooldown EXCEPT ![p][Source(p)] =
                        [until |-> scan[p].since + ticks, streak |-> streak]]

CloseCooldown(p) == cooldown' = [cooldown EXCEPT ![p][Source(p)] = NoCooldown]

-----------------------------------------------------------------------------
(* scan_once and _scan_or_skip *)

StartPass(p) ==
    /\ pc[p] = "idle"
    /\ GoTo(p, "next")
    /\ UNCHANGED <<now, shared, target, scan, answer, cooldown, omitted, faults>>

\* COOLING_DOWN, or NOT_CONFIGURED because the process has no adapter: the
\* series is reported without a request and _note has nothing to note.
Skip(p) ==
    /\ pc[p] = "next"
    /\ now < cooldown[p][Source(p)].until \/ Source(p) \notin Providers
    /\ Finish(p)
    /\ UNCHANGED <<now, shared, cooldown, omitted, faults>>

\* Mistake: the cooldown is written but never looked at.
BeginScanAnyway(p) ==
    /\ pc[p] = "next"
    /\ Source(p) \in Providers
    /\ scan' = [scan EXCEPT ![p] = [NoScan EXCEPT !.since = now,
                                                  !.expected = NewestExpectedOpen(now)]]
    /\ GoTo(p, "latest")
    /\ UNCHANGED <<now, shared, target, answer, cooldown, omitted, faults>>

\* The clock is read for the cooldown and for what the series should have.
BeginScan(p) ==
    /\ pc[p] = "next"
    /\ now >= cooldown[p][Source(p)].until
    /\ Source(p) \in Providers
    /\ scan' = [scan EXCEPT ![p] = [NoScan EXCEPT !.since = now,
                                                  !.expected = NewestExpectedOpen(now)]]
    /\ GoTo(p, "latest")
    /\ UNCHANGED <<now, shared, target, answer, cooldown, omitted, faults>>

-----------------------------------------------------------------------------
(* _bring_up_to_date, after _latest_stored has read the newest candle in a *)
(* transaction of its own                                                  *)

\* UP_TO_DATE: no request is made.
FindCurrent(p) ==
    /\ pc[p] = "latest"
    /\ \E latest \in DOMAIN candles[TargetSeries(p)] :
          /\ IsLatest(latest, candles[TargetSeries(p)])
          /\ latest >= scan[p].expected
    /\ Finish(p)
    /\ UNCHANGED <<now, shared, cooldown, omitted, faults>>

\* Empty: one request for the latest candles.
PlanFirst(p) ==
    /\ pc[p] = "latest"
    /\ DOMAIN candles[TargetSeries(p)] = {}
    /\ scan' = [scan EXCEPT ![p].mode = "first"]
    /\ GoTo(p, "lock")
    /\ UNCHANGED <<now, shared, target, answer, cooldown, omitted, faults>>

\* Mistake: one request although it is one candle short.
PlanRecentTooOften(p) ==
    /\ pc[p] = "latest"
    /\ \E latest \in DOMAIN candles[TargetSeries(p)] :
          /\ IsLatest(latest, candles[TargetSeries(p)])
          /\ latest < scan[p].expected
          /\ scan[p].expected - latest <= Recent(Source(p)) + 1
    /\ scan' = [scan EXCEPT ![p].mode = "recent"]
    /\ GoTo(p, "lock")
    /\ UNCHANGED <<now, shared, target, answer, cooldown, omitted, faults>>

\* A few candles behind: one request for the latest candles.
PlanRecent(p) ==
    /\ pc[p] = "latest"
    /\ \E latest \in DOMAIN candles[TargetSeries(p)] :
          /\ IsLatest(latest, candles[TargetSeries(p)])
          /\ latest < scan[p].expected
          /\ scan[p].expected - latest < Recent(Source(p))
    /\ scan' = [scan EXCEPT ![p].mode = "recent"]
    /\ GoTo(p, "lock")
    /\ UNCHANGED <<now, shared, target, answer, cooldown, omitted, faults>>

\* Where a catch-up starts: after the newest stored candle, or at the oldest
\* one the provider still serves.
FirstMissed(p, latest) ==
    LET reach == HistoryCandles[Source(p)]
    IN  IF reach > 0
        THEN Larger(latest + 1, scan[p].expected - (reach - 1))
        ELSE latest + 1

\* Far behind: pages forward.
PlanCatchUp(p) ==
    /\ pc[p] = "latest"
    /\ \E latest \in DOMAIN candles[TargetSeries(p)] :
          /\ IsLatest(latest, candles[TargetSeries(p)])
          /\ scan[p].expected - latest >= Recent(Source(p))
          /\ scan' = [scan EXCEPT ![p].mode = "catchup",
                                  ![p].cursor = FirstMissed(p, latest),
                                  ![p].end = scan[p].expected + 1,
                                  ![p].budget = MaxCatchup]
    /\ GoTo(p, "lock")
    /\ UNCHANGED <<now, shared, target, answer, cooldown, omitted, faults>>

-----------------------------------------------------------------------------
(* _sync_page: one request stored in one transaction *)

\* Mistake: the lock is taken without looking.
LockRegardless(p) ==
    /\ pc[p] = "lock"
    /\ lock' = [lock EXCEPT ![TargetSeries(p)] = p]
    /\ GoTo(p, "answer")
    /\ UNCHANGED <<now, candles, syncState, target, scan, answer, cooldown, omitted, faults>>

TryLock(p) ==
    /\ pc[p] = "lock"
    /\ lock[TargetSeries(p)] = Nobody
    /\ lock' = [lock EXCEPT ![TargetSeries(p)] = p]
    /\ GoTo(p, "answer")
    /\ UNCHANGED <<now, candles, syncState, target, scan, answer, cooldown, omitted, faults>>

\* LOCKED_BY_ANOTHER.
FindLocked(p) ==
    /\ pc[p] = "lock"
    /\ lock[TargetSeries(p)] # Nobody
    /\ Finish(p)
    /\ UNCHANGED <<now, shared, cooldown, omitted, faults>>

\* What a request in progress asks for, when the newest candle the provider
\* has published is newest.
Requested(p, newest) ==
    IF scan[p].mode = "catchup"
    THEN scan[p].cursor .. Smaller(PageEnd(p) - 1, newest)
    ELSE Larger(0, newest + 1 - ClosedInRecent(Source(p))) .. newest

\* The candles of it that the source still serves.
Available(p, newest) ==
    {i \in Requested(p, newest) : ~OutOfReach(Source(p), i, now)}

\* The batch an adapter makes of the candles it was served.  GAP stands for
\* every degrading issue (GAP, STALE, INCOMPLETE_RANGE); omitted is not part of
\* the batch, it is remembered for the history variable.
Batch(p, served, newest, value) ==
    [issues |-> IF served = Requested(p, newest) THEN {} ELSE {"GAP"},
     candles |-> [i \in served |-> value],
     omitted |-> Available(p, newest) \ served,
     at |-> now]

\* Mistake: the lock covers the request but not the transaction that stores it.
DeliverAndUnlock(p) ==
    /\ pc[p] = "answer"
    /\ \E newest \in NewestExpectedOpen(now) .. NewestClosed(now), v \in Values :
          answer' = [answer EXCEPT ![p] = Batch(p, Available(p, newest), newest, v)]
    /\ Release(p)
    /\ GoTo(p, "commit")
    /\ UNCHANGED <<now, candles, syncState, target, scan, cooldown, omitted, faults>>

\* The provider answers with all it has.  Within the grace the newest closed
\* candle may or may not be published yet.
Deliver(p) ==
    /\ pc[p] = "answer"
    /\ \E newest \in NewestExpectedOpen(now) .. NewestClosed(now), v \in Values :
          answer' = [answer EXCEPT ![p] = Batch(p, Available(p, newest), newest, v)]
    /\ GoTo(p, "commit")
    /\ UNCHANGED <<now, shared, target, scan, cooldown, omitted, faults>>

\* The provider leaves out candles it has.
DeliverPart(p) ==
    /\ pc[p] = "answer"
    /\ Omissions
    /\ Fault
    /\ \E newest \in NewestExpectedOpen(now) .. NewestClosed(now), v \in Values :
          \E served \in SUBSET Available(p, newest) :
             answer' = [answer EXCEPT ![p] = Batch(p, served, newest, v)]
    /\ GoTo(p, "commit")
    /\ UNCHANGED <<now, shared, target, scan, cooldown, omitted>>

\* The provider fails, after the adapter's own retries.  The bound on the
\* clock leaves room for the cooldown to end.
Fail(p) ==
    /\ pc[p] = "answer"
    /\ Fault
    /\ \E code \in FailureCodes :
          /\ code = "RATE_LIMITED" => now + CooldownTicks[Len(CooldownTicks)] <= MaxTime
          /\ answer' = [answer EXCEPT ![p] =
                [issues |-> {code}, candles |-> NoCandles, omitted |-> {}, at |-> now]]
    /\ GoTo(p, "commit")
    /\ UNCHANGED <<now, shared, target, scan, cooldown, omitted>>

\* sync_candles and the commit of its transaction.
Store(p) ==
    LET s == TargetSeries(p)
        issues == SyncIssues(answer[p].issues, candles[s], answer[p].candles)
    IN  /\ candles' = [candles EXCEPT ![s] = InsertCandles(@, answer[p].candles)]
        /\ syncState' = [syncState EXCEPT ![s] =
                            RecordSyncAttempt(@, answer[p].at, QualityFromIssues(issues))]
        /\ omitted' = [omitted EXCEPT ![s] = @ \cup answer[p].omitted]
        /\ Release(p)

Failed(p) == answer[p].issues \cap FailureIssues # {}

\* PROVIDER_UNAVAILABLE: the failure is stored, the series is over.
CommitFailure(p) ==
    /\ pc[p] = "commit"
    /\ Failed(p)
    /\ Store(p)
    /\ IF "RATE_LIMITED" \in answer[p].issues
       THEN OpenCooldown(p)
       ELSE UNCHANGED cooldown
    /\ Finish(p)
    /\ UNCHANGED <<now, faults>>

\* SYNCED by one request.
CommitRecent(p) ==
    /\ pc[p] = "commit"
    /\ ~Failed(p)
    /\ scan[p].mode # "catchup"
    /\ Store(p)
    /\ CloseCooldown(p)
    /\ Finish(p)
    /\ UNCHANGED <<now, faults>>

\* A page of a catch-up that has more pages and budget left.
CommitPage(p) ==
    /\ pc[p] = "commit"
    /\ ~Failed(p)
    /\ scan[p].mode = "catchup"
    /\ PageEnd(p) < scan[p].end
    /\ scan[p].budget > MaxPerRequest[Source(p)]
    /\ Store(p)
    /\ scan' = [scan EXCEPT ![p].cursor = PageEnd(p),
                            ![p].budget = @ - MaxPerRequest[Source(p)]]
    /\ answer' = [answer EXCEPT ![p] = NoAnswer]
    /\ GoTo(p, "lock")
    /\ UNCHANGED <<now, target, cooldown, faults>>

\* The last page (SYNCED), or the one that spends the budget (PARTIAL).
CommitLastPage(p) ==
    /\ pc[p] = "commit"
    /\ ~Failed(p)
    /\ scan[p].mode = "catchup"
    /\ PageEnd(p) >= scan[p].end \/ scan[p].budget <= MaxPerRequest[Source(p)]
    /\ Store(p)
    /\ CloseCooldown(p)
    /\ Finish(p)
    /\ UNCHANGED <<now, faults>>

-----------------------------------------------------------------------------
(* Faults *)

\* NOT_CONFIGURED (the catalog has the series switched off) or REJECTED (the
\* answer is for another series, or contradicts itself): the transaction is
\* abandoned and the pass goes on.
Refuse(p) ==
    /\ pc[p] \in {"latest", "answer"}
    /\ Fault
    /\ Release(p)
    /\ Finish(p)
    /\ UNCHANGED <<now, candles, syncState, cooldown, omitted>>

\* DATABASE_ERROR before anything was committed: the pass ends.
DatabaseFails(p) ==
    /\ pc[p] \in {"latest", "lock", "answer", "commit"}
    /\ Fault
    /\ Release(p)
    /\ EndPass(p)
    /\ UNCHANGED <<now, candles, syncState, cooldown, omitted>>

\* DATABASE_ERROR although the commit went through: its acknowledgement was lost.
CommitUnacknowledged(p) ==
    /\ pc[p] = "commit"
    /\ Fault
    /\ Store(p)
    /\ EndPass(p)
    /\ UNCHANGED <<now, cooldown>>

\* The process is killed and started again: its memory is gone.
Restart(p) ==
    /\ Fault
    /\ Release(p)
    /\ EndPass(p)
    /\ cooldown' = [cooldown EXCEPT ![p] = [source \in Sources |-> NoCooldown]]
    /\ UNCHANGED <<now, candles, syncState, omitted>>

-----------------------------------------------------------------------------
Tick ==
    /\ now < MaxTime
    /\ now' = now + 1
    /\ UNCHANGED <<shared, locals, cooldown, omitted, faults>>

\* What a scanner does when nothing fails.
Work(p) ==
    \/ StartPass(p) \/ Skip(p) \/ BeginScan(p)
    \/ FindCurrent(p) \/ PlanFirst(p) \/ PlanRecent(p) \/ PlanCatchUp(p)
    \/ TryLock(p) \/ FindLocked(p)
    \/ Deliver(p)
    \/ CommitFailure(p) \/ CommitRecent(p) \/ CommitPage(p) \/ CommitLastPage(p)

Break(p) ==
    \/ DeliverPart(p) \/ Fail(p) \/ Refuse(p) \/ DatabaseFails(p) \/ CommitUnacknowledged(p) \/ Restart(p)

Next == Tick \/ \E p \in Scanners : Work(p) \/ Break(p)

Spec == Init /\ [][Next]_vars

\* Time passes, and every scanner's thread keeps running while its process
\* lives: the service's loop starts a pass after every pause.
FairSpec == Spec /\ WF_vars(Tick) /\ \A p \in Scanners : WF_vars(Work(p))

-----------------------------------------------------------------------------
(* Safety *)

\* Two scanners on the same database never fetch the same series at the same
\* time: the promise of the module's docstring about the advisory lock.
NeverFetchedTogether ==
    \A p, q \in Scanners :
        /\ p # q
        /\ {pc[p], pc[q]} \subseteq {"answer", "commit"}
        => TargetSeries(p) # TargetSeries(q)

\* The recorded freshness covers the data: whatever is stored had closed when
\* the last successful attempt was answered, across scanners that answer and
\* commit at different times, failures and restarts.  The read side tells a
\* user how old a series is from last_success_at.
RecordedSuccessCoversCandles ==
    \A s \in Series : \A i \in DOMAIN candles[s] :
        i <= NewestClosed(syncState[s].success)

\* last_attempt_at and last_success_at never move back, although the moment
\* they record is read when the answer arrives and written at the commit.
AttemptsMoveForward ==
    [][\A s \in Series : /\ syncState'[s].attempt >= syncState[s].attempt
                         /\ syncState'[s].success >= syncState[s].success]_syncState

\* While a source cools down, the scanner that was told so has no request to
\* it in progress, for any of its series and any page of a catch-up.
QuietWhileCoolingDown ==
    \A p \in Scanners :
        pc[p] \in {"lock", "answer"} => now >= cooldown[p][Source(p)].until

\* The closed candles missing between stored ones.
Holes(s) ==
    {i \in 0 .. NewestClosed(now) :
        /\ i \notin DOMAIN candles[s]
        /\ \E older, newer \in DOMAIN candles[s] : older < i /\ i < newer}

\* The answer came so long after the plan that a candle the plan did not
\* count has closed: the limit no longer reaches back to the newest stored one.
Late(p) ==
    NewestClosed(answer[p].at) + (Recent(Source(p)) - ClosedInRecent(Source(p)))
        > scan[p].expected + 1

\* Scanning never opens a hole that could have been avoided, whatever scanners,
\* faults and delays do: a candle is passed over only when its source no longer
\* serves it, when the provider left it out of an answer that was stored, or by a single request
\* for the latest candles that was answered late or planned on an empty series.
\* A catch-up fills forward from what is stored, page by page.
SkippedOnlyWithCause ==
    [][\A s \in Series : \A i \in Holes(s)' \ Holes(s) :
          \/ OutOfReach(SourceOf[s], i, now)
          \/ i \in omitted'[s]
          \/ \E p \in Scanners :
                /\ lock[s] = p
                /\ \/ scan[p].mode = "first"
                   \/ scan[p].mode = "recent" /\ Late(p)]_candles

\* What the docstring promises (no hole, however long the host slept), asked
\* only of requests that were planned and answered in the same instant.
PromptAnswersLeaveNoHole ==
    [][\A s \in Series : \A i \in Holes(s)' \ Holes(s) :
          \/ OutOfReach(SourceOf[s], i, now)
          \/ i \in omitted'[s]
          \/ \E p \in Scanners :
                /\ lock[s] = p
                /\ scan[p].mode = "first" \/ answer[p].at # scan[p].since]_candles

-----------------------------------------------------------------------------
(* Refinement *)

Ledgers == INSTANCE CandleHistory WITH
               history <- candles,
               asOf <- [s \in Series |-> syncState[s].success]

\* The stored series are such ledgers, dated by their last_success_at: what
\* several scanners, a provider that revises its values and transactions that
\* fail do never changes or outruns what was recorded.
SeriesAreLedgers == Ledgers!Spec

-----------------------------------------------------------------------------
(* Liveness *)

UpToDate(s) ==
    \E latest \in DOMAIN candles[s] : latest >= NewestExpectedOpen(now)

\* Once the faults are over every series gets up to date, through budgets that
\* run out, pages that fail, cooldowns and locks held by others.
EventuallyUpToDate == <>[](\A s \in Series : UpToDate(s))

=============================================================================
