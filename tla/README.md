# Verification of Freyja 2.0

TLA+ models of the parts of Freyja whose correctness depends on the order in
which things happen, TLC configurations that check them on small instances, and
TLAPS proofs of what matters most for every size. Paths are relative to
`src/backend/src/freyja_backend/` unless they start with `src/`.

## 1. The system

Freyja keeps the closed candles of a set of markets in PostgreSQL, shows them,
and analyses them. Its parts, what each one remembers and what makes it correct:

| Part | Code | State | Operations | Correct when |
|---|---|---|---|---|
| Candle scanner | `application/candle_scanner.py` | cooldown per source (memory); an advisory lock per series (database, one transaction) | `scan_once`: for each series skip, find it current, ask for the latest candles, or catch up page by page | no series is fetched twice at once, no hole is opened, sources that asked for quiet get it, every series ends up to date |
| Scanner service | `application/candle_scanner_service.py`, `candle_scanner_wiring.py`, `main.py` | the asyncio task, the stop event | start, loop with a pause, stop with a timeout | a pass at a time, resources released after the last pass |
| Candle store | `repositories/market_data_repository.py`, `application/market_data_service.py` | `freyja2_candles`, `freyja2_market_data_sync_state` | insert (never overwrite), record an attempt, sync, backfill | append-only, honest about freshness and failures |
| Provider adapters | `infrastructure/market_data/*.py` | time of the last request, Twelve Data's quota (memory) | request with retries, parse, assess | requests keep the agreed pace; an answer called OK is complete; only finished candles are delivered |
| Market-data rules | `domain/market_data.py` | none | time grid, closed/expected candles, quality, gaps | pure |
| Read API | `application/market_data_query_service.py` | none | a page of a series with freshness, gaps, provider state | pages are consecutive, freshness is not overstated |
| Commands | `scripts/sync_candles.py`, `scripts/create_owner.py` | none | one sync or backfill; create the owner | repeatable |
| Authentication | `application/auth_service.py`, `api/v1/endpoints/auth.py`, `db/deps.py` | users, sessions, reset tokens, rate-limit events | register, log in, resolve, log out, ask for a reset, reset | one account per e-mail, a reset ends what went before it, attempts are counted |
| Market structure, trend | `domain/market_structure.py`, `domain/market_trend.py`, `domain/market_context.py`, `domain/trend_policy.py` | none | is a series fit to read; its pivots, swings, trend | what is confirmed never changes; a trend does not flip; causal |
| Fibonacci | `domain/fibonacci*.py` | the instances and the records of a series | search, levels, append-only lifecycle | records rest on what was received, are complete and never rewritten; gaps close when they should |
| Chart patterns | `domain/chart_pattern.py`, `domain/pattern_*.py` | the instances of a series, each a history of evaluations | detect (twenty types), update the instances candle by candle, derive a hypothesis | histories are append-only and follow the states; a figure ends for the reason given; a claim is operable only if it could have been acted on |
| Candlestick patterns | `domain/candlestick_*.py` | the instances, and the locations that were told | detect one, two and three candles, locate, derive a hypothesis | readings do not depend on later candles; a claim does not change once its location was told |
| Context snapshots | `domain/context_snapshot.py`, `application/context_snapshot_service.py` | `freyja2_context_snapshots` | insert once by content, load with verification | one row per content |
| Catalog, capabilities, providers, execution contexts | `application/*_service.py`, `repositories/*` | seeded tables | read | read-only |
| Frontend session | `src/frontend/src/app/core/auth/` | CSRF token, current user | send with token, renew once, forget | mutations never go out with a token that is not the cookie's |
| Frontend markets page | `src/frontend/src/app/features/markets/` | candles shown, series selected, request states, requests in flight | navigate, reload, refresh, load older | what is shown and said belongs to the selected series; it is never busy with nothing |

How they interact. Each backend process runs one scanner thread; all processes
share one database and the same public providers. The scanner reads a series,
asks an adapter, and stores the answer through `sync_candles` in one transaction
held under a transaction-level advisory lock. The read API and the operator's
command use the same tables at the same time and take no lock. The browser talks
to the API only. Analysis (structure, trend, patterns) is computed from stored
candles and has no state in the database except snapshots.

The hard behaviours are listed in `PROJECT.json` under `hazards`, each at its
line, with the properties that would catch it going wrong.

## 2. Modules

| Module | Models |
|---|---|
| `MarketData` | the rules of `domain/market_data.py`: the time grid, which candle is closed, which one must be available, quality from issues |
| `CandleStore` | what the repository does to one series: idempotent insert, the upsert of its sync-state row, `sync_candles` |
| `CandleHistory` | the abstract specification of the store: per series, a ledger of closed candles that only grows, whose entries never change, dated by a moment that never moves back |
| `CandleScanner` | the scanners: any number of processes over one database |
| `MCCandleScanner` | small instances of it for TLC |
| `CandleScannerProofs` | type correctness, mutual exclusion, freshness, dates, refinement of `CandleHistory`, cooldowns and holes |
| `AuthService` | `application/auth_service.py` behind its endpoints: concurrent requests, each a transaction of `db/deps.py`, over the four tables of `db/models/auth.py` |
| `MCAuthService` | small instances of it for TLC |
| `AuthServiceProofs` | type correctness; what the steps of one request leave alone; acknowledged accounts; sessions that were ended; tokens that were used or replaced; the password; the limits on attempts |
| `MarketCalendar` | `domain/market_calendar.py`: when a market should publish |
| `MarketContext` | `domain/market_context.py`: whether a series is fit to be read |
| `MarketStructure` | `domain/market_structure.py`: pivots and swings |
| `MarketTrend` | `domain/market_trend.py`: the structural trend |
| `FibonacciSearch` | `check_impulse` of `domain/fibonacci.py` and `domain/fibonacci_detection.py` |
| `FibonacciLifecycle` | `domain/fibonacci_lifecycle.py`: the replay, with candles in any order of arrival |
| `MCFibonacci` | small instances of these for TLC |
| `BasicLemmas` | numbers, finite sets and sequences, for the proofs below |
| `MarketStructureProofs` | what later candles leave of pivots and swings; what the loop over the pivots makes; how the swings of a window move with it |
| `FibonacciProofs` | type correctness, the invariants of the records, and what stays found and not repainted |
| `CandleAnswer` | what an adapter makes of the rows it was answered: `assess_candles` and the parsing before it |
| `ProviderClient` | the three REST adapters: calls, attempts, backoff, Retry-After, spacing, quota, restart; and the provider |
| `MCProviders` | small clients for TLC |
| `ProviderProofs` | the pace of requests; that an answer called OK is complete |
| `PatternInstance` | `domain/chart_pattern.py`: the catalogue of figures, what an evaluation must contain and which may follow which |
| `PatternDetection` | `domain/pattern_detection.py`: reference range, lines, `judge`, what was known when, `update_instances` |
| `PatternReversal` | doubles, triples, head and shoulders, rounded figures |
| `PatternChannel` | triangles, rectangle, wedges, broadening formation, flags and pennants |
| `PatternDiamond` | the diamond, and the diamonds it holds back |
| `PatternHypothesis` | `domain/pattern_hypothesis.py`: the claim of a figure |
| `PatternReplay` | `PatternDetector.detect` and `replay_detector`: a series whose candles close one by one, and its figures |
| `CandlePatterns` | `domain/candlestick_single.py`, `candlestick_multi.py`, `candlestick_pattern.py` |
| `CandleLocation` | `domain/candlestick_location.py`, `candlestick_hypothesis.py` |
| `CandleReplay` | candle patterns and their locations beside the figures of a series |
| `MCSeries` | thresholds and the series TLC begins with |
| `CandleReplayProofs` | what an evaluation of any detector is; that only twins end a replay, figures go on as they were told, operable claims rest on what had been received, candles and claims stay as they were read, and a trend does not flip |
| `MarketsPage` | `features/markets/markets.page.ts` with `merge-candles.ts` and `periods.ts`, and the answers it waits for |
| `MCMarketsPage` | small instances of it for TLC |
| `MarketsPageProofs` | what the page says, and when it is busy |

How they compose. `CandleScanner` EXTENDS `MarketData` and `CandleStore` and
implements `CandleHistory` (INSTANCE with a refinement mapping, one per series).
What `CandleHistory` promises (closed candles, never rewritten, holes possible, any
order) is the world the analysis is checked in. The analysis is a tower over one
series of candles: `MarketStructure` and `MarketContext` at the bottom,
`MarketTrend`, then `FibonacciSearch` and `FibonacciLifecycle` on one side,
`PatternInstance` to `PatternReplay` on the other, and `CandleReplay` over both the
figures and the candle patterns, whose locations read the figures. `ProviderClient`
is one adapter in detail; `CandleScanner` knows it only by what it may answer.
Accounts, the markets page and the rest share no state.

### How CandleScanner corresponds to the code

Time is a counter; a candle lasts `Duration` ticks and is named by its index. A
scanner's thread advances by steps that each touch something shared:

| `pc` | the thread is | actions |
|---|---|---|
| `idle` | between passes | `StartPass` |
| `next` | about to look at `Targets[target]` | `Skip` (cooling down, or no adapter), `BeginScan` |
| `latest` | about to read the newest stored candle | `FindCurrent`, `PlanFirst`, `PlanRecent`, `PlanCatchUp` |
| `lock` | at the start of `_sync_page`'s transaction | `TryLock`, `FindLocked` |
| `answer` | waiting for the provider, lock held | `Deliver`, and the faults `DeliverPart`, `Fail` |
| `commit` | the transaction is about to commit | `CommitFailure`, `CommitRecent`, `CommitPage`, `CommitLastPage` |

`scan`, `target` and `answer` are the locals of `scan_once`, `_scan_or_skip`,
`_bring_up_to_date` and `_catch_up`; `cooldown` is `_cooldowns`. Choices worth
knowing:

- `_scan_or_skip` and `_bring_up_to_date` each read the clock, with nothing
  shared in between; `BeginScan` reads it once for both.
- A transaction's writes become visible at its commit, so `sync_candles`
  (insert, compare, upsert) and the commit are one action, `Store`; nobody else
  writes a series while its lock is held, so the rows it reads are those at the
  commit. The date it writes is the one read when the answer arrived.
- `_note` runs in the scanner's thread right after the report, so its effect is
  part of the action that finishes the series.
- What a provider answers is modelled from the adapters: the newest candle it has
  published is anything between the newest expected one and the newest closed one
  (the ten seconds of grace); it serves at most its limit and horizon; Binance's
  limit counts the candle in progress (`CountsOpenCandle`), Kraken's adapter
  applies it to closed candles. A degrading issue is `GAP` whatever its code.
- Faults, each counted against `MaxFaults`: the provider fails (any failure code)
  or leaves candles out, the answer is refused or the series is not configured,
  the database fails before the commit, the commit's acknowledgement is lost, the
  process is killed and restarted (its cooldowns are memory only).
- `omitted` and `faults` are not in the code: the first remembers, for the
  properties, which candles the provider had and left out of a stored answer; the
  second bounds the faults of a behaviour.

Not in this model: the operator's command as a writer without the lock, and
`backfill_candles` (section 5).

### How AuthService corresponds to the code

A request is a number, in order of arrival, and one transaction: `get_db` opens a
session per request, PostgreSQL runs it READ COMMITTED, and the endpoints are plain
functions that FastAPI runs in threads, so any number of them overlap. The session
a login inserts, the token a forgot-password inserts and the event an attempt leaves
are named after their request; `grants` holds both kinds of rows, which differ by
the kind of their request.

| `pc` | the handler is | actions |
|---|---|---|
| `new` | not there yet | `Throttle` (429), `Admit`, `Me`, `Logout`, `Reset` |
| `lookup` | about to read the account or the token | `RegisterKnown`, `RegisterNew`, `LoginFails`, `LoginPasses`, `ForgotUnknown`, `ForgotKnown`, `RefuseToken`, `AcceptToken` |
| `insert` | at the INSERT of the account | `InsertUser`, `LoseRace` |
| `update` | at the UPDATE of the account | `OpenSession`, `UpdatePassword` |
| `consume` | at the UPDATE of the token it was sent | `ConsumeToken` |
| `invalidate` | in the UPDATE of the account's open tokens | `CloseRow`, `IssueToken`, `FindSessions` |
| `mail` | about to send the e-mail | `SendMail` |
| `revoke` | in the UPDATE of sessions | `CloseRow`, `EndRevoke` |
| `commit` | done, `get_db` has yet to commit | `Commit` |
| `committed`, `rolled_back`, `failed` | over | |

- **Writes and locks.** What a transaction writes is in `tx[r]` until `Commit`
  puts it into the tables; nobody else sees it before. An UPDATE with a WHERE takes
  the rows it sees when it starts (`targets`), waits for each one's writer, looks at
  it again and skips it if it was closed meanwhile (`CloseRow`); the order of the
  rows is the database's choice. An UPDATE by primary key (the ORM's flush of the
  account and of the used token) waits too but overwrites whatever it finds. An
  INSERT of an identifier waits for one that is still open and then fails or goes on.
  `rowLock` is the account's row or its unique key; `tx[r].held` the other rows.
  A cycle of waiting transactions is broken by the database, which rolls one back
  (`BreakDeadlock`). All this is PostgreSQL's documented behaviour, not code of the
  repository, and marked external in the map.
- **The answer and the commit.** With the FastAPI version the project pins (0.139.2)
  the exit of a `yield` dependency runs after the response was sent. So `result`
  becomes `ok` before `Commit`, and a client may act on it first. For an
  HTTPException the commit comes first; there a rollback turns the answer into
  `error`, and nobody reads it before.
- **Clocks.** `since` is the `now` of the handler. `authenticate` and
  `is_rate_limited` read the clock separately with nothing shared in between; one
  reading stands for both. `create_session` reads it again.
- **The ledger.** The purge of old events is a DELETE in the same transaction; its
  effect is at the commit (`NewEvents`).
- **Inputs.** `Throttle` and `Admit` take any e-mail, password and origin; a session
  cookie comes from a login that was answered; a reset link from an e-mail that left.
- **Left out.** `last_login_at` and `last_seen_at` (nothing reads them), `is_active`
  (nothing sets it to false), CSRF and schema errors (they end a request before the
  service), timing equalisation. `create_owner` is a way to start with an account.
- `before`, `faults` are not in the code: the first remembers which requests were
  over when one arrived, so that properties can say "earlier"; the second bounds
  failures (`Fail`: the database or the process ends a transaction anywhere).

### How the reading of a series corresponds to the code

Candles are named by their index, so sorting by `open_time` is the order of the
indices; a series is a function from the indices of the candles known to their low,
high and close, and a missing index is a gap. `MarketContext`, `MarketStructure`,
`MarketTrend` and `FibonacciSearch` have no state: their operators are the functions
of the code on such a series. Pivots and impulses, tuples in the code, are sets
here (an impulse is its direction and its two candles, which with the versions is
what `derive_instance_id` hashes); `SwingPoints` keeps the code's loop, and
`RunExtremes`, which the search reads, is what the loop comes to - a run checks that
they agree.

`FibonacciLifecycle` follows `replay_lifecycle`. The code is handed a finished list of
candles with their receipts and walks over the instants of receipt; the model
produces both as it goes: at each tick any finished candles not yet received may be
received, with any shape. One turn of the loop is one action:

| Action | Code |
|---|---|
| `Silence` | a tick that is not an instant |
| `Unfit` | an instant whose data is not fit: `continue` |
| `Follow` | an instant that is fit: `Extend` (1.), `Abandoned` (2.), `Bear` and `Succeeded` (3.), in the code's order, as one step |

`born`, `extended` and `closed` are the records by kind, with the instant (`at`) and
the candle that proves it (`by`); GAP_OPENED always goes with EXTENSION_DETECTED. The
dictionary `open_gaps` is `OpenGaps`. `found` remembers what the search saw, for the
properties. Candles received once and unchanged is what the store promises; so
INVALID_CANDLES and DEGRADED_DATA do not occur. A replay without receipts is the
behaviour in which each candle arrives at its close.

### How the figures and the candle patterns correspond to the code

Nothing in the program stores figures yet; `replay_detector` is what a caller has,
and `PatternReplay` is that loop with several detectors at once. Its state is the
candles that closed and came (`closed`) and the instances by identity (`figures`),
each the sequence of its evaluations. `CandleCloses` is one turn of the loop:
`build_observable_context`, `detect_pivots`, `swing_points`, every detector's
`detect` and `update_instances`. `CandleIsMissing` is a candle that never comes.
Candles carry when they were received, or nothing if nobody recorded it. An error
the code raises ends the replay (`raised`): it is what happens when an evaluation is
refused and so is the one that would close the figure.

- **Detectors.** Each is an operator from candles, swings and the instant to a
  sequence of evaluations, one per figure it sees, in the code's order. Tops and
  bottoms, and the bearish shape of a candle, are mirrors (`Signed`, `Facing`), as in
  the code. Fractions are pairs, compared by multiplying across; the prices of lines
  are exact where the code rounds to a step, the series having prices that are
  multiples of it (`PriceTick`; `MCSeries` counts in sixths).
- **Judging.** `Judge` is `judge`: the first candle beyond a boundary, confirmation
  by close, the failure window, expiry and the reasons a figure ends for. Evidence is
  the set of its codes; only what a hypothesis reads (the trend before, the timing)
  keeps its facts.
- **What was known when.** `KnownAtOf`, `SeenAt`, `ProvenanceOf` and `Timing` are the
  functions of the same names; `published` is the diamond's second date.
- **Candle patterns** are detected anew at every close. Nothing in the program adds a
  second evaluation to one, so an instance is one reading. `Locate` is a caller that
  asks where a pattern stands, for the first time or again with what it was told.
- **Hypotheses** are functions of what is held, so they are operators.

### How ProviderClient corresponds to the code

| `stage` | the thread is | actions |
|---|---|---|
| `idle` | not called | `Call` |
| `attempt` | at the top of the loop of `_get_json` | `BeginAttempt`, `RefuseOverQuota` |
| `spacing` | in the sleep of `_respect_request_spacing` | `EndPause` |
| `flight` | waiting for the response | `FailAttempt`, `BeRateLimited`, `ReceiveCandles`, `ReceiveMetadata` |
| `backoff` | in the sleep before another attempt | `EndBackoff` |

`Compute` is the provider making its answer, at an instant of its own between the
request and its receipt. It knows candles by their index; what it has published is
anything from the newest expected candle to the newest closed one, perhaps with the
one in progress, whose prices are not final. An answer may be defective
(`MaxDefects`): a row missing, told twice, out of order, unreadable or off the grid.
`CandleBatch` is everything from the rows to the `MarketDataBatch`. `sent`,
`patience` and `restarts` are history, for the properties.

### How MarketsPage corresponds to the code

A navigation gives a selection (`url`) to `load`; `switchMap` gives up the load in
flight, so there is one at most (`loading`); requests for older pages are
subscriptions of their own (`olders`), which nothing cancels. `ReceiveDetail` and
`ReceiveSeries` are the two steps of a load, `FailLoad` its `catchError`, `ReceiveOlder`
and `FailOlder` the handlers of an older page. `AutoRefresh` is the interval and the
tab that becomes visible. `stored` is how many candles the backend has; a page is
computed somewhere between the request and its receipt.

## 3. What the runs check

`scanner_series` - two scanners, one series, no horizon, two values a provider
may report for a candle, one fault, clock 3..10 with candles of two ticks. Two
scanners are enough for every property that relates two of them; four candles
close during a behaviour, so an empty series, one request, and a catch-up of two
pages all occur. The scanners are interchangeable and appear in no liveness
property, so they are a symmetry set.

- `TypeOK`.
- `NeverFetchedTogether` (lines 10-14 of the scanner): two scanners never have a
  request or a transaction open for one series.
- `RecordedSuccessCoversCandles`: whatever is stored had closed at
  `last_success_at`, which is what the read side shows as the age of the data.
- `AttemptsMoveForward`: the dates of the row never move back, although they are
  read when an answer arrives and written at a commit.
- `SkippedOnlyWithCause`: a candle is passed over (a stored candle newer and an
  older one, it missing) only if its source no longer serves it, the provider left
  it out of a stored answer, or it was stored by a single request for the latest
  candles that was planned on an empty series or answered late. A catch-up never
  opens a hole, whatever crashes, fails or runs in between.
- `SeriesAreLedgers`: the refinement of `CandleHistory`.

`scanner_sources` - one scanner, two series of a source with a two-candle horizon,
one candle per request, a catch-up budget of one candle, rate limits with two
cooldown lengths, omissions, two faults, clock 3..9.

- `QuietWhileCoolingDown`: no request to a source in a cooldown.
- `EventuallyUpToDate`: after the last fault every series gets and stays up to
  date. Fairness: time passes (`WF(Tick)`), and each scanner's thread keeps running
  (`WF(Work(p))`), which is the service's loop (`_run`: a pass after every pause,
  even after an unexpected exception). Nothing is assumed of the environment but
  that its faults end, which `MaxFaults` says, and that a provider that does not
  fail answers.

`auth_attempts` - up to three requests: registrations, logins, forgot-passwords (three
of one kind, too), a reset, one use of a session; two accounts, two clients, identifier
limit 2 and origin limit 2, window and retention of the current tick, clock 0..1, one
failure. Three requests of one kind and account from two clients reach the identifier's
limit and not the origin's; three from one client on two accounts the origin's and not
the identifier's. The clock lets events leave the window and be purged, and tokens
expire. Accounts and clients are interchangeable, which the run uses (`SYMMETRY`; it
checks safety only).

- `TypeOK`.
- `AcknowledgedAccountsExist`: "your account has been created" is true once the
  request is over as the code meant: also when its INSERT lost the race, whatever
  becomes of the winner. The only exception is a failure after the answer, whose client
  was told of an account that never comes to be.
- `LimitsHold`: a request that was not refused with 429 had fewer earlier attempts than
  the limit of its account and the limit of its client. "Earlier" is: committed when it
  arrived. Requests that overlap may pass together, since counting and recording are
  two statements.
- `AttemptsGoOnRecord`: an attempt that was answered is on record, as long as it can
  count, whatever else fails, waits or purges. But for two kinds of requests, as the
  code has it: one whose own transaction failed, and a registration that lost its race,
  whose rollback (line 460) takes the record away. Then the winner it met is on record.

`auth_resets` - up to four requests on one account: three forgot-passwords, two
resets with either password, one login, one use and one end of a session; old
password hashes. Four requests are enough for two tokens, or a token and a session,
and two transactions that meet over them, among them the deadlock of two requests
that update the same tokens in different orders. The clock stands still: nothing
here depends on expiry, which `auth_attempts` covers.

- `ResetEndsEarlierSessions`: no session whose login was over when the reset arrived
  survives its commit.
- `EndedSessionsStayEnded`: `/me` never accepts a session after a logout or a reset
  that should have ended it is committed - provided its login was over when those
  arrived, for a client is answered before its session is stored and may log out
  of one that is not there yet. The session of a login that overlaps a reset stays
  open, and so does one whose logout was acknowledged and then failed to commit.
- `AcceptedTokensAreTheLatest`: when a reset accepts its token, nobody has used it, and
  no request or reset that arrived after its issue has invalidated it - whoever
  committed by then, also while the reset was under way. Two resets that both look
  before either commits are both accepted (see below).
- `PasswordIsTheLastReset`: a reset's password stays until another reset; the one
  exception is a login that overlapped it (next: `auth_rehash`).
- `EveryRequestEnds`: whatever waits for whatever, every request is over in the end.
  Fairness: `WF(Handle(r))` per request, since an admitted request has a thread of
  the pool and PostgreSQL wakes a waiting statement when its lock is freed; a
  deadlock is found by `deadlock_timeout`. No fairness for arrivals, failures, time.

Deadlock checking is off for the auth runs: their requests are finitely many.

`fibonacci` - a market with a weekly close (six ticks open, one closed), seven candles
of the shapes of `Outside`, at most one of them received late or never. A swing takes
three candles, so the longest series has five; impulses leave the look-back of the
newest candles; a candle may go beyond B or A before ones that are known already; a
gap of the market is told from a gap of the data, and the data is unfit at some
instants. Both ways of closing a gap occur.

- `StructureIsNotRepainted`: a confirmed pivot stays, and later pivots change the last
  swing at most.
- `SwingsAreRunExtremes`: the loop of `swing_points` against its definition, with holes.
- `ActiveImpulsesAreFound`: an impulse that was found is found at every later fit
  instant until a candle goes beyond its B, although the history, the look-back and
  the swings after it grow.
- `RecordsFollowEvidence`: a record rests on a candle that had been received, and
  those of an instance follow each other.
- `GapsCloseAtSuccession`: a gap closes when the first instance that can take over is
  born, and names it.
- `RecordsAreUpToDate`: after a fit instant the records agree with every candle known,
  whatever order they came in.
- `HistoryOnlyGrows`: nothing recorded changes; what is new is dated by the present.

`patterns` - series that begin in a given way (`AllSeries`: at least one for every
kind of figure, and trends for the candle patterns) and go on for three more
intervals with any of a few shapes or none, one candle missing at most; some series
have a candle received late or nobody knows when. A swing is confirmed by two candles
on either side (the code's default is three; one would not do, since it takes two for
a swing from before a breakout to be confirmed after it, as in `LateContactSeries`), so
prices go from one level to the next through the price between. The code's thresholds
need dozens of candles for one figure; `SmallReversal`, `SmallContinuation` and
`SmallDiamond` are thresholds with which each figure fits into about twenty and breaks
out, fails, expires, is exceeded or superseded within the three. The beginnings are
fixed because free series of that length are out of reach; what the figure is followed
by is not.

- `FiguresAreNeverRewritten`: evaluations are only added, later than the last, with
  the anchors it had and perhaps more, and none after one that ends the figure.
- `OnlyTwinsEndAReplay`: carrying the figures forward never fails, but for two
  candidates of one identity at one instant.
- `SupersededMeansOtherAnchors`: `update_instances` takes any refusal of an evaluation
  for a change of anchors; it is never anything else, but for a breakout lost to a
  swing that touched the figure late (`TouchedLate`: older than the breakout, confirmed
  after it; see below).
- `OperableWasReceived`: a claim is operable only if every candle of its figure that
  the detector could read had been received before the candle that broke out opened.
- `OperableWasOnRecord`: a claim is operable only if the figure was on record with the
  anchors it broke out with before the candle that broke out opened, if the detectors
  looked by then.
- `OperabilityIsSettled`: a claim that was made does not become operable, and stops
  being so only if its figure was touched late.
- `ReadingsAreNotRevised`: what was read off a candle stays as more candles close.
- `CandleClaimsAreSettled`: once its location was told, the claim of a candle pattern
  is what it will be.
- `TrendNeverFlips`: one candle never turns UPTREND into DOWNTREND or back, although
  swings enter at one end of the window and leave at the other.

`providers` - a client of each adapter and one with a quota, three attempts, candles
of four ticks with one of grace, a clock from 10 to 19 with midnight at 15, three
requests, one restart, one defective answer. Three requests are two retries, or a
retry and a second call; windows begin before what Kraken serves, end before now, have
no end or begin between two candles.

- `RequestsArePaced`: requests of one process keep the spacing, a Retry-After that is
  not too long is waited for, and a day's quota is exceeded only by restarts and by one
  request that was counted the day before and sent after its pause.
- `OkMeansComplete`: an answer called OK has no hole and every candle the provider must
  have published of what was asked for, whatever the limit, the horizon, the time the
  answer took and what was wrong with it.

`markets` - an instrument with two sources and two periods and one with none, pages of
two candles, three candles stored during the behaviour, two requests for older pages
in flight at once. Any navigation, refresh, error or answer may come at any moment.

- `StatusIsOfTheSelection`: what the page says of the series on screen (source,
  freshness, quality, gaps) is said of the one selected.
- `BusyMeansAsked`: it says that it is refreshing, or bringing an older page, only
  while that request is in flight. Otherwise the automatic refresh would never ask
  again.

Deadlock checking is off where clocks and requests end (auth, `fibonacci`, `patterns`,
`providers`).

Four runs end in a counterexample.

- `scanner_hole`, a sentence of the scanner's docstring: "so a sleeping host leaves no
  hole in the history". With a source whose limit counts the candle in progress,
  missing = `recent` - 1, and the newest closed candle published within the grace, the
  answer holds `recent` - 1 closed candles and the one right after the newest stored is
  skipped for good. One scanner, no fault, the answer in the same instant as the plan.
- `auth_rehash`, the test `test_auth_email_flows.py:177`: "old password no longer works,
  new one does". A login whose hash `needs_rehash` writes back the password it
  verified; the write goes by primary key, so if a reset commits between the login's
  SELECT and its flush, the flush waits for the row and then puts the old password
  back. In the run a later login with the old password is let in. It takes an account
  hashed with parameters that were changed since (`OldHashes`).
- `providers_unfinished`, the header of `binance_spot_rest.py` (18): "a candle is never
  delivered unless it is closed and valid". The adapters judge what has closed by a
  clock read after the answer arrived; a candle in progress when the provider computed
  it, whose period ends while the answer travels, is delivered with unfinished prices,
  and the store never overwrites it.
- `markets_mixed`, `markets.page.ts:441`: "Another series: never leave the previous one
  visible". While a series is loading, the one before is still in `series` and
  `candles`; a second load that resolves to the same key is taken for a refresh of what
  is on screen, and its answer is merged into the candles of the other series.

### Met while modelling, without a run

Where the code and its words differ and no run shows it:

- Cooldown (`candle_scanner.py:20-22`: "the first RATE_LIMITED answer ... puts the whole
  source in a cooldown"): it is opened after the commit of that answer's own
  transaction, so a database error there leaves none, and it counts from a clock read
  before the scan.
- `auth_service.py:460`: the comment of `RATE_LIMITS` (30-35) says that of registrations
  "every attempt counts". One that loses the race on its e-mail is rolled back, and its
  event with it: only the winner's is there to be counted. `AttemptsGoOnRecord` without
  its second disjunct fails.
- `auth_service.py:555-573`: `src/README.md:587` calls the token of a reset "un token de
  un solo uso". It is read without a lock and marked as used by key, so two resets that
  both read it before either commits both answer that the password was changed; the
  later commit wins. A request for a new token does not stop a reset that has read the
  old one either.
- `fibonacci_lifecycle.py:370`: an instance's `known_at` looks at B's confirmation only;
  `src/docs/domain/fibonacci-retroceso.md:85-89,475` says the latest arrival of every
  candle the impulse rests on. It can be earlier than the birth.
- `fibonacci_lifecycle.py:245-247`: what an unfit instant would have shown "appears when
  the data is fit again". Not if another pivot replaces the impulse's end before.
- `candlestick_location.py:498-507` and `localizacion-de-patron-de-vela.md` section 3: a
  new evaluation is dated when it became knowable; the code can then refuse it with
  "evaluations move strictly forward in time" (225-230, 479-488), if an earlier one
  was told later.
- `pattern_detection.py:994-1078`: two rounding apexes over one left end have one
  identity; at one instant the second is refused, and so is the evaluation that would
  close it, so `InvalidPatternError` ends the replay (`OnlyTwinsEndAReplay`).
- `pattern_channel.py:187-193`: `left_the_lines` looks for a close beyond the lines up
  to the new last contact and no further. A swing older than a breakout and confirmed
  after it becomes a contact that moves the line, and the breakout is gone: the figure
  is refused and ends SUPERSEDED, or the claim that was LIVE becomes RETROSPECTIVE. The
  docstring of `grow_channel` (212-215) says that a new last contact "must never make it
  look as if it had not been one", and so does
  `src/docs/domain/detectores-de-continuacion.md` section 3. It takes K of two or more
  and happens in run `patterns`: without the disjunct `TouchedLate`
  `SupersededMeansOtherAnchors` and `OperabilityIsSettled` fail.
- `pattern_diamond.py:158-170`: the docstring of `DiamondDetector.detect` says "a candle
  that arrives late leaves a hole (the data is not fit) until it does". What is fit is
  judged of the newest `min_history` candles only (`market_context.py:198`), 100 by
  default, and a diamond may be 200 old: one with a candle not received among the older
  ones is found all the same, called LIVE, and its claim OPERABLE. `LateHoleSeries` of
  run `patterns` is one; `OperableWasReceived` without `MayRead` in `MadeOf` fails for it.
- `twelve_data_rest.py:460-483`: a request is counted before its pause and may be sent
  the next day, where it is not counted: one request over the quota. A Retry-After
  received by a last attempt is not kept for the next call.
- `markets.page.ts:361`: the error of an older page is not told apart by series, so it
  re-enables the button while another page of the series shown is on its way, and the
  same page can be put before the candles twice; so can one whose series was left and
  chosen again. A second load that fails leaves the page "loading" (493-500). A refresh
  after more than a page of new candles leaves a hole on screen that nothing marks.

Bounds, all named constants: `MaxTime`, `StartTime`, `MaxFaults`. `MaxTime` also
keeps a rate-limited answer from coming so late that its cooldown outlives the
clock (`Fail`), which liveness needs and safety does not. For series, `Horizon`
(the last tick), `MaxDelayed` (candles late or missing), `Further` and `MaxMissing`.
For clients, `MaxRequests`, `MaxRestarts`, `MaxDefects`. For the page, `MaxStored` and
`MaxOlder`.

## 4. What is proved

For any sets of scanners, sources and series, any targets, limits, horizons,
budgets, cooldowns and clock, from `PeriodAssumption` (a candle lasts at least a
tick and longer than the grace), `ValuesAssumption` and `ScannerAssumption`:

| Theorem | Module | Says |
|---|---|---|
| `TypeCorrect` | `CandleScannerProofs` | `Spec => []TypeOK` |
| `MutualExclusion` | `CandleScannerProofs` | `Spec => []NeverFetchedTogether` |
| `FreshnessCovers` | `CandleScannerProofs` | `Spec => []RecordedSuccessCoversCandles` |
| `RowsMoveForward` | `CandleScannerProofs` | `Spec => AttemptsMoveForward` |
| `ScannersKeepLedgers` | `CandleScannerProofs` | `Spec => SeriesAreLedgers` |
| `CooldownsAreKept` | `CandleScannerProofs` | `Spec => []QuietWhileCoolingDown` |
| `HolesHaveCauses` | `CandleScannerProofs` | `Spec => SkippedOnlyWithCause` |

The argument. None of the properties is inductive. `HoldsItsLock` (a scanner at
`answer` or `commit` holds the lock of its series) is, and gives mutual exclusion,
since a lock has one holder. `Dated` adds that what is stored had closed at the
row's date (`RowsDated`), that an answer in hand is not older than the row of its
series (`AnswersDated`: only the holder of the lock writes the row) and that it holds no candle that
had not closed (`Honest`); it gives freshness, the dates and, action by action, the refinement:
every commit is a `Record` of its series, every other step a stutter. For holes,
`ScansDated` (a plan's clock is not in the future), `AnswersComplete` (an answer
to a catch-up's page holds all of the page but what is out of reach or omitted)
and `PlansGrounded` (everything between the newest candle a plan saw and the
cursor is stored, out of reach or omitted; a single request, if answered in time,
reaches back to that candle) say why storing an answer leaves nothing unexplained
behind it. Each was first checked by TLC as an invariant of a run.

For any number of requests, accounts, passwords and clients, any limits, lifetimes
and number of failures, from `AuthAssumption`:

| Theorem | Module | Says |
|---|---|---|
| `TypeCorrect` | `AuthServiceProofs` | `Spec => []TypeOK` |
| `AccountsAreThere` | `AuthServiceProofs` | `Spec => []AcknowledgedAccountsExist` |
| `ResetsEndSessions` | `AuthServiceProofs` | `Spec => []ResetEndsEarlierSessions` |
| `SessionsStayEnded` | `AuthServiceProofs` | `Spec => []EndedSessionsStayEnded` |
| `TokensAreTheLatest` | `AuthServiceProofs` | `Spec => AcceptedTokensAreTheLatest` |
| `PasswordsAreTheLastReset` | `AuthServiceProofs` | `Spec => []PasswordIsTheLastReset` |
| `LimitsAreKept` | `AuthServiceProofs` | `Spec => []LimitsHold` |
| `AttemptsAreRecorded` | `AuthServiceProofs` | `Spec => []AttemptsGoOnRecord` |

`TypeOK` is not inductive: that a committed row is named after a request of its kind
needs `Shape`, which ties what a transaction may write, and where its handler may be,
to the endpoint (`Shaped` = `TypeOK` and every request's `Shape`). The others
share three lemmas: a step of one request leaves every other's place, transaction
and answer alone (`OthersStay`); what a request carries is fixed once it has arrived
(`ArrivedStays`); committed rows change at a commit only (`RowsChangeAtCommit`).
`Accounts` says of an acknowledged registration that it failed, has its account
in its transaction, or finds it in the table, which never shrinks.

The rest is about requests that were over when another arrived, and rests on
`History`: what was over is over, and a session or token belongs to a request that
was committed, for its account. From it follows once and for all
that such a request gets no new row, and that its rows stay, and stay closed
(`EarlierStays`). Each theorem then has an invariant about a request under way:

- `Ledger`: how far a reset or a logout has got with a session it is due to close
  (`Handled`: in the statement's targets, held, or closed), what it is due to close
  having been fixed when it arrived (`DueStays`); and that a session that lets a
  request in was not closed before that one came (`LetIn`).
- `Tokens`: the same for the tokens that a reset or a request for a new one makes
  void (`Voiding`), and for the token a reset was sent, which is closed when the reset
  commits (`Spending`). So whoever has committed and used or invalidated a token has
  closed its row (`OutdatedIsClosed`), and a reset accepts open rows only. A token that
  two resets read before either commits is outside the statement: both succeed.
- `Hashes`, on top of `Tokens`: a transaction has an account's hash in hand only while
  it may write it, and a new account only while it alone holds the identifier
  (`Pending`); a reset that is over is the account's password, or somebody came after
  it or beside it (`Kept`); and no login that came after it has an old hash to renew
  (`Unrenewed`), which is why only a login beside the reset is excused.
- `Record`: an attempt that counts goes on record with its transaction and is kept as
  long as it can be in anybody's window (`Recorded`, from Retention being no shorter
  than a window); so a request that was let in had fewer attempts before it than the
  limits (`Within`), by comparing cardinalities when it arrives (`AdmittedWithin`).
- `Races`, on top of `Record`: a registration that finds its identifier taken, or was
  rolled back for that, overlapped a registration of the same identifier that committed
  (`Winner`), for it found no account when it looked; a winner remains one
  (`WinnerStays`). With `Recorded` it gives `AttemptsGoOnRecord`.

For any market, any shapes of candles, any parameters and any order and delay of
arrivals, from `PeriodAssumption`, `PivotAssumption` and `SeriesAssumption`:

| Theorem | Module | Says |
|---|---|---|
| `TypeCorrect` | `FibonacciProofs` | `Spec => [](TypeOK /\ Grounded)` |
| `EvidenceComesFirst` | `FibonacciProofs` | `Spec => []RecordsFollowEvidence` |
| `RecordsAreFinal` | `FibonacciProofs` | `Spec => HistoryOnlyGrows` |
| `GapsCloseInTime` | `FibonacciProofs` | `Spec => []GapsCloseAtSuccession` |
| `RecordsKeepUp` | `FibonacciProofs` | `Spec => []RecordsAreUpToDate` |
| `ImpulsesAreFoundAgain` | `FibonacciProofs` | `Spec => []ActiveImpulsesAreFound` |
| `SwingsAreExtremes` | `FibonacciProofs` | `Spec => []SwingsAreRunExtremes` |
| `StructureStays` | `FibonacciProofs` | `Spec => StructureIsNotRepainted` |

`Grounded` (the two candles of every instance are known, so later candles never
change its prices) is what makes the last two inductive: whether one instance takes
over from another is fixed once both are known (`TakingOverStands`). That the code
picks the first candle of a list is `Min` of a set of indices, which exists by
`LeastNatural`; that a newborn's candles are all known comes from the definition of a
confirmed pivot (`ImpulsesAreConfirmed`). `Receiving` and `Following` say what an
instant does to the candles and to the records; each theorem then takes the three
kinds of tick in turn. Nothing is assumed about which impulses the search finds, so
the first five hold for any search that finds impulses between confirmed pivots.

The last three are about what the search reads, and rest on `MarketStructureProofs`. A
pivot is confirmed by the K candles on either side of it, so a series that goes on to
the right keeps its confirmed pivots and adds later ones (`ConfirmedPivotsStay`), and so
with the pivots that stand alone on their candle (`SinglesStay`). Candles that arrive in
order do go on to the right (`ArrivingInOrder`, for `InOrder` is handed back to the past).
Then an impulse of the series as it was is one as it is, unless a later candle went beyond
its end (`ImpulsesStay`); the invariant `Searched` says of what is active that it was
found in a beginning of the series (`Foundations`), which gives `ImpulsesAreFoundAgain`.

The swings are made by recursion over the candles. The library's induction takes an
operator, which the provers cannot instantiate; a set of naturals does as well
(`AllNaturals` of `BasicLemmas`, from the least element of its complement). `LoopExists` builds the
recursive function, and `Built` is its invariant: the swings so far are the extremes of
the runs of the pivots so far and they alternate; a pivot begins a run (`RunBegins`) or
goes on with the last (`RunGoesOn`). `SwingsStay` follows the two loops, over the old
pivots and over all, which are one up to the last pivot of old; after it only the
last swing moves.

For any clients, spacing, quota, backoff, Retry-After, timeout, attempts, day and number
of restarts, from `ClientAssumption` and `PeriodAssumption`:

| Theorem | Module | Says |
|---|---|---|
| `ProvidersAreAskedAtTheAgreedPace` | `ProviderProofs` | `Spec => []RequestsArePaced` |
| `OkAnswersAreComplete` | `ProviderProofs` | `Spec => []OkMeansComplete` |

`PaceOK` says what the process remembers of its last request (`LastOK`: it is the last
sent, if this process sent one), when a pause ends (`PauseOK`) and that a promised wait
is over before an attempt begins (`PatienceOK`). For the quota the number of requests
sent is not bounded by what is counted: a request is counted before its pause and sent
after it, perhaps the next day. `DaysOK` therefore counts, for today, what is sent and
what waits against what restarted processes may have sent, what this one counted and
one more; a day that is over keeps the bound (`TickKeepsQuota`).

`AnswerOK` says that what is on its way answers the request in flight, with rows of the
provider's candles for it, whatever is wrong with them. The rest is about one answer:
what is kept of its rows is a subsequence in order (`KeptAreRows`), the window of a
request is within what the provider serves (`WindowBounds`), the candles that must be
there are those of a window cut at the limit and the horizon (`ExpectedIs`). A batch
without an issue misses none of them (`NothingIsMissing`, `NoIssueMeansComplete`), since
a hole between two rows, at the beginning or at the end is an issue of its own; so an
answer called OK holds all of them (`OkBatchIsComplete`), and the candles that had
closed when it was computed are among those (`ServedAreRows`).

For any instruments, sources, periods, page size and number of requests in flight:

| Theorem | Module | Says |
|---|---|---|
| `WhatIsSaidIsOfTheSelection` | `MarketsPageProofs` | `Spec => []StatusIsOfTheSelection` |
| `NeverBusyWithNothing` | `MarketsPageProofs` | `Spec => []BusyMeansAsked` |

`Coherent` adds that a series awaited is the one selected and that while a detail is
awaited nothing can be asked for beside it (`LoadOK`), which is why an older page never
waits for an answer that would be dropped. `OthersRemain` says that removing one
request from those in flight leaves the others.

For any series the candles may begin with, any candles that follow, any thresholds of
the detectors and any set of figures and patterns looked for, from `ReplayAssumption`,
`DetectionAssumption`, `PeriodAssumption` and `PivotAssumption`, and for the trend
`TrendAssumption`:

| Theorem | Module | Says |
|---|---|---|
| `ReplayIsConsistent` | `CandleReplayProofs` | `CandleSpec => []ReplayInv` |
| `OnlyTwinsEnd` | `CandleReplayProofs` | `CandleSpec => []OnlyTwinsEndAReplay` |
| `OperableClaimsWereReceived` | `CandleReplayProofs` | `CandleSpec => []OperableWasReceived` |
| `FiguresStayAsTold` | `CandleReplayProofs` | `CandleSpec => FiguresAreNeverRewritten` |
| `ReadingsStand` | `CandleReplayProofs` | `CandleSpec => ReadingsAreNotRevised` |
| `ClaimsStand` | `CandleReplayProofs` | `CandleSpec => CandleClaimsAreSettled` |
| `TrendStands` | `CandleReplayProofs` | `CandleSpec => TrendNeverFlips` |

`ReplayInv` says what the replay holds at an instant: candles of the past in order
(`ClosedOK`), figures that are sequences of valid evaluations, each later than the one
before it and read from what had closed at its own instant (`FiguresOK`), and locations of patterns
that these candles contain (`PlacesOK`). That the figures are such takes every detector
in turn: each gives valid evaluations of the instant, with as many anchors as a figure
of the kind needs, in order (`AllFound`, up to `DetectedAreFound`), the diamond's search
included, whose recursion over the swings is followed like the loop of the swings above.
`update_instances` takes them one by one, and each round leaves every history as it was
or adds to its end (`UpdatedGoOn`), which is `FiguresAreNeverRewritten`.

That carrying them forward fails only for twins (`OnlyTwinsEnd`) is what is left of its
errors. No candidate is refused when it is built. A figure of which nothing was said at
this instant can be ended or paused, whatever its state (`ClosingMayFollow`), by an
evaluation that is valid itself (`ClosingIsValid`): it says no less than the last was
said to have read, since what a detector may read only grows (`BasisLasts`; the
diamond's arrivals included). So the only figure that can be neither continued nor ended
is one of which something was said at this instant already, by an earlier candidate of
the same identity (`CandidateIsTaken`).

That an operable claim had been received (`OperableClaimsWereReceived`) needs one more
invariant beside `ReplayInv`: every evaluation on record whose breakout is called LIVE
is made of candles that were received before the breakout's candle opened
(`AllReceived`). It is so when a detector finds it, the diamond included, which may hold
a figure back: it is then LIVE only if the breakout opened after the hold ended, and a
hold is one only if it ended later than the candles came (`TimingIsReceived`,
`HeldIsInstant`). `update_instances` adds nothing to a figure but
what was found and evaluations without a breakout (`EvaluatedComeFrom`). And it stays
so, because a later candle closes after all that the figure was confirmed by
(`ReceivedLasts`). Then, over the loop of `hypothesis_for`, an operable claim was read
from such an evaluation or repeats an earlier claim that was (`ReadingIsTaken`).

A pattern that ends at a candle is read from that candle and those before it, so a
series that goes on to the right keeps the patterns it had (`PatternsStay`); and an
identity is that of one instant (`PatternsAreTold`). The location of a pattern is told
from its own instant on (`LocatedWithin`), and what is added to it is later than
what it had, so what was told as of that instant is what is told ever after
(`PlaceGoesOn`), and the claim, which reads nothing else, stands.

The trend is read from a window, and a window that moves by a candle wins it and may
lose its first (`NewestMove`), so `SwingsStay` does not apply. The two loops over the
pivots are run side by side (`SwingsMove`): the pivots are the same but for the
earliest, that of a candle that left, and the latest, that of the candle that K more
have now followed. Without the earliest pivot the swings lose their first, or its place
goes to a later pivot that is no further out (`Cut`, which every further pivot keeps,
`CutGoesOn`); the latest adds a swing, takes the place of the last, or changes nothing
(`Taken`). A trend means that the last two swings of each side climb (`TrendClimbs`;
here four swings at least and a threshold above zero are needed), and what was cut and
taken cannot turn both sides (`NoFlip`).

Only model-checked, each for its reason. `OperableWasOnRecord`, `OperabilityIsSettled`
and `SupersededMeansOtherAnchors` say what the detectors find again of a figure they
found before, so they need the detectors' choices and not only the form of what they give;
`EventuallyUpToDate` and `EveryRequestEnds` are liveness under fairness, outside the
prover's reach. The counterexamples are TLC's.


## 5. Plan

In order; each module joins an existing run where it can, so that each run keeps
asking one question of the system, and (P) marks proofs.

1. `ContextSnapshots`: insert-once by content with concurrent writers.
2. The operator's command as a writer without the lock, and `backfill_candles`,
   composed with the store.
3. `CsrfToken`: answers out of order in the browser's session.
4. `ScannerService`: stop with a timeout against a pass in progress.
5. The read API: a page of a series read in several statements.
6. `observe` and the levels of `domain/fibonacci.py`; `domain/trend_policy.py`.

## 6. Not modelled, and why

Parts of the plan above are not modelled yet: context snapshots, the candle command
and backfill, the session of the browser, the service's stop, the read API, the
levels of a Fibonacci, the trend policy, indicator availability.

Of the parts that are modelled: the evidence of figures and patterns is its codes, so
nothing is said of the numbers in it; volume is whether a breakout had any to compare;
daylight saving and the named sessions of `domain/market_calendar.py` are left out
(the analysis sees a schedule of open and closed ticks). The evaluations after the
first that `candlestick_pattern.py` would allow of a candle pattern are left out, for
nothing creates them. The chart library, the list of instruments and its filters are
left out of the markets page.

Cryptography, SMTP, cookies (`core/security.py`, `core/email.py`,
`core/cookies.py`): no state of their own. The catalog, capability, provider and
execution-context services: reads of seeded tables. Migrations and seeds: data.
Configuration, logging, health: no behaviour over time. Landing, login and other
form pages: presentation. `src/scripts/quality.py`: a developer tool.
