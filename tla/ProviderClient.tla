--------------------------- MODULE ProviderClient ----------------------------
(***************************************************************************)
(* The REST adapters of infrastructure/market_data: one call after another *)
(* (a client serves one caller), each of bounded attempts with a backoff,  *)
(* a Retry-After that is waited for or not, a pause between requests and,  *)
(* for Twelve Data, a daily quota counted in memory.  What the provider    *)
(* answers is computed at some instant of a request and read by the client *)
(* at a later one.                                                         *)
(*                                                                         *)
(* Time passes while the client sleeps, waits for an answer or is not      *)
(* called; what it does between takes none.  The clock it reads and the    *)
(* monotonic one go together.                                              *)
(***************************************************************************)
EXTENDS CandleAnswer

CONSTANTS
    Clients,        \* the clients looked at, each a client of one provider
    MaxAttempts,    \* max_attempts
    BackoffBase,    \* backoff_base_seconds
    BackoffMax,     \* backoff_max_seconds
    MaxRetryAfter,  \* max_retry_after_seconds
    RetryAfters,    \* seconds a 429 may name: Retry-After
    Timeout,        \* timeout_seconds
    Day,            \* ticks of a UTC day
    StartTime,      \* bound: the clock when the client is built
    MaxTime,        \* bound: the clock stops here
    MaxRequests,    \* bound: no call is made once so many requests were sent
    MaxRestarts,    \* bound: restarts of the process
    MaxDefects      \* bound: answers with something wrong in them

\* A client: what its adapter does differently, and the requests it is sent.
IsClient(client) ==
    /\ client.family \in {"BINANCE", "KRAKEN", "TWELVEDATA"}
    /\ client.spacing \in Nat          \* min_request_interval_seconds; Binance has none
    /\ client.quota \in Nat            \* daily_quota; 0 is no quota
    /\ client.history \in Nat \ {0}    \* HISTORY_CANDLES, of Kraken
    /\ client.maxLimit \in Nat \ {0}   \* limits.max_candles_per_request
    /\ \A r \in client.requests : r.kind = "candles" =>
          /\ r.limit \in Nat
          /\ r.start \in Seq(Int) /\ Len(r.start) <= 1    \* start, <<>> when None
          /\ r.end \in Seq(Int) /\ Len(r.end) <= 1        \* end

ASSUME ClientAssumption ==
    /\ \A client \in Clients : IsClient(client)
    /\ MaxAttempts \in Nat \ {0}
    /\ {BackoffBase, BackoffMax, MaxRetryAfter, MaxTime, MaxRequests, MaxRestarts,
        MaxDefects} \subseteq Nat
    /\ RetryAfters \subseteq Nat
    /\ {Timeout, Day} \subseteq Nat \ {0}
    /\ StartTime \in Nat /\ StartTime >= Duration + Grace

VARIABLES
    client,         \* the client, the same all along
    now,            \* the clock
    stage,          \* where its thread is
    request,        \* what it was asked for: get_closed_candles or metadata
    attempt,        \* attempt
    wakeAt,         \* when its sleep ends
    lastRequestAt,  \* _last_request_at, <<>> when None
    quota,          \* _Quota: used_on and used
    reply,          \* what the provider computed of the request in flight, <<>> before
    result,         \* what a call has just returned, <<>> otherwise
    sent,           \* history: the requests sent, when and by which process
    patience,       \* history: no retry before this instant was promised
    restarts,       \* history: the days the process was restarted on
    defects         \* answers with something wrong so far, for the bound

call == <<stage, request, attempt, wakeAt>>
vars == <<client, now, call, lastRequestAt, quota, reply, result, sent, patience,
          restarts, defects>>

Today == now \div Day

NoRequest == [kind |-> "none"]

-----------------------------------------------------------------------------

Init ==
    /\ client \in Clients
    /\ now = StartTime
    /\ stage = "idle" /\ request = NoRequest /\ attempt = 0 /\ wakeAt = 0
    /\ lastRequestAt = <<>>
    /\ quota = [on |-> -1, used |-> 0]
    /\ reply = <<>>
    /\ result = <<>>
    /\ sent = <<>>
    /\ patience = 0
    /\ restarts = <<>>
    /\ defects = 0

-----------------------------------------------------------------------------
(* Control of a call *)

\* _validate_request
IsValidRequest(r) ==
    /\ r.limit \in 1 .. client.maxLimit
    /\ \A start \in ToSet(r.start), end \in ToSet(r.end) : start < end

\* get_closed_candles and get_instrument_metadata; an invalid request raises.
Call ==
    /\ stage = "idle"
    /\ Len(sent) < MaxRequests
    /\ \E r \in client.requests :
          /\ r.kind = "candles" => IsValidRequest(r)
          /\ request' = r
    /\ stage' = "attempt" /\ attempt' = 1 /\ result' = <<>>
    /\ UNCHANGED <<client, now, wakeAt, lastRequestAt, quota, reply, sent, patience, restarts,
                   defects>>

\* The call returns.
Return(outcome) ==
    /\ stage' = "idle" /\ request' = NoRequest /\ attempt' = 0 /\ wakeAt' = 0
    /\ reply' = <<>> /\ patience' = 0
    /\ result' = <<[outcome |-> outcome, request |-> request, at |-> now]>>
    /\ UNCHANGED <<client, now, lastRequestAt, quota, sent, restarts, defects>>

\* The request leaves the client.
Send ==
    /\ stage' = "flight"
    /\ lastRequestAt' = <<now>>
    /\ sent' = Append(sent, [at |-> now, life |-> Len(restarts)])

\* _respect_request_spacing: how long is left of the pause.
PauseLeft ==
    IF lastRequestAt = <<>> THEN 0
    ELSE Max({0, lastRequestAt[1] + client.spacing - now})

\* The pause begins, or the request is sent at once.
AwaitSpacing ==
    IF PauseLeft > 0
    THEN stage' = "spacing" /\ wakeAt' = now + PauseLeft /\ UNCHANGED <<lastRequestAt, sent>>
    ELSE Send /\ wakeAt' = 0

\* _check_daily_quota: the count of the day it is.
QuotaToday == IF quota.on # Today THEN [on |-> Today, used |-> 0] ELSE quota

QuotaIsLeft == client.quota = 0 \/ QuotaToday.used < client.quota

\* An attempt begins: it is counted, and sent after the pause.
BeginAttempt ==
    /\ stage = "attempt"
    /\ QuotaIsLeft
    /\ quota' = IF client.quota = 0 THEN quota
                ELSE [QuotaToday EXCEPT !.used = @ + 1]
    /\ AwaitSpacing
    /\ UNCHANGED <<client, now, request, attempt, reply, result, patience, restarts, defects>>

\* The quota of the day is spent: nothing is sent.
RefuseOverQuota ==
    /\ stage = "attempt"
    /\ ~QuotaIsLeft
    /\ Return(Unavailable("RATE_LIMITED"))

EndPause ==
    /\ stage = "spacing"
    /\ now >= wakeAt
    /\ Send
    /\ wakeAt' = 0
    /\ UNCHANGED <<client, now, request, attempt, quota, reply, result, patience, restarts, defects>>

-----------------------------------------------------------------------------
(* An attempt that failed *)

\* _backoff
Backoff(n) == Min({BackoffBase * 2 ^ (n - 1), BackoffMax})

\* Another attempt after a sleep, unless this was the last one.
RetryAfter(code, delay, promised) ==
    IF attempt < MaxAttempts
    THEN /\ stage' = "backoff" /\ wakeAt' = now + delay /\ reply' = <<>>
         /\ patience' = promised
         /\ UNCHANGED <<client, now, request, attempt, lastRequestAt, quota, result, sent,
                        restarts, defects>>
    ELSE Return(Unavailable(code))

\* What may come instead of an answer, what it means and whether it is worth
\* another attempt.  Kraken and Twelve Data also fail inside an answer of status
\* 200 (_reported_error).
FailuresOf(family) ==
    {<<"TIMEOUT", TRUE>>,             \* no response in time
     <<"RATE_LIMITED", TRUE>>,        \* 429 without a Retry-After, or in an answer
     <<"PROVIDER_ERROR", TRUE>>,      \* the network, or a status of 500 and above
     <<"PROVIDER_ERROR", FALSE>>,     \* any other status
     <<"INVALID_RESPONSE", FALSE>>}   \* no JSON, or a rejection in an answer
    \cup IF family = "BINANCE" THEN {<<"RATE_LIMITED", FALSE>>} ELSE {}   \* 418: banned

\* The request is not answered by a result.
FailAttempt ==
    /\ stage = "flight"
    /\ \E failure \in FailuresOf(client.family) :
          /\ failure[1] = "TIMEOUT" => now >= Last(sent).at + Timeout
          /\ IF failure[2] THEN RetryAfter(failure[1], Backoff(attempt), 0)
             ELSE Return(Unavailable(failure[1]))

\* Mistake: the backoff is slept whatever the provider asked for.
BeRateLimitedBriefly ==
    /\ stage = "flight"
    /\ \E seconds \in RetryAfters :
          /\ seconds <= MaxRetryAfter
          /\ RetryAfter("RATE_LIMITED", Backoff(attempt), now + seconds)

\* 429 with a Retry-After: waited for, unless it is too long.  Without one it is
\* a failure like the others.
BeRateLimited ==
    /\ stage = "flight"
    /\ \E seconds \in RetryAfters :
          IF seconds > MaxRetryAfter THEN Return(Unavailable("RATE_LIMITED"))
          ELSE RetryAfter("RATE_LIMITED", seconds, now + seconds)

EndBackoff ==
    /\ stage = "backoff"
    /\ now >= wakeAt
    /\ stage' = "attempt" /\ attempt' = attempt + 1 /\ wakeAt' = 0
    /\ UNCHANGED <<client, now, request, lastRequestAt, quota, reply, result, sent, patience,
                   restarts, defects>>

-----------------------------------------------------------------------------
(* The provider *)

Row(i, value) == [at |-> i, value |-> value, readable |-> TRUE, aligned |-> TRUE]

\* The candles it serves for a request, oldest first, when the newest closed one
\* it has published is newest, perhaps with the one in progress.
ServedIndices(newest, withOpen) ==
    LET published == 0 .. IF withOpen THEN newest + 1 ELSE newest
        wanted == {i \in published : InWindow(request, OpenTime(i))}
        older(i) == Cardinality({j \in wanted : j < i})
        newer(i) == Cardinality({j \in wanted : j > i})
    IN  CASE client.family = "KRAKEN" ->
               {{i \in published : /\ i > newest - client.history
                                   /\ \A start \in ToSet(request.start) :
                                         OpenTime(i) >= start}}
          [] client.family = "BINANCE" ->
               {{i \in wanted : IF request.start # <<>> THEN older(i) < request.limit
                                ELSE newer(i) < request.limit}}
          [] client.family = "TWELVEDATA" ->
               {{i \in wanted : older(i) < request.limit}, {i \in wanted : newer(i) < request.limit}}

\* The rows it makes of them.  A candle it has published is final, the one in
\* progress is not.
ServedRows(served, newest) ==
    LET rows == [n \in 1 .. (newest + 2) |->
                    Row(n - 1, IF n - 1 > newest THEN "unfinished" ELSE "final")]
    IN  Kept(rows, {row \in ToSet(rows) : row.at \in served})

\* The same rows with one thing wrong: one is missing, told again (with the same
\* or other values), before the one it follows, unreadable or off the grid.
Defective(rows) ==
    UNION {{SubSeq(rows, 1, n - 1) \o SubSeq(rows, n + 1, Len(rows)),
            Append(rows, rows[n]),
            Append(rows, [rows[n] EXCEPT !.value = "revised"]),
            [rows EXCEPT ![n].readable = FALSE],
            [rows EXCEPT ![n].aligned = FALSE]} : n \in DOMAIN rows}

\* The provider computes its answer.
Compute ==
    /\ stage = "flight" /\ reply = <<>>
    /\ request.kind = "candles"
    /\ \E newest \in NewestExpectedOpen(now) .. NewestClosed(now), withOpen \in BOOLEAN :
          /\ withOpen => newest = NewestClosed(now)
          /\ \E served \in ServedIndices(newest, withOpen) :
                LET rows == ServedRows(served, newest)
                IN  \/ reply' = <<rows>> /\ UNCHANGED defects
                    \/ /\ defects < MaxDefects /\ defects' = defects + 1
                       /\ reply' \in {<<r>> : r \in Defective(rows)}
    /\ UNCHANGED <<client, now, call, lastRequestAt, quota, result, sent, patience, restarts>>

-----------------------------------------------------------------------------
(* The answer *)

ReceiveCandles ==
    /\ stage = "flight" /\ reply # <<>>
    /\ Return(CandleBatch(client, reply[1], request, now))

ReceiveMetadata ==
    /\ stage = "flight" /\ request.kind = "metadata"
    /\ \E pair \in {"trading", "halted", "other", "malformed"} :
          Return(MetadataResult(client, pair))

-----------------------------------------------------------------------------
(* The environment *)

\* A request in flight is given up when it times out, a sleep ends in time.
Tick ==
    /\ now < MaxTime
    /\ stage \in {"idle", "flight", "spacing", "backoff"}
    /\ stage \in {"spacing", "backoff"} => now < wakeAt
    /\ stage = "flight" => now < Last(sent).at + Timeout
    /\ now' = now + 1 /\ result' = <<>>
    /\ UNCHANGED <<client, call, lastRequestAt, quota, reply, sent, patience, restarts,
                   defects>>

\* The process is restarted: a new client.
Restart ==
    /\ Len(restarts) < MaxRestarts
    /\ restarts' = Append(restarts, Today)
    /\ stage' = "idle" /\ request' = NoRequest /\ attempt' = 0 /\ wakeAt' = 0
    /\ lastRequestAt' = <<>> /\ quota' = [on |-> -1, used |-> 0]
    /\ reply' = <<>> /\ result' = <<>> /\ patience' = 0
    /\ UNCHANGED <<client, now, sent, defects>>

-----------------------------------------------------------------------------

Next ==
    \/ Call \/ BeginAttempt \/ RefuseOverQuota \/ EndPause
    \/ FailAttempt \/ BeRateLimited \/ EndBackoff
    \/ Compute \/ ReceiveCandles \/ ReceiveMetadata
    \/ Tick \/ Restart

Spec == Init /\ [][Next]_vars

-----------------------------------------------------------------------------
(* Properties *)

\* _respect_request_spacing: "two requests are never closer than the configured
\* spacing", retries and calls one after another alike, while the process lives.
RequestsAreSpaced ==
    \A n \in 1 .. (Len(sent) - 1) :
       sent[n].life = sent[n + 1].life => sent[n + 1].at - sent[n].at >= client.spacing

\* _get_json: a Retry-After that is not too long is waited for before the next
\* attempt, whatever the backoff and the spacing say.
RetryAfterIsWaitedFor == stage = "flight" => Last(sent).at >= patience

\* _check_daily_quota: each process that runs on a day sends its quota at most,
\* and one more that was counted the day before and sent after its pause.
QuotaIsKept ==
    client.quota > 0 =>
       \A day \in 0 .. (MaxTime \div Day) :
          Cardinality({n \in DOMAIN sent : sent[n].at \div Day = day})
             <= client.quota * (1 + Cardinality({n \in DOMAIN restarts : restarts[n] = day})) + 1

\* The provider is asked no more and no sooner than was agreed.
RequestsArePaced == RequestsAreSpaced /\ RetryAfterIsWaitedFor /\ QuotaIsKept

Delivered == {r \in ToSet(result) : r.request.kind = "candles" /\ r.outcome.quality # "UNAVAILABLE"}

\* get_closed_candles and assess_candles: an answer that is called OK has every
\* candle the provider must have published of what was asked for, and no hole,
\* whatever the horizon, the limit, the time it took or what was left out of it.
OkMeansComplete ==
    \A r \in Delivered : r.outcome.quality = "OK" =>
       LET indices == DOMAIN r.outcome.candles
           published == 0 .. NewestExpectedOpen(r.at)
       IN  /\ GapsIn(indices) = {}
           /\ IsLatestRequest(r.request) => \E i \in indices : i >= NewestExpectedOpen(r.at)
           /\ r.request.start # <<>> =>
                 {i \in published : InWindow(r.request, OpenTime(i))} \subseteq indices

\* The header of each adapter: "a candle is never delivered unless it is closed and
\* valid".  What the provider reported of a candle still in progress is not.
OnlyFinishedCandlesAreDelivered ==
    \A r \in Delivered : \A i \in DOMAIN r.outcome.candles :
       r.outcome.candles[i] # "unfinished"

=============================================================================
