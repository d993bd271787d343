---------------------------- MODULE CandleStore -----------------------------
(***************************************************************************)
(* What repositories/market_data_repository.py does to one stored series:  *)
(* its candles, a function from the candle's index to the values the       *)
(* provider gave for it, and its row of freyja2_market_data_sync_state.   *)
(* A series is one SeriesKey (source, instrument, timeframe), so no        *)
(* operator here ever sees two of them.                                    *)
(***************************************************************************)
EXTENDS MarketData

CONSTANT Values   \* what a provider can report as the prices of one candle

ASSUME ValuesAssumption == Values # {}

\* No moment: last_success_at of a series that never succeeded, and
\* last_attempt_at of one that has no row at all.
Never == -1

NoCandles == [i \in {} |-> i]

\* A stored series, or the candles of one answer.
IsCandles(f) == DOMAIN f \subseteq Nat /\ f \in [DOMAIN f -> Values]

SyncState == [attempt : Nat \cup {Never}, success : Nat \cup {Never},
              status : DataQuality, failures : Nat]

\* The row does not exist: the first upsert writes failures = 0 or 1, as if
\* it added to zero.
NoSyncState == [attempt |-> Never, success |-> Never, status |-> "OK", failures |-> 0]

-----------------------------------------------------------------------------
(* Reading *)

\* get_latest_candle: ORDER BY open_time DESC LIMIT 1.
IsLatest(i, stored) == i \in DOMAIN stored /\ \A j \in DOMAIN stored : j <= i

-----------------------------------------------------------------------------
(* Writing *)

\* Mistake: ON CONFLICT DO UPDATE, the newest report wins.
OverwriteCandles(stored, batch) ==
    [i \in DOMAIN stored \cup DOMAIN batch |->
        IF i \in DOMAIN batch THEN batch[i] ELSE stored[i]]

\* insert_candles: INSERT ... ON CONFLICT DO NOTHING, what is stored wins.
InsertCandles(stored, batch) ==
    [i \in DOMAIN stored \cup DOMAIN batch |->
        IF i \in DOMAIN stored THEN stored[i] ELSE batch[i]]

\* The candles of the batch whose stored values differ: InsertOutcome.revised.
Revised(stored, batch) ==
    {i \in DOMAIN stored \cap DOMAIN batch : stored[i] # batch[i]}

\* Mistake: a degraded answer does not count as a success.
RecordPerfectAttempt(row, attemptedAt, status) ==
    [attempt |-> attemptedAt,
     success |-> IF status = "OK" THEN attemptedAt ELSE row.success,
     status |-> status,
     failures |-> IF status = "OK" THEN 0 ELSE row.failures + 1]

\* record_sync_attempt: the upsert of the series' row.
RecordSyncAttempt(row, attemptedAt, status) ==
    IF status # "UNAVAILABLE"
    THEN [attempt |-> attemptedAt, success |-> attemptedAt,
          status |-> status, failures |-> 0]
    ELSE [row EXCEPT !.attempt = attemptedAt,
                     !.status = status,
                     !.failures = @ + 1]

\* sync_candles, after the provider answered: what the answer's issues are
\* once the stored values have been compared with it.
SyncIssues(issues, stored, batch) ==
    IF Revised(stored, batch) # {} THEN issues \cup {"REVISED_CANDLE"} ELSE issues

=============================================================================
