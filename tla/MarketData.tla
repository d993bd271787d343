----------------------------- MODULE MarketData -----------------------------
(***************************************************************************)
(* The rules of domain/market_data.py that every other part relies on:     *)
(* which candles are closed, which one must already be available, and how  *)
(* good an answer or a series is.                                          *)
(*                                                                         *)
(* Time is counted in ticks; a candle lasts Duration ticks and candle i    *)
(* covers the ticks [i * Duration, (i + 1) * Duration).  A candle is       *)
(* named by its index, so an open_time of the code is index * Duration     *)
(* and "step" is 1.                                                        *)
(***************************************************************************)
EXTENDS Integers, FiniteSets

CONSTANTS
    Duration,   \* ticks in one candle: timeframe.duration
    Grace       \* ticks a provider gets to publish a closed candle

\* The code's periods are one minute and longer, the grace is ten seconds.
ASSUME PeriodAssumption ==
    /\ Duration \in Nat \ {0}
    /\ Grace \in Nat
    /\ Grace < Duration

-----------------------------------------------------------------------------
(* The time grid *)

\* Timeframe.floor: the candle that is forming at time t.
Floor(t) == t \div Duration

\* The newest candle whose close_time is not after t.
NewestClosed(t) == Floor(t) - 1

\* newest_expected_open: the newest candle that must be available at t, the
\* last one that closed at least Grace ago.
NewestExpectedOpen(t) == Floor(t - Grace) - 1

-----------------------------------------------------------------------------
(* Quality of an answer *)

InformationalIssues == {"OPEN_CANDLE_EXCLUDED"}

DegradingIssues ==
    {"DUPLICATE_DROPPED", "OUT_OF_ORDER", "GAP", "INCOMPLETE_RANGE", "STALE",
     "INSTRUMENT_NOT_TRADING", "REVISED_CANDLE", "PROVIDER_FAILING"}

FailureIssues ==
    {"RATE_LIMITED", "TIMEOUT", "PROVIDER_ERROR", "INVALID_RESPONSE",
     "SYMBOL_MISMATCH", "NO_DATA"}

QualityIssueCode == InformationalIssues \cup DegradingIssues \cup FailureIssues

DataQuality == {"OK", "DEGRADED", "UNAVAILABLE"}

\* quality_from_issues: one failure makes the answer worthless, anything that
\* is not merely informational degrades it.
QualityFromIssues(codes) ==
    IF codes \cap FailureIssues # {} THEN "UNAVAILABLE"
    ELSE IF codes \ InformationalIssues # {} THEN "DEGRADED"
    ELSE "OK"

=============================================================================
