--------------------------- MODULE MarketContext ----------------------------
(***************************************************************************)
(* Whether the candles Freyja holds of a series are fit to be read at an   *)
(* instant (domain/market_context.py): enough of them, none missing that   *)
(* the market should have traded, the newest recent enough.  The candles   *)
(* are a set of indices; all of them had closed when they were received    *)
(* and no index occurs twice, so the reasons INVALID_CANDLES and           *)
(* DEGRADED_DATA of the code cannot arise.                                 *)
(***************************************************************************)
EXTENDS MarketData, MarketCalendar

CONSTANT Authorized   \* the source of the series is one Freyja may use

ASSUME SourceAssumption == Authorized \in BOOLEAN

MissingDataReason ==
    {"SOURCE_NOT_AUTHORIZED", "SCHEDULE_UNKNOWN", "NO_DATA",
     "INSUFFICIENT_HISTORY", "STALE_DATA", "GAPS_IN_WINDOW"}

-----------------------------------------------------------------------------

OpenTime(i) == i * Duration
CloseTime(i) == (i + 1) * Duration

\* The newest n of the candles that are held: closed[-n:].
Newest(held, n) == {i \in held : Cardinality({j \in held : j > i}) < n}

\* _gaps_in_window: candles missing between two of the window that the market
\* was open for.
GapsInWindow(window) ==
    {i \in UNION {a .. b : a, b \in window} :
        i \notin window /\ IsExpectedOpen(OpenTime(i))}

\* _is_fresh: the newest candle is the one that had to exist, judged at the
\* last close while a weekly market is closed.
IsFresh(held, t) ==
    LET reference ==
          IF Schedule = "FOREX_WEEKLY" /\ ~IsForexOpen(t)
          THEN LastForexClose(t) + Grace ELSE t
    IN  \E i \in held : i >= NewestExpectedOpen(reference)

\* build_observable_context: why the candles held at t are not sufficient;
\* nothing is looked at if the source or its hours are not known.
MissingDataReasons(held, t, minHistory) ==
    IF ~Authorized THEN {"SOURCE_NOT_AUTHORIZED"}
    ELSE IF Schedule = "BROKER_DEFINED" THEN {"SCHEDULE_UNKNOWN"}
    ELSE IF held = {} THEN {"NO_DATA"}
    ELSE {reason \in MissingDataReason :
            \/ /\ reason = "INSUFFICIENT_HISTORY"
               /\ Cardinality(held) < minHistory
            \/ /\ reason = "GAPS_IN_WINDOW"
               /\ GapsInWindow(Newest(held, minHistory)) # {}
            \/ /\ reason = "STALE_DATA"
               /\ ~IsFresh(held, t)}

=============================================================================
