--------------------------- MODULE MarketCalendar ---------------------------
(***************************************************************************)
(* When a market is expected to publish candles (domain/                   *)
(* market_calendar.py).  The Forex week is a block of WeekOpen ticks that  *)
(* opens every Week ticks; tick 0 is an opening, Sunday 17:00 in New York. *)
(* Daylight saving, which makes two weeks a year one hour longer or        *)
(* shorter, and the named sessions, which decide nothing here, are left    *)
(* out.                                                                    *)
(***************************************************************************)
EXTENDS Integers

CONSTANTS
    Schedule,   \* the MarketSchedule of the series' instrument
    Week,       \* ticks from one weekly opening to the next
    WeekOpen    \* ticks from a weekly opening to the close that follows

MarketSchedule == {"CONTINUOUS_24_7", "FOREX_WEEKLY", "BROKER_DEFINED"}

ASSUME CalendarAssumption ==
    /\ Schedule \in MarketSchedule
    /\ WeekOpen \in Nat \ {0}
    /\ Week \in Nat
    /\ WeekOpen < Week

-----------------------------------------------------------------------------

\* From the opening, included, to the close, excluded.
IsForexOpen(t) == t % Week < WeekOpen

\* The most recent weekly close at or before t.
LastForexClose(t) ==
    Week * ((t - WeekOpen) \div Week) + WeekOpen

\* The code answers None for a schedule nobody supplied; the callers that ask
\* have refused that schedule before.
IsExpectedOpen(t) ==
    \/ Schedule = "CONTINUOUS_24_7"
    \/ Schedule = "FOREX_WEEKLY" /\ IsForexOpen(t)

=============================================================================
