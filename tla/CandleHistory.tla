--------------------------- MODULE CandleHistory ----------------------------
(***************************************************************************)
(* What the store promises about its series (ADR 0003), with nothing of    *)
(* how they are filled: each is a ledger of closed candles that only       *)
(* grows, whose entries never change, dated by a moment that never moves   *)
(* back.  Ledgers are written one at a time.                               *)
(***************************************************************************)
EXTENDS CandleStore

CONSTANT Series

VARIABLES
    history,   \* [Series -> the candles recorded so far]
    asOf       \* [Series -> the moment the ledger is good for, or Never]

ledgers == <<history, asOf>>

Init ==
    /\ history = [s \in Series |-> NoCandles]
    /\ asOf = [s \in Series |-> Never]

\* Some candles that had closed at the new moment are written down; a batch
\* may bring nothing new, and entries already there keep their values.
Record(s) ==
    /\ asOf'[s] \in Nat
    /\ asOf'[s] >= asOf[s]
    /\ IsCandles(history'[s])
    /\ DOMAIN history[s] \subseteq DOMAIN history'[s]
    /\ \A i \in DOMAIN history[s] : history'[s][i] = history[s][i]
    /\ \A i \in DOMAIN history'[s] : i <= NewestClosed(asOf'[s])
    /\ \A r \in Series \ {s} : history'[r] = history[r] /\ asOf'[r] = asOf[r]

Next == \E s \in Series : Record(s)

Spec == Init /\ [][Next]_ledgers

=============================================================================
