---------------------------- MODULE CandleAnswer -----------------------------
(***************************************************************************)
(* What an adapter makes of the rows a provider answers with:              *)
(* assess_candles of domain/market_data.py and, before it, the parsing of  *)
(* infrastructure/market_data/{binance_spot,kraken_spot,twelve_data}_rest. *)
(*                                                                         *)
(* A row is about the candle "at"; it is "readable" if its fields parse    *)
(* and it spans one period, "aligned" if it opens on the grid; its value   *)
(* says which prices it reports.  A request has a limit and a start and an *)
(* end, each <<>> when it is not given.                                    *)
(***************************************************************************)
EXTENDS MarketData, Sequences, SequencesExt

OpenTime(i) == i * Duration
CloseTime(i) == (i + 1) * Duration

\* Is a candle that opens at t inside the window of a request?
InWindow(request, t) ==
    /\ \A start \in ToSet(request.start) : t >= start
    /\ \A end \in ToSet(request.end) : t < end

IsLatestRequest(request) == request.start = <<>> /\ request.end = <<>>

-----------------------------------------------------------------------------
(* assess_candles *)

\* The rows of a set, in the order they came in.
Kept(rows, chosen) ==
    FlattenSeq([n \in DOMAIN rows |-> IF rows[n] \in chosen THEN <<rows[n]>> ELSE <<>>])

\* The candles of rows that closed by t; candles in progress are not delivered.
ClosedBy(rows, t) == Kept(rows, {row \in ToSet(rows) : CloseTime(row.at) <= t})

IndicesOf(rows) == {row.at : row \in ToSet(rows)}

\* Rows that contradict the grid or each other are no series.
IsContradictory(rows, t) ==
    \/ \E row \in ToSet(rows) : ~row.aligned
    \/ \E a, b \in ToSet(ClosedBy(rows, t)) : a.at = b.at /\ a.value # b.value

\* _was_really_unordered
WasUnordered(rows) == \E n \in 1 .. (Len(rows) - 1) : rows[n].at > rows[n + 1].at

GapsIn(indices) == {i \in UNION {a .. b : a, b \in indices} : i \notin indices}

\* The candles a window owes at t: first_expected .. last_expected.
Expected(request, t) ==
    LET start == Head(request.start)
        first == (start + Duration - 1) \div Duration
        last == NewestExpectedOpen(t)
    IN  IF request.end = <<>> THEN first .. last
        ELSE first .. Min({last, Floor(Head(request.end) - 1)})

\* Mistake: only where the window begins is looked at.
LacksBeginning(indices, request, t) ==
    /\ request.start # <<>> /\ Expected(request, t) # {}
    /\ indices = {} \/ Min(indices) > Min(Expected(request, t))

\* _range_issues: nothing says where a window without a start opens.
LacksEnds(indices, request, t) ==
    /\ request.start # <<>> /\ Expected(request, t) # {}
    /\ \/ indices = {}
       \/ Min(indices) > Min(Expected(request, t))
       \/ Max(indices) < Max(Expected(request, t))

IsStale(indices, t) == indices = {} \/ Max(indices) < NewestExpectedOpen(t)

AssessedIssues(rows, request, t) ==
    LET closed == ClosedBy(rows, t)
        indices == IndicesOf(closed)
    IN  {issue \in QualityIssueCode :
            \/ issue = "OPEN_CANDLE_EXCLUDED" /\ Len(closed) < Len(rows)
            \/ issue = "OUT_OF_ORDER" /\ WasUnordered(closed)
            \/ issue = "DUPLICATE_DROPPED" /\ Cardinality(indices) < Len(closed)
            \/ issue = "GAP" /\ GapsIn(indices) # {}
            \/ issue = "STALE" /\ IsLatestRequest(request) /\ IsStale(indices, t)
            \/ issue = "INCOMPLETE_RANGE" /\ LacksEnds(indices, request, t)}

-----------------------------------------------------------------------------
(* What each adapter does before *)

\* _select_window: of Kraken's fixed answer, the candles that were asked for;
\* those in progress stay unless closed ones were cut off before them.
SelectWindow(rows, request, t) ==
    LET inWindow == Kept(rows, {row \in ToSet(rows) : InWindow(request, OpenTime(row.at))})
        closed == ClosedBy(inWindow, t)
        open == Kept(inWindow, {row \in ToSet(inWindow) : CloseTime(row.at) > t})
        kept == Min({request.limit, Len(closed)})
    IN  IF request.start = <<>> THEN SubSeq(closed, Len(closed) - kept + 1, Len(closed)) \o open
        ELSE IF Len(closed) > kept THEN SubSeq(closed, 1, kept)
        ELSE closed \o open

\* _parse_klines refuses more rows than the limit, _parse_ohlc more than the
\* history and the candle in progress.
TooManyRows(client, rows, request) ==
    \/ client.family = "BINANCE" /\ Len(rows) > request.limit
    \/ client.family = "KRAKEN" /\ Len(rows) > client.history + 1

Selected(client, rows, request, t) ==
    IF client.family = "KRAKEN" THEN SelectWindow(rows, request, t) ELSE rows

-----------------------------------------------------------------------------
(* The result of a call *)

\* unavailable: one issue and nothing else.
Unavailable(issue) == [quality |-> "UNAVAILABLE", issues |-> {issue}, candles |-> <<>>]

\* get_closed_candles, once the rows arrived at t: closed candles, oldest first.
CandleBatch(client, rows, request, t) ==
    LET selected == Selected(client, rows, request, t)
        issues == AssessedIssues(selected, request, t)
        closed == ClosedBy(selected, t)
    IN  IF \/ \E row \in ToSet(rows) : ~row.readable
           \/ TooManyRows(client, rows, request)
           \/ IsContradictory(selected, t)
        THEN Unavailable("INVALID_RESPONSE")
        ELSE [quality |-> QualityFromIssues(issues), issues |-> issues,
              candles |-> [i \in IndicesOf(closed) |->
                             (CHOOSE row \in ToSet(closed) : row.at = i).value]]

\* get_instrument_metadata: the pair the provider says its symbol is.
MetadataResult(client, pair) ==
    CASE pair = "malformed" -> Unavailable("INVALID_RESPONSE")
      \* Twelve Data repeats the symbol it was asked for: there is no other to compare.
      [] pair = "other" /\ client.family # "TWELVEDATA" -> Unavailable("SYMBOL_MISMATCH")
      [] pair = "other" /\ client.family = "TWELVEDATA" -> Unavailable("INVALID_RESPONSE")
      [] OTHER -> LET issues == IF pair = "halted" THEN {"INSTRUMENT_NOT_TRADING"} ELSE {}
                  IN  [quality |-> QualityFromIssues(issues), issues |-> issues,
                       candles |-> <<>>]

=============================================================================
