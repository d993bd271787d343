----------------------------- MODULE MarketsPage -----------------------------
(***************************************************************************)
(* The market explorer of the browser (frontend features/markets:          *)
(* markets.page.ts with its template, merge-candles.ts, periods.ts).  The  *)
(* URL selects a series; loading it replaces any load in flight, a refresh *)
(* keeps what is on screen, and older pages are asked for beside it.       *)
(* Answers arrive in any order, or are errors.                             *)
(*                                                                         *)
(* A selection names an instrument, a period and a source, each NotChosen  *)
(* if the URL does not.  The key of a series names all three.  A candle on *)
(* screen is of a series and has an open time.                             *)
(***************************************************************************)
EXTENDS Integers, Sequences, SequencesExt, FiniteSets

CONSTANTS
    NotChosen,     \* null
    Instruments,
    SourcesOf,     \* the sources of an instrument, as sourcesOf lists them
    PeriodsOf,     \* its periods, the one shown by default first
    PageSize,      \* PAGE_SIZE
    FirstStored,   \* bound: how many candles are stored when the page opens
    MaxStored,     \* bound: and at last
    MaxOlder       \* bound: older pages asked for at once

ASSUME PageAssumption ==
    /\ \A i \in Instruments : SourcesOf[i] \in Seq(STRING) /\ PeriodsOf[i] \in Seq(STRING)
    /\ NotChosen \notin Instruments
    /\ PageSize \in Nat \ {0}
    /\ FirstStored \in Nat /\ MaxStored \in Nat /\ MaxOlder \in Nat

VARIABLES
    url,        \* the selection of the last navigation that was loaded
    stored,     \* how many candles of every series there are in Freyja's store
    selected,   \* selectedId, selectedSource, selectedTimeframe
    detail,     \* the instrument whose detail is kept
    page,       \* seriesState, olderState, refreshing, refreshFailure
    series,     \* the key of the answer that describes what is on screen
    candles,    \* the candles on screen
    loading,    \* the load in flight, <<>> if none
    olders      \* the requests for older pages in flight

shown == <<selected, detail, page, series, candles>>
vars == <<url, stored, shown, loading, olders>>

Key(i, source, period) == [instrument |-> i, source |-> source, timeframe |-> period]

NoKey == Key(NotChosen, NotChosen, NotChosen)

Periods == UNION {ToSet(PeriodsOf[i]) : i \in Instruments}
Sources == UNION {ToSet(SourcesOf[i]) : i \in Instruments}

\* What a URL may say; a source or a period it names may not be the instrument's.
Selections ==
    {Key(i, s, p) : i \in Instruments, s \in Sources \cup {NotChosen},
                    p \in Periods \cup {NotChosen}}
      \cup {NoKey}

OrNotChosen(list) == IF list = <<>> THEN NotChosen ELSE Head(list)

\* resolve: the source and period that are shown for a selection.
Resolved(s) ==
    Key(s.instrument,
        IF s.source \in ToSet(SourcesOf[s.instrument]) THEN s.source
        ELSE OrNotChosen(SourcesOf[s.instrument]),
        IF s.timeframe \in ToSet(PeriodsOf[s.instrument]) THEN s.timeframe
        ELSE OrNotChosen(PeriodsOf[s.instrument]))

HasSeries(key) == key.source # NotChosen /\ key.timeframe # NotChosen

-----------------------------------------------------------------------------
(* Candles *)

\* The page of a series that ends before "end", oldest first.
PageOf(key, end) ==
    LET first == IF end > PageSize THEN end - PageSize ELSE 0
    IN  [n \in 1 .. (end - first) |-> [of |-> key, at |-> first + n - 1]]

\* mergeCandles: one per open time, oldest first, the fresh one if both have it.
MergeCandles(current, fresh) ==
    LET times == {c.at : c \in ToSet(current \o fresh)}
        latest(t) == SelectLastInSeq(current \o fresh, LAMBDA c : c.at = t)
        ordered == SetToSortSeq(times, <)
    IN  [n \in DOMAIN ordered |-> (current \o fresh)[latest(ordered[n])]]

-----------------------------------------------------------------------------
(* Loading *)

\* resetSeries
Reset(state) ==
    /\ page' = [state |-> state, older |-> "idle", refreshing |-> FALSE, failed |-> FALSE]
    /\ series' = NoKey
    /\ candles' = <<>>

\* The series of a selection is asked for, once the detail is known.
AskFor(key, isRefresh) ==
    /\ selected' = key
    /\ loading' = <<[step |-> "candles", key |-> key, isRefresh |-> isRefresh,
                     stored |-> stored]>>

\* Is it the series already on screen that would be loaded?
IsRefresh(s) ==
    /\ series # NoKey
    /\ detail = s.instrument
    /\ Resolved(s) = selected

\* Mistakes: an older page of the series before is still said to be on its way,
\* or that series is left visible.
BeginLeavingOlder(isRefresh) ==
    IF isRefresh THEN [page EXCEPT !.refreshing = TRUE, !.failed = FALSE]
    ELSE [page EXCEPT !.state = "loading", !.refreshing = FALSE, !.failed = FALSE]

BeginLeavingVisible(isRefresh) ==
    [page EXCEPT !.refreshing = isRefresh, !.failed = FALSE]

\* What is on screen while a load is in flight.
Begin(isRefresh) ==
    IF isRefresh THEN [page EXCEPT !.refreshing = TRUE, !.failed = FALSE]
    ELSE [state |-> "loading", older |-> "idle", refreshing |-> FALSE, failed |-> FALSE]

\* load: the load in flight, if any, is given up.
Load(s) ==
    \/ /\ s.instrument = NotChosen
       /\ selected' = NoKey /\ detail' = NotChosen
       /\ Reset("idle") /\ loading' = <<>>
    \/ /\ s.instrument # NotChosen /\ detail # s.instrument
       /\ selected' = [selected EXCEPT !.instrument = s.instrument]
       /\ loading' = <<[step |-> "detail", selection |-> s]>>
       /\ page' = Begin(FALSE)
       /\ UNCHANGED <<detail, series, candles>>
    \/ /\ s.instrument # NotChosen /\ detail = s.instrument
       /\ HasSeries(Resolved(s))
       /\ AskFor(Resolved(s), IsRefresh(s))
       /\ page' = Begin(IsRefresh(s))
       /\ UNCHANGED <<detail, series, candles>>
    \/ /\ s.instrument # NotChosen /\ detail = s.instrument
       /\ ~HasSeries(Resolved(s))
       /\ selected' = Resolved(s)
       /\ Reset("no-source") /\ loading' = <<>>
       /\ UNCHANGED detail

Init ==
    /\ url = NoKey
    /\ stored = FirstStored
    /\ selected = NoKey /\ detail = NotChosen
    /\ page = [state |-> "idle", older |-> "idle", refreshing |-> FALSE, failed |-> FALSE]
    /\ series = NoKey
    /\ candles = <<>>
    /\ loading = <<>>
    /\ olders = <<>>

\* A navigation ends: a choice on the page, the back button or a link.  The same
\* selection is not loaded twice.
Navigate ==
    /\ \E s \in Selections \ {url} : url' = s /\ Load(s)
    /\ UNCHANGED <<stored, olders>>

\* The button: retry after an error, or refresh what is on screen.
Reload ==
    /\ \/ page.state = "error"
       \/ page.state = "ready" /\ candles # <<>> /\ ~page.refreshing
    /\ Load(url)
    /\ UNCHANGED <<url, stored, olders>>

\* autoRefresh, at an interval or when the tab is looked at again.
AutoRefresh ==
    /\ page.state = "ready"
    /\ ~page.refreshing
    /\ page.older # "loading"
    /\ Load(url)
    /\ UNCHANGED <<url, stored, olders>>

-----------------------------------------------------------------------------
(* Answers to a load *)

ReceiveDetail ==
    /\ loading # <<>> /\ loading[1].step = "detail"
    /\ LET s == loading[1].selection
       IN  /\ detail' = s.instrument
           /\ IF HasSeries(Resolved(s))
              THEN AskFor(Resolved(s), FALSE) /\ UNCHANGED <<page, series, candles>>
              ELSE selected' = Resolved(s) /\ Reset("no-source") /\ loading' = <<>>
    /\ UNCHANGED <<url, stored, olders>>

\* The newest page joins what is on screen, or replaces it.
ReceiveSeries ==
    /\ loading # <<>> /\ loading[1].step = "candles"
    /\ \E count \in loading[1].stored .. stored :
          LET key == loading[1].key
              fresh == PageOf(key, count)
          IN  /\ series' = key
              /\ candles' = IF loading[1].isRefresh THEN MergeCandles(candles, fresh) ELSE fresh
              /\ page' = [page EXCEPT
                    !.state = "ready", !.refreshing = FALSE,
                    !.older = IF loading[1].isRefresh THEN @
                              ELSE IF Len(fresh) < PageSize THEN "exhausted" ELSE "idle"]
    /\ loading' = <<>>
    /\ UNCHANGED <<url, stored, selected, detail, olders>>

\* catchError: a refresh that failed leaves what is on screen, marked as such.  An
\* answer of another series (assertIsSeries) is an error too.
FailLoad ==
    /\ loading # <<>>
    /\ loading' = <<>>
    /\ IF loading[1].step = "candles" /\ loading[1].isRefresh /\ series # NoKey
       THEN /\ page' = [page EXCEPT !.failed = TRUE, !.refreshing = FALSE]
            /\ UNCHANGED <<detail, series, candles>>
       ELSE /\ page' = [page EXCEPT !.state = "error", !.refreshing = FALSE]
            /\ detail' = IF detail = url.instrument THEN detail ELSE NotChosen
            /\ series' = NoKey /\ candles' = <<>>
    /\ UNCHANGED <<url, stored, selected, olders>>

-----------------------------------------------------------------------------
(* Older pages *)

\* loadOlder, from a button that is there while there may be more.
LoadOlder ==
    /\ page.state = "ready" /\ candles # <<>>
    /\ page.older \in {"idle", "error"}
    /\ Len(olders) < MaxOlder
    /\ page' = [page EXCEPT !.older = "loading"]
    /\ olders' = Append(olders, [key |-> selected, end |-> Head(candles).at])
    /\ UNCHANGED <<url, stored, selected, detail, series, candles, loading>>

\* An older page of another series is dropped.
ReceiveOlder ==
    /\ \E n \in DOMAIN olders :
          LET older == PageOf(olders[n].key, olders[n].end)
          IN  /\ olders' = RemoveAt(olders, n)
              /\ IF olders[n].key = selected
                 THEN /\ candles' = older \o candles
                      /\ page' = [page EXCEPT
                            !.older = IF Len(older) < PageSize THEN "exhausted" ELSE "idle"]
                 ELSE UNCHANGED <<candles, page>>
    /\ UNCHANGED <<url, stored, selected, detail, series, loading>>

\* An error is shown whatever series it is of.
FailOlder ==
    /\ \E n \in DOMAIN olders : olders' = RemoveAt(olders, n)
    /\ page' = [page EXCEPT !.older = "error"]
    /\ UNCHANGED <<url, stored, selected, detail, series, candles, loading>>

\* A scanner stores the next candle of every series.
Store ==
    /\ stored < MaxStored
    /\ stored' = stored + 1
    /\ UNCHANGED <<url, shown, loading, olders>>

-----------------------------------------------------------------------------

Next ==
    \/ Navigate \/ Reload \/ AutoRefresh
    \/ ReceiveDetail \/ ReceiveSeries \/ FailLoad
    \/ LoadOlder \/ ReceiveOlder \/ FailOlder
    \/ Store

Spec == Init /\ [][Next]_vars

-----------------------------------------------------------------------------
(* Properties *)

\* load and the answers: what is said of a series that is on screen (source,
\* freshness, quality, gaps) is said of the one selected, whatever loads were
\* given up and whatever arrives late.
StatusIsOfTheSelection == page.state = "ready" => series = selected

\* "Actualizando" and, of the older pages, "Cargando" are said of a request that is on
\* its way: neither outlives it, through choices, errors and answers that are
\* dropped.  Both keep autoRefresh from asking, so the page would stop being current.
BusyMeansAsked ==
    /\ page.refreshing => \E load \in ToSet(loading) : load.step = "candles" /\ load.isRefresh
    /\ page.older = "loading" => \E older \in ToSet(olders) : older.key = selected

\* load, "Another series: never leave the previous one visible"; and what
\* assertIsSeries is for: "mixing two series is worse than showing an error".
OneSeriesOnScreen == page.state = "ready" => \A c \in ToSet(candles) : c.of = selected

==============================================================================
