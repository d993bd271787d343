------------------------- MODULE MarketsPageProofs --------------------------
(***************************************************************************)
(* Proofs about the market explorer: what it says of a series is said of   *)
(* the one selected, and it is never busy with nothing, for any list of    *)
(* instruments, any page size and any number of requests in flight.        *)
(***************************************************************************)
EXTENDS MarketsPage, SequenceTheorems, TLAPS

IsSequence(s) == s \in Seq({s[n] : n \in DOMAIN s})

PageOK ==
    page \in [state : {"idle", "loading", "ready", "error", "no-source"},
              older : {"idle", "loading", "error", "exhausted"},
              refreshing : BOOLEAN, failed : BOOLEAN]

\* One load at most is in flight, and while a detail is awaited nothing can be
\* asked for beside it.  A series that is awaited is the one selected.
LoadOK ==
    /\ loading = <<>> \/ loading = <<loading[1]>>
    /\ loading # <<>> /\ loading[1].step = "detail" =>
          page.state = "loading" /\ page.older # "loading" /\ ~page.refreshing
    /\ loading # <<>> /\ loading[1].step = "candles" => loading[1].key = selected
    /\ loading # <<>> => loading[1].step \in {"detail", "candles"}

RefreshingMeansAsked ==
    page.refreshing => loading # <<>> /\ loading[1].step = "candles" /\ loading[1].isRefresh

OlderMeansAsked ==
    page.older = "loading" => \E n \in DOMAIN olders : olders[n].key = selected

Coherent ==
    /\ PageOK /\ LoadOK /\ IsSequence(olders)
    /\ StatusIsOfTheSelection /\ RefreshingMeansAsked /\ OlderMeansAsked

-----------------------------------------------------------------------------
(* Sequences of requests *)

\* What is removed from a sequence leaves every other element in it.
LEMMA OthersRemain ==
    ASSUME NEW s, IsSequence(s), NEW n \in DOMAIN s
    PROVE  /\ IsSequence(RemoveAt(s, n))
           /\ \A m \in DOMAIN s : m # n =>
                 \E k \in DOMAIN RemoveAt(s, n) : RemoveAt(s, n)[k] = s[m]
<1> DEFINE S == {s[m] : m \in DOMAIN s}
           before == SubSeq(s, 1, n - 1)
           after == SubSeq(s, n + 1, Len(s))
           rest == before \o after
<1>1. s \in Seq(S) /\ n \in 1 .. Len(s) /\ DOMAIN s = 1 .. Len(s) /\ Len(s) \in Nat
    BY DEF IsSequence
<1> HIDE DEF S
<1>2. /\ before \in Seq(S) /\ Len(before) = n - 1
      /\ \A k \in 1 .. (n - 1) : before[k] = s[k]
    BY <1>1, SubSeqProperties
<1>3. /\ after \in Seq(S) /\ Len(after) = Len(s) - n
      /\ \A k \in 1 .. (Len(s) - n) : after[k] = s[n + k]
    <2>1. n + 1 \in Int /\ Len(s) \in Int /\ n + 1 <= Len(s) + 1
        BY <1>1
    <2>2. \A k \in (n + 1) .. Len(s) : s[k] \in S
        BY <1>1
    <2>3. /\ after \in Seq(S)
          /\ Len(after) = IF n + 1 <= Len(s) THEN Len(s) - (n + 1) + 1 ELSE 0
          /\ \A k \in 1 .. (Len(s) - (n + 1) + 1) : after[k] = s[(n + 1) + k - 1]
        BY <2>1, <2>2, SubSeqProperties
    <2> HIDE DEF after
    <2>4. Len(after) = Len(s) - n
        BY <1>1, <2>3
    <2>5. ASSUME NEW k \in 1 .. (Len(s) - n) PROVE after[k] = s[n + k]
        <3>1. k \in 1 .. (Len(s) - (n + 1) + 1) /\ (n + 1) + k - 1 = n + k
            BY <1>1, <2>5
        <3> QED
            BY <2>3, <3>1
    <2> QED
        BY <2>3, <2>4, <2>5
<1>4. /\ rest \in Seq(S) /\ Len(rest) = Len(s) - 1
      /\ \A k \in 1 .. (Len(s) - 1) :
            rest[k] = IF k <= n - 1 THEN before[k] ELSE after[k - (n - 1)]
    <2> HIDE DEF before, after
    <2>1. /\ rest \in Seq(S) /\ Len(rest) = Len(before) + Len(after)
          /\ \A k \in 1 .. Len(before) + Len(after) :
                rest[k] = IF k <= Len(before) THEN before[k] ELSE after[k - Len(before)]
        BY <1>2, <1>3, ConcatProperties
    <2>2. Len(before) + Len(after) = Len(s) - 1
        BY <1>1, <1>2, <1>3
    <2> QED
        BY <1>2, <2>1, <2>2
<1> HIDE DEF rest, before, after
<1>5. \A k \in 1 .. (Len(s) - 1) : rest[k] = IF k <= n - 1 THEN s[k] ELSE s[k + 1]
    <2> SUFFICES ASSUME NEW k \in 1 .. (Len(s) - 1)
                 PROVE  rest[k] = IF k <= n - 1 THEN s[k] ELSE s[k + 1]
        OBVIOUS
    <2>1. CASE k <= n - 1
        <3>1. k \in 1 .. (n - 1)
            BY <1>1, <2>1
        <3> QED
            BY <1>2, <1>4, <2>1, <3>1
    <2>2. CASE ~(k <= n - 1)
        <3>1. k - (n - 1) \in 1 .. (Len(s) - n) /\ n + (k - (n - 1)) = k + 1
            BY <1>1, <2>2
        <3> QED
            BY <1>3, <1>4, <2>2, <3>1
    <2> QED
        BY <2>1, <2>2
<1>6. DOMAIN rest = 1 .. (Len(s) - 1)
    BY <1>4, LenProperties
<1>7. IsSequence(rest)
    <2>1. rest \in [1 .. (Len(s) - 1) -> {rest[k] : k \in DOMAIN rest}]
        BY <1>4, <1>6, LenProperties
    <2>2. Len(s) - 1 \in Nat
        BY <1>1
    <2> QED
        BY <2>1, <2>2, SeqDef DEF IsSequence
<1>8. ASSUME NEW m \in DOMAIN s, m # n PROVE \E k \in DOMAIN rest : rest[k] = s[m]
    <2>1. CASE m < n
        <3>1. m \in DOMAIN rest /\ rest[m] = s[m]
            BY <1>1, <1>5, <1>6, <2>1
        <3> QED
            BY <3>1
    <2>2. CASE m > n
        <3>1. m - 1 \in DOMAIN rest /\ rest[m - 1] = s[m]
            BY <1>1, <1>5, <1>6, <2>2
        <3> QED
            BY <3>1
    <2> QED
        BY <1>1, <1>8, <2>1, <2>2
<1>9. RemoveAt(s, n) = rest
    BY DEF RemoveAt, rest, before, after
<1> QED
    BY <1>7, <1>8, <1>9

LEMMA AppendedIsSequence ==
    ASSUME NEW s, NEW e, IsSequence(s)
    PROVE  /\ IsSequence(Append(s, e))
           /\ \E n \in DOMAIN Append(s, e) : Append(s, e)[n] = e
<1> DEFINE S == {s[m] : m \in DOMAIN s} \cup {e}
           t == Append(s, e)
<1>1. s \in Seq(S) /\ e \in S
    BY SeqDef DEF IsSequence
<1>2. /\ t \in Seq(S) /\ Len(t) = Len(s) + 1 /\ t[Len(s) + 1] = e
      /\ DOMAIN t = 1 .. (Len(s) + 1) /\ Len(s) \in Nat
    BY <1>1, AppendProperties
<1> HIDE DEF t
<1>3. IsSequence(t)
    BY <1>2, SeqDef DEF IsSequence
<1> QED
    BY <1>2, <1>3 DEF t

-----------------------------------------------------------------------------
(* Every step keeps the page coherent *)

LEMMA StartsCoherent == Init => Coherent
<1> SUFFICES ASSUME Init PROVE Coherent
    OBVIOUS
<1> USE DEF Init
<1>1. PageOK /\ LoadOK
    BY DEF PageOK, LoadOK
<1>2. IsSequence(olders)
    BY EmptySeq DEF IsSequence
<1>3. StatusIsOfTheSelection /\ RefreshingMeansAsked /\ OlderMeansAsked
    BY DEF StatusIsOfTheSelection, RefreshingMeansAsked, OlderMeansAsked
<1> QED
    BY <1>1, <1>2, <1>3 DEF Coherent

\* Whatever is loaded, and whatever was on its way before.
LEMMA LoadIsCoherent ==
    ASSUME Coherent, NEW s, Load(s), UNCHANGED olders
    PROVE  Coherent'
<1> USE DEF Coherent, PageOK, LoadOK, StatusIsOfTheSelection, RefreshingMeansAsked,
            OlderMeansAsked
<1>0. IsSequence(olders)'
    BY DEF IsSequence
<1>1. CASE selected' = NoKey /\ Reset("idle") /\ loading' = <<>>
    BY <1>0, <1>1 DEF Reset
<1>2. CASE /\ loading' = <<[step |-> "detail", selection |-> s]>>
           /\ page' = Begin(FALSE)
    BY <1>0, <1>2 DEF Begin
<1>3. CASE /\ AskFor(Resolved(s), IsRefresh(s))
           /\ page' = Begin(IsRefresh(s))
           /\ UNCHANGED <<detail, series, candles>>
    <2>1. CASE IsRefresh(s)
        <3>1. selected' = selected /\ page' = [page EXCEPT !.refreshing = TRUE, !.failed = FALSE]
            BY <1>3, <2>1 DEF AskFor, Begin, IsRefresh
        <3>2. loading' = <<[step |-> "candles", key |-> selected', isRefresh |-> TRUE,
                            stored |-> stored]>>
            BY <1>3, <2>1 DEF AskFor, IsRefresh
        <3> QED
            BY <1>0, <1>3, <3>1, <3>2
    <2>2. CASE ~IsRefresh(s)
        <3>1. page' = [state |-> "loading", older |-> "idle", refreshing |-> FALSE,
                       failed |-> FALSE]
            BY <1>3, <2>2 DEF Begin
        <3>2. /\ loading' = <<loading'[1]>>
              /\ loading'[1].step = "candles" /\ loading'[1].key = selected'
            BY <1>3 DEF AskFor
        <3> QED
            BY <1>0, <3>1, <3>2
    <2> QED
        BY <2>1, <2>2
<1>4. CASE selected' = Resolved(s) /\ Reset("no-source") /\ loading' = <<>>
    BY <1>0, <1>4 DEF Reset
<1> QED
    BY <1>1, <1>2, <1>3, <1>4 DEF Load

\* The answers to a load.
LEMMA AnswerIsCoherent ==
    ASSUME Coherent, ReceiveDetail \/ ReceiveSeries \/ FailLoad
    PROVE  Coherent'
<1> USE DEF Coherent, PageOK, LoadOK, StatusIsOfTheSelection, RefreshingMeansAsked,
            OlderMeansAsked
<1>1. UNCHANGED olders
    BY DEF ReceiveDetail, ReceiveSeries, FailLoad
<1>2. IsSequence(olders)'
    BY <1>1 DEF IsSequence
<1>3. CASE ReceiveDetail
    <2> DEFINE s == loading[1].selection
    <2>1. /\ loading[1].step = "detail"
          /\ page.state = "loading" /\ page.older # "loading" /\ ~page.refreshing
        BY <1>3 DEF ReceiveDetail
    <2>2. CASE HasSeries(Resolved(s))
        <3>1. UNCHANGED page
            BY <1>3, <2>2 DEF ReceiveDetail
        <3>2. /\ loading' = <<loading'[1]>>
              /\ loading'[1].step = "candles" /\ loading'[1].key = selected'
            BY <1>3, <2>2 DEF ReceiveDetail, AskFor
        <3> QED
            BY <1>1, <1>2, <2>1, <3>1, <3>2
    <2>3. CASE ~HasSeries(Resolved(s))
        <3>1. page' = [state |-> "no-source", older |-> "idle", refreshing |-> FALSE,
                       failed |-> FALSE] /\ loading' = <<>>
            BY <1>3, <2>3 DEF ReceiveDetail, Reset
        <3> QED
            BY <1>1, <1>2, <3>1
    <2> QED
        BY <2>2, <2>3
<1>4. CASE ReceiveSeries
    <2>1. PICK count \in loading[1].stored .. stored :
             page' = [page EXCEPT
                !.state = "ready", !.refreshing = FALSE,
                !.older = IF loading[1].isRefresh THEN @
                          ELSE IF Len(PageOf(loading[1].key, count)) < PageSize
                               THEN "exhausted" ELSE "idle"]
        BY <1>4 DEF ReceiveSeries
    <2>2. series' = selected' /\ selected' = selected /\ loading' = <<>>
        BY <1>4 DEF ReceiveSeries
    <2>3. PageOK' /\ ~page'.refreshing /\ (page'.older = "loading" => page.older = "loading")
        BY <2>1
    <2> QED
        BY <1>1, <1>2, <2>2, <2>3
<1>5. CASE FailLoad
    <2>1. loading' = <<>> /\ selected' = selected
        BY <1>5 DEF FailLoad
    <2>2. \/ /\ page' = [page EXCEPT !.failed = TRUE, !.refreshing = FALSE]
             /\ series' = series
          \/ page' = [page EXCEPT !.state = "error", !.refreshing = FALSE]
        BY <1>5 DEF FailLoad
    <2> QED
        BY <1>1, <1>2, <2>1, <2>2
<1> QED
    BY <1>3, <1>4, <1>5

\* Older pages: another one may still be on its way when one arrives or fails, but
\* an answer that is dropped is never the one the page waits for.
LEMMA OlderIsCoherent ==
    ASSUME Coherent, LoadOlder \/ ReceiveOlder \/ FailOlder
    PROVE  Coherent'
<1> USE DEF Coherent, PageOK, LoadOK, StatusIsOfTheSelection, RefreshingMeansAsked,
            OlderMeansAsked
<1>0. UNCHANGED <<selected, series, loading>>
    BY DEF LoadOlder, ReceiveOlder, FailOlder
<1>1. CASE LoadOlder
    <2> DEFINE request == [key |-> selected, end |-> Head(candles).at]
    <2>1. page.state = "ready" /\ page' = [page EXCEPT !.older = "loading"]
        BY <1>1 DEF LoadOlder
    <2>2. olders' = Append(olders, request)
        BY <1>1 DEF LoadOlder
    <2> HIDE DEF request
    <2>3. /\ IsSequence(Append(olders, request))
          /\ \E n \in DOMAIN Append(olders, request) : Append(olders, request)[n] = request
        BY AppendedIsSequence
    <2>4. IsSequence(olders')
        BY <2>2, <2>3
    <2>5. \E n \in DOMAIN olders' : olders'[n].key = selected
        BY <2>2, <2>3 DEF request
    <2> QED
        BY <1>0, <2>1, <2>4, <2>5 DEF IsSequence
<1>2. CASE ReceiveOlder
    <2>1. PICK n \in DOMAIN olders :
             /\ olders' = RemoveAt(olders, n)
             /\ IF olders[n].key = selected
                THEN page' = [page EXCEPT !.older = IF Len(PageOf(olders[n].key, olders[n].end)) < PageSize
                                                   THEN "exhausted" ELSE "idle"]
                ELSE UNCHANGED page
        BY <1>2 DEF ReceiveOlder
    <2>2. /\ IsSequence(olders')
          /\ \A m \in DOMAIN olders : m # n => \E k \in DOMAIN olders' : olders'[k] = olders[m]
        BY <2>1, OthersRemain
    <2>3. CASE olders[n].key = selected
        <3>1. PageOK' /\ page'.older # "loading" /\ page'.state = page.state
              /\ page'.refreshing = page.refreshing
            BY <2>1, <2>3
        <3> QED
            BY <1>0, <2>2, <3>1 DEF IsSequence
    <2>4. CASE olders[n].key # selected
        <3>1. page.older = "loading" => \E k \in DOMAIN olders' : olders'[k].key = selected
            BY <2>2, <2>4
        <3> QED
            BY <1>0, <2>1, <2>2, <2>4, <3>1 DEF IsSequence
    <2> QED
        BY <2>3, <2>4
<1>3. CASE FailOlder
    <2>1. PICK n \in DOMAIN olders : olders' = RemoveAt(olders, n)
        BY <1>3 DEF FailOlder
    <2>2. IsSequence(olders')
        BY <2>1, OthersRemain
    <2>3. page' = [page EXCEPT !.older = "error"]
        BY <1>3 DEF FailOlder
    <2> QED
        BY <1>0, <2>2, <2>3 DEF IsSequence
<1> QED
    BY <1>1, <1>2, <1>3

LEMMA StaysCoherent == Coherent /\ [Next]_vars => Coherent'
<1> SUFFICES ASSUME Coherent, [Next]_vars PROVE Coherent'
    OBVIOUS
<1>1. CASE Navigate
    BY <1>1, LoadIsCoherent DEF Navigate
<1>2. CASE Reload \/ AutoRefresh
    BY <1>2, LoadIsCoherent DEF Reload, AutoRefresh
<1>3. CASE ReceiveDetail \/ ReceiveSeries \/ FailLoad
    BY <1>3, AnswerIsCoherent
<1>4. CASE LoadOlder \/ ReceiveOlder \/ FailOlder
    BY <1>4, OlderIsCoherent
<1>5. CASE Store \/ UNCHANGED vars
    BY <1>5 DEF Store, vars, shown, Coherent, PageOK, LoadOK, IsSequence,
                StatusIsOfTheSelection, RefreshingMeansAsked, OlderMeansAsked
<1> QED
    BY <1>1, <1>2, <1>3, <1>4, <1>5 DEF Next

-----------------------------------------------------------------------------

\* load and the answers to it: what the page says of the series on screen (source,
\* freshness, quality, gaps) is said of the one selected, whatever loads were given
\* up and in whatever order the answers arrive.
THEOREM WhatIsSaidIsOfTheSelection == Spec => []StatusIsOfTheSelection
<1>1. Coherent => StatusIsOfTheSelection
    BY DEF Coherent
<1> QED
    BY <1>1, StartsCoherent, StaysCoherent, PTL DEF Spec

\* load, loadOlder and the handlers of their answers: the page says that it is
\* refreshing, or bringing an older page, only while that request is in flight.
THEOREM NeverBusyWithNothing == Spec => []BusyMeansAsked
<1>1. Coherent => BusyMeansAsked
    <2> SUFFICES ASSUME Coherent PROVE BusyMeansAsked
        OBVIOUS
    <2> USE DEF Coherent, LoadOK, IsSequence, RefreshingMeansAsked, OlderMeansAsked
    <2>1. page.refreshing => \E load \in ToSet(loading) : load.step = "candles" /\ load.isRefresh
        BY DEF ToSet
    <2>2. page.older = "loading" => \E older \in ToSet(olders) : older.key = selected
        BY DEF ToSet
    <2> QED
        BY <2>1, <2>2 DEF BusyMeansAsked
<1> QED
    BY <1>1, StartsCoherent, StaysCoherent, PTL DEF Spec

=============================================================================
