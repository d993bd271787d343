---------------------------- MODULE MCMarketsPage ----------------------------
EXTENDS MarketsPage

\* An instrument with two sources and two periods, and one without a source.
TwoInstruments == {"btc", "eth"}
TheirSources == [i \in TwoInstruments |-> IF i = "btc" THEN <<"BINANCE", "KRAKEN">> ELSE <<>>]
TheirPeriods == [i \in TwoInstruments |-> IF i = "btc" THEN <<"1m", "5m">> ELSE <<"1m">>]

=============================================================================
