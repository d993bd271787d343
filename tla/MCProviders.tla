----------------------------- MODULE MCProviders -----------------------------
EXTENDS ProviderClient

\* Requests for the latest candles, for a window and for the metadata.
Latest(limit) == [kind |-> "candles", limit |-> limit, start |-> <<>>, end |-> <<>>]
Window(limit, start, end) ==
    [kind |-> "candles", limit |-> limit, start |-> start, end |-> end]
Metadata == [kind |-> "metadata"]

Client(family, spacing, daily, history, requests) ==
    [family |-> family, spacing |-> spacing, quota |-> daily, history |-> history,
     maxLimit |-> 3, requests |-> requests]

\* One client of each provider; a window may begin before what Kraken serves, end
\* before now, have no end, or begin between two candles.
SmallClients ==
    {Client("BINANCE", 0, 0, 9, {Latest(2), Window(2, <<2>>, <<10>>), Metadata}),
     Client("KRAKEN", 2, 0, 2, {Latest(1), Window(1, <<4>>, <<>>), Window(3, <<0>>, <<20>>)}),
     Client("TWELVEDATA", 3, 2, 9, {Latest(3), Window(2, <<4>>, <<12>>), Window(2, <<>>, <<8>>)}),
     Client("TWELVEDATA", 1, 2, 9, {Metadata})}

=============================================================================
