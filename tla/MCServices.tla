------------------------------ MODULE MCServices ------------------------------
(* Bounds for Services: the smallest in which every step of every service     *)
(* happens, its races and its failures included.                              *)
EXTENDS Services, TLC

CONSTANTS
    one, two,                    \* whatever there are two of that are alike
    x, y,                        \* the instruments of the accounting
    demo, bank, vendor, broker   \* the sources of prices

\* What a service has two of is alike, and called the same in every service: no two
\* services work in one behaviour.
MCSymmetry == Permutations({one, two}) \cup Permutations(Rules)

\* Requests that value different days share no fingerprint: those of one behaviour ask for
\* one day, and minutes pass if it is today.
MCOneDay ==
    \/ \A v \in Viewers : views[v] # None => views[v].print.live
    \/ \A v \in Viewers : views[v] # None => ~views[v].print.live /\ minute = 0

MCAmounts == {-1, 1}
MCBounds == {[threshold |-> 1, direction |-> "MAX"]}
\* An entry for each branch of the ledger.  Some name an instrument though the ledger does
\* not look at it.
E(kind, i, quantity, gross) ==
    [kind |-> kind, instrument |-> i, quantity |-> quantity, gross |-> gross, fee |-> 0,
     commission |-> 0, tax |-> 0, child |-> None, up |-> 1, down |-> 1, percent |-> 0, cash |-> 0]
MCEntries == {
   [E("DEPOSIT", x, 0, 50) EXCEPT !.fee = 1], E("TRANSFER_OUT", None, 0, 5),
   [E("BUY", x, 2, 11) EXCEPT !.commission = 1, !.fee = 2],
   [E("SELL", x, 2, 13) EXCEPT !.commission = 1, !.tax = 1],
   [E("SHORT", y, 2, 9) EXCEPT !.commission = 1],
   [E("COVER", y, 1, 4) EXCEPT !.fee = 1],
   E("DIVIDEND", x, 0, 3),
   [E("TAX", x, 0, 0) EXCEPT !.tax = 2],
   [E("FX_CONVERSION", x, 0, 6) EXCEPT !.fee = 1],
   [E("SPLIT", x, 0, 0) EXCEPT !.up = 2],
   [E("REVERSE_SPLIT", x, 0, 0) EXCEPT !.down = 2],
   [E("SPINOFF", x, 2, 0) EXCEPT !.child = y, !.percent = 30],
   [E("MERGER", x, 0, 0) EXCEPT !.child = y, !.percent = 25, !.cash = 1, !.up = 2],
   E("TRANSFER_IN", x, 2, 15), E("TRANSFER_OUT", x, 1, 5),
   [E("OTHER_ADJUSTMENT", y, 0, 3) EXCEPT !.cash = -1] }

\* Sources that compete for the price of an instrument and for a rate: late and future rows,
\* two of one day, both directions.
MCOrders == {<<"FILE", "DEMO", "BROKER", "PROVIDER">>}
P(category, source, stamp) == [category |-> category, source |-> source, stamp |-> stamp]
R(category, source, stamp, inverse) ==
    [category |-> category, source |-> source, stamp |-> stamp, inverse |-> inverse]
Old(row, id) == [category |-> row.category, source |-> row.source, stamp |-> row.stamp,
                 ingested |-> 0, id |-> id]
MCPriceFeeds == {P("BROKER", broker, 0), P("FILE", bank, 0), P("FILE", bank, 2),
                 P("PROVIDER", vendor, 1)}
MCRateFeeds == {R("FILE", bank, 0, TRUE), R("FILE", bank, 0, FALSE),
                R("FILE", bank, 1, FALSE), R("BROKER", broker, 1, TRUE)}
MCSeeds ==
   {[observations |-> {}, bars |-> {Old(P("DEMO", demo, 0), 9)}, rates |-> {}],
    [observations |-> {Old(P("DEMO", demo, 1), 9)}, bars |-> {Old(P("PROVIDER", vendor, 0), 8)},
     rates |-> {[category |-> "DEMO", source |-> demo, stamp |-> 1, inverse |-> FALSE,
                 ingested |-> 0, id |-> 7]}]}
=============================================================================
