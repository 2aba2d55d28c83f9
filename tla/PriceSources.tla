---------------------------- MODULE PriceSources ----------------------------
(***************************************************************************)
(* Which price and which exchange rate a valuation or a quote takes:       *)
(* services/api/app/price_sources.py with its writers (data_drop,          *)
(* broker_api, provider_api, portfolio_api.source_rule) and its readers    *)
(* (portfolio_valuation, terminal_analytics.quotes).                       *)
(*                                                                         *)
(* One instrument and one pair of currencies.  Observations are only ever  *)
(* added, dated by their source (late ones and future ones too); a day is  *)
(* the unit of time.  Prices and rates are known by their rows.            *)
(***************************************************************************)
EXTENDS Null, Integers, Sequences, FiniteSetsExt

CONSTANTS
    Sources,     \* names of sources
    Orders,      \* priorities that may be set
    PriceFeeds,  \* what may be observed of the instrument
    RateFeeds,   \* what may be observed of the pair
    Seeds,       \* what the seeds may have left: [observations, bars, rates]
    MaxRows,     \* bound on the observations added
    MaxDate      \* bound on the days

PRIORITY == <<"BROKER", "PROVIDER", "FILE", "DEMO">>
Categories == {PRIORITY[i] : i \in 1 .. 4}
Permutation(order) ==
    order \in [1 .. 4 -> Categories] /\ \A c \in Categories : \E i \in 1 .. 4 : order[i] = c

PriceFeed == [category: Categories, source: Sources, stamp: Nat]
RateFeed == [category: Categories, source: Sources, stamp: Nat, inverse: BOOLEAN]
\* ingested: created_at; id: drawn at random.
Price == [category: Categories, source: Sources, stamp: Nat, ingested: Nat, id: Nat]
Rate == [category: Categories, source: Sources, stamp: Nat, inverse: BOOLEAN,
         ingested: Nat, id: Nat]
Rule == [priority: Orders, preferred: Sources \cup {None}]
\* What a valuation at the end of a day recorded, and what it went by.
Mark == [price: Price \cup {None}, rule: Rule \cup {None}, mode: {"AUTO", "DEMO_ONLY"}]

\* Rows of the seeds are older than all others.
Seeded(seed) ==
    /\ seed.observations \cup seed.bars \subseteq Price /\ seed.rates \subseteq Rate
    /\ IsFiniteSet(seed.observations) /\ IsFiniteSet(seed.bars) /\ IsFiniteSet(seed.rates)
    /\ \A r, s \in seed.observations \cup seed.bars \cup seed.rates : r.id = s.id => r = s
    /\ \A r \in seed.observations \cup seed.bars \cup seed.rates :
          r.id > MaxRows /\ r.ingested = 0 /\ r.category \in {"PROVIDER", "DEMO"}

ASSUME PriceAssumption ==
    /\ \A order \in Orders : Permutation(order)
    /\ PriceFeeds \subseteq PriceFeed /\ RateFeeds \subseteq RateFeed
    /\ \A seed \in Seeds : Seeded(seed)
    /\ None \notin Sources /\ None \notin Price /\ None \notin Rate /\ None \notin Rule
    /\ MaxRows \in Nat /\ MaxDate \in Nat

VARIABLES
    observations,  \* market_observations
    bars,          \* price_bars, 1d
    rates,         \* fx_observations
    rule,          \* the source_precedence_rule, or None
    mode,          \* price_mode of the profile
    date,          \* of today
    closes         \* the valuations of the days gone by

priceVars == <<observations, bars, rates, rule, mode, date, closes>>

PriceTypeOK ==
    /\ observations \subseteq Price /\ IsFiniteSet(observations)
    /\ bars \subseteq Price /\ IsFiniteSet(bars)
    /\ rates \subseteq Rate /\ IsFiniteSet(rates)
    /\ rule \in Rule \cup {None}
    /\ mode \in {"AUTO", "DEMO_ONLY"}
    /\ date \in 0 .. MaxDate
    /\ closes \in Seq(Mark)

PriceInit ==
    /\ \E seed \in Seeds :
          observations = seed.observations /\ bars = seed.bars /\ rates = seed.rates
    /\ rule = None
    /\ mode \in {"AUTO", "DEMO_ONLY"}
    /\ date = 0
    /\ closes = <<>>

-----------------------------------------------------------------------------
(***************************************************************************)
(* MarketPriceResolver and FxRateResolver.                                 *)
(***************************************************************************)
\* The order of (timestamp, ingested_at, id).
Later(r, s) ==
    \/ r.stamp > s.stamp
    \/ r.stamp = s.stamp /\ r.ingested > s.ingested
    \/ r.stamp = s.stamp /\ r.ingested = s.ingested /\ r.id > s.id
Topmost(S) == CHOOSE r \in S : \A s \in S : ~Later(s, r)

\* bisect_right of the dates of a group.
Due(S, at) == {r \in S : r.stamp <= at}
PriceGroup(S, r) == {s \in S : s.category = r.category /\ s.source = r.source}
Candidates(S, at) == {Topmost(PriceGroup(Due(S, at), r)) : r \in Due(S, at)}

\* The first category of the order that has a candidate.
OfCategory(C, c) == {r \in C : r.category = c}
FirstMatches(C, order) ==
    LET hits == {i \in 1 .. 4 : OfCategory(C, order[i]) # {}} IN
    IF hits = {} THEN {} ELSE OfCategory(C, order[Min(hits)])

\* A preferred source is the only one.  Mutant: only if it has a candidate.
PreferredIfAny(C, r) ==
    LET own == {c \in C : r # None /\ c.source = r.preferred} IN IF own = {} THEN C ELSE own
Preferred(C, r) ==
    IF r = None \/ r.preferred = None THEN C ELSE {c \in C : c.source = r.preferred}
OrderOf(r) == IF r = None THEN PRIORITY ELSE r.priority

Resolve(S, r, at) ==
    LET matches == FirstMatches(Preferred(Candidates(S, at), r), OrderOf(r)) IN
    IF matches = {} THEN None ELSE Topmost(matches)

\* Of a rate, a pair has both directions.
RateGroup(S, r) == {s \in PriceGroup(S, r) : s.inverse = r.inverse}
RateCandidates(S, at) == {Topmost(RateGroup(Due(S, at), r)) : r \in Due(S, at)}
\* The order of (timestamp, ingested_at, not inverse, id) for a conversion; flip: it goes
\* from the second currency to the first.
LaterFor(flip, r, s) ==
    IF r.stamp = s.stamp /\ r.ingested = s.ingested /\ r.inverse # s.inverse
    THEN r.inverse = flip ELSE Later(r, s)
TopmostFor(flip, S) == CHOOSE r \in S : \A s \in S : ~LaterFor(flip, s, r)
ResolveRate(S, flip, at) ==
    LET matches == FirstMatches(RateCandidates(S, at), PRIORITY) IN
    IF matches = {} THEN None ELSE TopmostFor(flip, matches)

-----------------------------------------------------------------------------
(***************************************************************************)
(* The readers.                                                            *)
(***************************************************************************)
\* Quotes take every row and the rule; a DEMO_ONLY valuation only the demo rows.
AllPrices == observations \cup bars
Used(S, m) == IF m = "DEMO_ONLY" THEN OfCategory(S, "DEMO") ELSE S
RuleIn(m, r) == IF m = "DEMO_ONLY" THEN None ELSE r
Valued(m, r, at) == Resolve(Used(AllPrices, m), RuleIn(m, r), at)

-----------------------------------------------------------------------------
(***************************************************************************)
(* The writers.                                                            *)
(***************************************************************************)
Free == 1 .. MaxRows \ {r.id : r \in observations \cup rates}

ObservePrice(category) ==
    \E feed \in PriceFeeds, id \in Free :
        /\ feed.category = category
        /\ observations' = observations \cup
              {[category |-> category, source |-> feed.source, stamp |-> feed.stamp,
                ingested |-> date, id |-> id]}
        /\ UNCHANGED rates

ObserveRate(category) ==
    \E feed \in RateFeeds, id \in Free :
        /\ feed.category = category
        /\ rates' = rates \cup
              {[category |-> category, source |-> feed.source, stamp |-> feed.stamp,
                inverse |-> feed.inverse, ingested |-> date, id |-> id]}
        /\ UNCHANGED observations

\* An approved file of prices or rates; the profile returns to all sources.
ImportFile ==
    /\ ObservePrice("FILE") \/ ObserveRate("FILE")
    /\ mode' = "AUTO"
    /\ UNCHANGED <<bars, rule, date, closes>>

\* An account snapshot.
ReceivePositions ==
    /\ ObservePrice("BROKER") \/ ObserveRate("BROKER")
    /\ UNCHANGED <<bars, rule, mode, date, closes>>

\* An import of the market provider, which has no rates.
SyncProvider ==
    /\ ObservePrice("PROVIDER")
    /\ UNCHANGED <<bars, rule, mode, date, closes>>

SetRule ==
    /\ rule' \in Rule
    /\ UNCHANGED <<observations, bars, rates, mode, date, closes>>

\* The day ends with a valuation, whose run keeps the price and where it is from.
CloseDate ==
    /\ date < MaxDate
    /\ closes' = Append(closes, [price |-> Valued(mode, rule, date), rule |-> rule, mode |-> mode])
    /\ date' = date + 1
    /\ UNCHANGED <<observations, bars, rates, rule, mode>>

PriceNext == ImportFile \/ ReceivePositions \/ SyncProvider \/ SetRule \/ CloseDate

PriceSpec == PriceInit /\ [][PriceNext]_priceVars

-----------------------------------------------------------------------------
Rank(order, c) == Min({i \in 1 .. 4 : order[i] = c})

\* Of the rows until then, those of the preferred source if there is one, the newest of the
\* foremost category.
Eligible(S, r, at) ==
    {s \in S : s.stamp <= at /\ (r # None /\ r.preferred # None => s.source = r.preferred)}
Foremost(S, r, at) ==
    LET chosen == Resolve(S, r, at) IN
    IF chosen = None THEN Eligible(S, r, at) = {}
    ELSE /\ chosen \in Eligible(S, r, at)
         /\ \A s \in Eligible(S, r, at) \ {chosen} :
               \/ Rank(OrderOf(r), chosen.category) < Rank(OrderOf(r), s.category)
               \/ chosen.category = s.category /\ Later(chosen, s)

ForemostRate(S, flip, at) ==
    LET chosen == ResolveRate(S, flip, at) IN
    IF chosen = None THEN Eligible(S, None, at) = {}
    ELSE /\ chosen \in Eligible(S, None, at)
         /\ \A s \in Eligible(S, None, at) \ {chosen} :
               \/ Rank(PRIORITY, chosen.category) < Rank(PRIORITY, s.category)
               \/ chosen.category = s.category /\ LaterFor(flip, chosen, s)

\* There and back a conversion goes by the same row, unless one of each direction is
\* equally new.
RatesAgree(S, at) ==
    LET there == ResolveRate(S, FALSE, at)
        back == ResolveRate(S, TRUE, at)
    IN there # back =>
          /\ there # None /\ back # None
          /\ there.category = back.category /\ there.inverse # back.inverse
          /\ there.stamp = back.stamp /\ there.ingested = back.ingested

\* What was recorded of a day is what its rule and mode resolve for it later, unless a row
\* for that day or an earlier one has come since.
ClosesStand ==
    \A i \in DOMAIN closes :
        (\A r \in AllPrices : r.stamp <= i - 1 => r.ingested <= i - 1)
            => Valued(closes[i].mode, closes[i].rule, i - 1) = closes[i].price

\* "A stale selected source never falls back to demo" (price_sources.py:1), "A future
\* direct quote must not hide an older inverse rate, and direction cannot outrank provider
\* precedence" (price_sources.py:349): whatever is observed late or ahead of time, quotes
\* and valuations of every day go by the newest row of the foremost source of that day.
PricesAreSound ==
    /\ \A at \in 0 .. date :
          /\ Foremost(AllPrices, rule, at)
          /\ Foremost(Used(AllPrices, mode), RuleIn(mode, rule), at)
          /\ \A flip \in BOOLEAN : ForemostRate(Used(rates, mode), flip, at)
          /\ RatesAgree(Used(rates, mode), at)
    /\ ClosesStand
=============================================================================
