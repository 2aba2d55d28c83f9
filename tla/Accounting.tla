------------------------------ MODULE Accounting ------------------------------
(***************************************************************************)
(* Portfolio accounting: portfolio_domain/ledger.py replays the entries of *)
(* the ledger into cash and lots (cost_basis.py); postings.py derives the  *)
(* accounting components of the same entries a second time, and            *)
(* position_pnl.py attributes the profit of a day to positions from units, *)
(* cash and marks, without looking at the lots.  The three must agree.     *)
(*                                                                         *)
(* Amounts are integers in the base currency: what the code does for the   *)
(* native and the base amount side by side is done once.  \div stands for  *)
(* the rounding of Decimal.  Charges of every kind are amounts, contract   *)
(* multipliers and settlement dates are left out, and so is the second     *)
(* value that cash in another currency has, at the rate of the day.        *)
(***************************************************************************)
EXTENDS Null, Integers, Sequences, FiniteSetsExt, SequencesExt

CONSTANTS
    Instruments,
    Entries,     \* the entries a ledger may hold
    Prices,      \* marks of one unit at a close
    MaxEntries,  \* bound on the entries replayed
    MaxDays      \* bound on the days

Kinds == {"DEPOSIT", "WITHDRAWAL", "BUY", "SELL", "SHORT", "COVER", "DIVIDEND", "INTEREST",
          "COMMISSION", "FEE", "TAX", "FX_CONVERSION", "SPLIT", "REVERSE_SPLIT", "SPINOFF",
          "MERGER", "TRANSFER_IN", "TRANSFER_OUT", "OTHER_ADJUSTMENT"}
\* up / down: the ratio of a split or a merger; percent: the cost it allocates to the
\* child or to cash; cash: the cash per share of a merger, or the sign of an adjustment.
Entry == [kind: Kinds, instrument: Instruments \cup {None}, quantity: Nat, gross: Nat,
          fee: Nat, commission: Nat, tax: Nat, child: Instruments \cup {None},
          up: Nat \ {0}, down: Nat \ {0}, percent: 0 .. 100, cash: Int]

ASSUME AccountingAssumption ==
    /\ None \notin Instruments
    /\ IsFiniteSet(Instruments)
    /\ Entries \subseteq Entry
    /\ Prices \subseteq Nat
    /\ MaxEntries \in Nat
    /\ MaxDays \in Nat

VARIABLES
    policy,   \* the accounting policy of the portfolio
    open,     \* open lots of each instrument, in the order of lots_for
    book,     \* totals of LedgerState
    posted,   \* totals of summarize_postings over the same entries
    session,  \* the PositionPnlSession of the day
    replayed, \* entries applied so far
    today

accountingVars == <<policy, open, book, posted, session, replayed, today>>

Totals == {"cash", "external", "income", "realised", "fees", "taxes", "capitalized", "adjustments"}
Posted == {"external", "income", "fees", "taxes", "capitalized"}
Directions == {"LONG", "SHORT"}
Lot == [opened: Nat, direction: Directions, quantity: Nat \ {0}, basis: Int]
PerInstrument == [Instruments -> Int]

AccountingTypeOK ==
    /\ policy \in [method: {"AVERAGE", "FIFO"}, commissions: BOOLEAN, fees: BOOLEAN]
    /\ open \in [Instruments -> Seq(Lot)]
    /\ book \in [Totals -> Int]
    /\ posted \in [Posted -> Int]
    /\ session \in [opening: PerInstrument, units: PerInstrument, reference: PerInstrument,
                    transfers: PerInstrument, external: PerInstrument, cash: PerInstrument,
                    other: Int, worth: Int, flows: Int]
    /\ replayed \subseteq Entries
    /\ today \in Nat

Zeros == [i \in Instruments |-> 0]
AccountingInit ==
    /\ policy \in [method: {"AVERAGE", "FIFO"}, commissions: BOOLEAN, fees: BOOLEAN]
    /\ policy.commissions = policy.fees
    /\ open = [i \in Instruments |-> <<>>]
    /\ book = [t \in Totals |-> 0]
    /\ posted = [t \in Posted |-> 0]
    /\ session = [opening |-> Zeros, units |-> Zeros, reference |-> Zeros, transfers |-> Zeros,
                  external |-> Zeros, cash |-> Zeros, other |-> 0, worth |-> 0, flows |-> 0]
    /\ replayed = {}
    /\ today = 1

-----------------------------------------------------------------------------
(***************************************************************************)
(* Sums, allocation and lots.                                              *)
(***************************************************************************)
SumSeq(s) == FoldSeq(LAMBDA x, y : x + y, 0, s)
SumOver(f) == MapThenSumSet(LAMBDA i : f[i], DOMAIN f)

\* allocate: pro rata, the residual on the last positive weight.  Mutant: it is lost.
AllocateFloor(total, weights) ==
    [i \in DOMAIN weights |-> (total * weights[i]) \div SumSeq(weights)]
Allocate(total, weights) ==
    LET share == [i \in DOMAIN weights |-> (total * weights[i]) \div SumSeq(weights)]
        last == Max({i \in DOMAIN weights : weights[i] > 0})
    IN [share EXCEPT ![last] = total - SumSeq([share EXCEPT ![last] = 0])]

Quantities(lots) == [k \in DOMAIN lots |-> lots[k].quantity]
\* The quantity of a position: its rollup.
Held(i) ==
    SumSeq([k \in DOMAIN open[i] |->
              IF open[i][k].direction = "LONG" THEN open[i][k].quantity ELSE -open[i][k].quantity])
CostOf(i) ==
    SumSeq([k \in DOMAIN open[i] |->
              IF open[i][k].direction = "LONG" THEN open[i][k].basis ELSE -open[i][k].basis])

\* Lots in the order they were opened: a new one follows all that are not younger ...
Insert(lots, lot) ==
    InsertAt(lots, 1 + Max({0} \cup {k \in DOMAIN lots : lots[k].opened <= lot.opened}), lot)
InsertAll(lots, more) == FoldLeft(Insert, lots, more)
\* ... and without those that are closed.
StillOpen(lots) ==
    FoldLeft(LAMBDA kept, lot : IF lot.quantity > 0 THEN Append(kept, lot) ELSE kept, <<>>, lots)

\* _matched_quantities.
Matched(lots, quantity) ==
    IF policy.method = "AVERAGE" THEN Allocate(quantity, Quantities(lots))
    ELSE [k \in DOMAIN lots |->
             LET left == quantity - SumSeq(SubSeq(Quantities(lots), 1, k - 1))
             IN IF left <= 0 THEN 0 ELSE Min({left, lots[k].quantity})]
\* Units are integers: a match that would split one is outside the model.
Whole(lots, quantity) ==
    policy.method = "AVERAGE" =>
        \A k \in DOMAIN lots : (quantity * lots[k].quantity) % SumSeq(Quantities(lots)) = 0

\* The cost that leaves a lot with the quantity matched.
CostMatched(lot, quantity) ==
    IF quantity = lot.quantity THEN lot.basis ELSE (lot.basis * quantity) \div lot.quantity

-----------------------------------------------------------------------------
(***************************************************************************)
(* What every entry adds to the totals, twice.                             *)
(***************************************************************************)
Trades == {"BUY", "SELL", "SHORT", "COVER"}
Charges(e) == e.fee + e.commission + e.tax
Capitalized(e) ==
    IF e.kind \in Trades
    THEN (IF policy.commissions THEN e.commission ELSE 0) + (IF policy.fees THEN e.fee ELSE 0)
    ELSE 0

Plus(totals, delta) ==
    [t \in DOMAIN totals |-> totals[t] + IF t \in DOMAIN delta THEN delta[t] ELSE 0]

\* _charges.  Mutant: the capitalized part is an expense as well.
AllExpensed(e) ==
    [cash |-> -Charges(e), fees |-> e.fee + e.commission, taxes |-> e.tax, capitalized |-> 0]
ChargesOf(e) ==
    [cash |-> -Charges(e), fees |-> e.fee + e.commission, taxes |-> e.tax,
     capitalized |-> Capitalized(e)]

\* transaction_postings, by category.
Posting(category, amount, capitalized) ==
    [category |-> category, amount |-> amount, capitalized |-> capitalized]
Postings(e) ==
    IF e.kind \in {"COMMISSION", "FEE", "TAX"}
    THEN <<Posting(IF e.kind = "TAX" THEN "taxes" ELSE "fees",
                   IF e.gross # 0 THEN e.gross ELSE Charges(e), 0)>>
    ELSE <<Posting("external",
                   CASE e.kind \in {"DEPOSIT", "TRANSFER_IN"} -> e.gross
                     [] e.kind \in {"WITHDRAWAL", "TRANSFER_OUT"} -> -e.gross
                     [] OTHER -> 0, 0),
           Posting("income", IF e.kind \in {"DIVIDEND", "INTEREST"} THEN e.gross ELSE 0, 0),
           Posting("fees", e.commission,
                   IF e.kind \in Trades /\ policy.commissions THEN e.commission ELSE 0),
           Posting("fees", e.fee, IF e.kind \in Trades /\ policy.fees THEN e.fee ELSE 0),
           Posting("taxes", e.tax, 0)>>
SumPostings(rows, category) ==
    SumSeq([k \in DOMAIN rows |->
              CASE category = "capitalized" -> rows[k].capitalized
                [] rows[k].category = category -> rows[k].amount
                [] OTHER -> 0])

\* PositionPnlSession: the cash of an entry counts for its instrument, but for deposits,
\* withdrawals, conversions and adjustments, which may name one too.  Units and reference
\* values as given.  (other: profit that is attributed to no position.)
CashKinds == Kinds \ {"DEPOSIT", "WITHDRAWAL", "FX_CONVERSION", "OTHER_ADJUSTMENT"}
OnPosition(e) == e.instrument # None /\ e.kind \in CashKinds
Attributed(e, cash, external) ==
    IF OnPosition(e)
    THEN [session EXCEPT !.cash[e.instrument] = @ + cash,
                         !.external[e.instrument] = @ + external]
    ELSE [session EXCEPT !.other = @ + cash - external]

\* The entry is replayed: lots, totals, postings and session.
Replay(e, lots, delta, s) ==
    /\ Cardinality(replayed) < MaxEntries
    /\ replayed' = replayed \cup {e}
    /\ open' = lots
    /\ book' = Plus(book, delta)
    /\ posted' = Plus(posted, [t \in Posted |-> SumPostings(Postings(e), t)])
    /\ session' = s
    /\ UNCHANGED <<policy, today>>
Delta(fields) == Plus([t \in Totals |-> 0], fields)

-----------------------------------------------------------------------------
(***************************************************************************)
(* LedgerState.apply                                                       *)
(***************************************************************************)
\* BUY, SHORT, TRANSFER_IN of a security.
OpenPosition(e) ==
    /\ e.kind \in {"BUY", "SHORT", "TRANSFER_IN"} /\ e.instrument # None
    /\ e.quantity > 0 /\ e.gross > 0
    /\ LET i == e.instrument
           direction == IF e.kind = "SHORT" THEN "SHORT" ELSE "LONG"
           sign == IF e.kind = "SHORT" THEN -1 ELSE 1
           moved == IF e.kind = "TRANSFER_IN" THEN 0 ELSE -sign * e.gross
           external == IF e.kind = "TRANSFER_IN" THEN e.gross ELSE 0
           delta == Plus(Delta(ChargesOf(e)), [cash |-> moved, external |-> external])
           seen == Attributed(e, delta.cash, external)
       IN /\ \A k \in DOMAIN open[i] : open[i][k].direction = direction
          /\ Replay(e, [open EXCEPT ![i] = Insert(@,
                            [opened |-> today, direction |-> direction, quantity |-> e.quantity,
                             basis |-> e.gross + sign * Capitalized(e)])],
                    delta,
                    [seen EXCEPT !.units[i] = @ + sign * e.quantity,
                                 !.reference[i] = @ + sign * e.gross])

\* SELL, COVER, TRANSFER_OUT of a security.
ClosePosition(e) ==
    /\ e.kind \in {"SELL", "COVER", "TRANSFER_OUT"} /\ e.instrument # None
    /\ e.quantity > 0 /\ e.gross > 0
    /\ LET i == e.instrument
           direction == IF e.kind = "COVER" THEN "SHORT" ELSE "LONG"
           sign == IF e.kind = "COVER" THEN -1 ELSE 1
           lots == open[i]
           amounts == Matched(lots, e.quantity)
           proceeds == Allocate(e.gross - sign * Capitalized(e), amounts)
           cost == [k \in DOMAIN lots |-> CostMatched(lots[k], amounts[k])]
           left == [k \in DOMAIN lots |-> [lots[k] EXCEPT !.quantity = @ - amounts[k],
                                                          !.basis = @ - cost[k]]]
           moved == IF e.kind = "TRANSFER_OUT" THEN 0 ELSE sign * e.gross
           external == IF e.kind = "TRANSFER_OUT" THEN -e.gross ELSE 0
           delta == Plus(Delta(ChargesOf(e)),
                         [cash |-> moved, external |-> external,
                          realised |-> sign * (SumSeq(proceeds) - SumSeq(cost))])
           seen == Attributed(e, delta.cash, external)
           held == session.units[i]
           abs == IF held < 0 THEN -held ELSE held
       IN /\ \A k \in DOMAIN lots : lots[k].direction = direction
          /\ e.quantity <= SumSeq(Quantities(lots))
          /\ Whole(lots, e.quantity)
          /\ Replay(e, [open EXCEPT ![i] = StillOpen(left)], delta,
                    [seen EXCEPT !.units[i] = @ - sign * e.quantity,
                                 !.reference[i] = (@ * (abs - e.quantity)) \div abs])

\* DEPOSIT, WITHDRAWAL, with or without an instrument, and transfers of cash.
Transfers == {"TRANSFER_IN", "TRANSFER_OUT"}
MoveCapital(e) ==
    /\ e.kind \in {"DEPOSIT", "WITHDRAWAL"} \cup Transfers
    /\ e.kind \in Transfers => e.instrument = None
    /\ e.gross > 0
    /\ LET amount == IF e.kind \in {"DEPOSIT", "TRANSFER_IN"} THEN e.gross ELSE -e.gross
           delta == Plus(Delta(ChargesOf(e)), [cash |-> amount, external |-> amount])
       IN Replay(e, open, delta, Attributed(e, delta.cash, amount))

\* DIVIDEND, INTEREST.
ReceiveIncome(e) ==
    /\ e.kind \in {"DIVIDEND", "INTEREST"}
    /\ e.gross > 0
    /\ LET delta == Plus(Delta(ChargesOf(e)), [cash |-> e.gross, income |-> e.gross])
       IN Replay(e, open, delta, Attributed(e, delta.cash, 0))

\* COMMISSION, FEE, TAX: the amount or the charges, not both.
PayExpense(e) ==
    /\ e.kind \in {"COMMISSION", "FEE", "TAX"}
    /\ e.gross > 0 \/ Charges(e) > 0
    /\ e.gross = 0 \/ Charges(e) = 0
    /\ LET charge == IF e.gross # 0 THEN e.gross ELSE Charges(e)
           delta == Plus(Delta([cash |-> -charge]),
                         IF e.kind = "TAX" THEN [taxes |-> charge] ELSE [fees |-> charge])
       IN Replay(e, open, delta, Attributed(e, delta.cash, 0))

\* FX_CONVERSION: what is received is booked at the value of what is sold.
ConvertCash(e) ==
    /\ e.kind = "FX_CONVERSION"
    /\ e.gross > 0
    /\ LET delta == Delta(ChargesOf(e)) IN Replay(e, open, delta, Attributed(e, delta.cash, 0))

\* OTHER_ADJUSTMENT: a credit or a debit.
Adjust(e) ==
    /\ e.kind = "OTHER_ADJUSTMENT"
    /\ e.gross > 0
    /\ LET delta == Plus(Delta(ChargesOf(e)),
                         [cash |-> e.cash * e.gross, adjustments |-> e.cash * e.gross])
       IN Replay(e, open, delta, Attributed(e, delta.cash, 0))

\* SPLIT, REVERSE_SPLIT.
Split(e) ==
    /\ e.kind = "SPLIT" \/ (e.kind = "REVERSE_SPLIT" /\ e.up < e.down)
    /\ e.instrument # None
    /\ LET i == e.instrument
           delta == Delta(ChargesOf(e))
           ratio(n) == (n * e.up) \div e.down
           turned == [k \in DOMAIN open[i] |-> [open[i][k] EXCEPT !.quantity = ratio(@)]]
       IN /\ open[i] # <<>>
          /\ \A k \in DOMAIN open[i] : (open[i][k].quantity * e.up) % e.down = 0
          /\ Replay(e, [open EXCEPT ![i] = turned], delta,
                    [Attributed(e, delta.cash, 0) EXCEPT !.units[i] = ratio(@)])

\* Reference value that a corporate action moves to the child (_transfer).
Transferred(s, e, percent) ==
    LET value == (s.reference[e.instrument] * percent) \div 100 IN
    [s EXCEPT !.reference[e.instrument] = @ - value, !.reference[e.child] = @ + value,
              !.transfers[e.instrument] = @ - value, !.transfers[e.child] = @ + value]
LongOnly(lots) == \A k \in DOMAIN lots : lots[k].direction = "LONG"

\* Part of the cost of the parent's lots, which keep their dates, goes to the child.
Spinoff(e) ==
    /\ e.kind = "SPINOFF" /\ e.instrument # None /\ e.child \notin {None, e.instrument}
    /\ e.quantity > 0 /\ e.percent < 100
    /\ LET i == e.instrument
           parent == open[i]
           units == Allocate(e.quantity, Quantities(parent))
           part == [k \in DOMAIN parent |-> (parent[k].basis * e.percent) \div 100]
           spun == [k \in DOMAIN parent |-> [parent[k] EXCEPT !.quantity = units[k],
                                                              !.basis = part[k]]]
           kept == [k \in DOMAIN parent |-> [parent[k] EXCEPT !.basis = @ - part[k]]]
           delta == Delta(ChargesOf(e))
           seen == Transferred(Attributed(e, delta.cash, 0), e, e.percent)
       IN /\ parent # <<>> /\ LongOnly(parent) /\ LongOnly(open[e.child])
          /\ (\A k \in DOMAIN parent :
                 (e.quantity * parent[k].quantity) % SumSeq(Quantities(parent)) = 0)
          /\ Replay(e, [open EXCEPT ![i] = kept, ![e.child] = InsertAll(@, spun)], delta,
                    [seen EXCEPT !.units[e.child] = @ + e.quantity])

\* The parent's lots become lots of the successor, and cash.
Merger(e) ==
    /\ e.kind = "MERGER" /\ e.instrument # None /\ e.child \notin {None, e.instrument}
    /\ e.cash = 0 => e.percent = 0
    /\ LET i == e.instrument
           parent == open[i]
           part == [k \in DOMAIN parent |-> (parent[k].basis * e.percent) \div 100]
           turned == [k \in DOMAIN parent |->
                         [parent[k] EXCEPT !.quantity = (@ * e.up) \div e.down,
                                           !.basis = @ - part[k]]]
           received == Held(i) * e.cash
           delta == Plus(Delta(ChargesOf(e)),
                         [cash |-> received, realised |-> received - SumSeq(part)])
           seen == Transferred(Attributed(e, delta.cash, 0), e, 100 - e.percent)
       IN /\ parent # <<>> /\ LongOnly(parent) /\ LongOnly(open[e.child])
          /\ \A k \in DOMAIN parent : (parent[k].quantity * e.up) % e.down = 0
          /\ Replay(e, [open EXCEPT ![i] = <<>>, ![e.child] = InsertAll(@, turned)],
                    delta,
                    [seen EXCEPT !.units[i] = 0, !.reference[i] = 0,
                                 !.units[e.child] = @ + (session.units[i] * e.up) \div e.down])

Values(marks) == [i \in Instruments |-> Held(i) * marks[i]]
\* The worth of the portfolio with cash as recorded (cash_book_base).  The NAV of a
\* valuation adds the revaluation of foreign cash at the rates of the day (cash_fx) and the
\* balance adjustments, neither of which is an entry.
BookWorth(marks) == book.cash + SumOver(Values(marks))

\* The valuation closes the day with its marks and opens the next session.
CloseDay(marks) ==
    /\ today < MaxDays
    /\ today' = today + 1
    /\ session' = [opening |-> Values(marks), units |-> [i \in Instruments |-> Held(i)],
                   reference |-> Values(marks), transfers |-> Zeros, external |-> Zeros,
                   cash |-> Zeros, other |-> 0, worth |-> BookWorth(marks), flows |-> book.external]
    /\ UNCHANGED <<policy, open, book, posted, replayed>>

AccountingNext ==
    \/ \E e \in Entries \ replayed :
          \/ OpenPosition(e) \/ ClosePosition(e) \/ MoveCapital(e) \/ ReceiveIncome(e)
          \/ PayExpense(e) \/ ConvertCash(e) \/ Adjust(e)
          \/ Split(e) \/ Spinoff(e) \/ Merger(e)
    \/ \E marks \in [Instruments -> Prices] : CloseDay(marks)

AccountingSpec == AccountingInit /\ [][AccountingNext]_accountingVars

-----------------------------------------------------------------------------
(***************************************************************************)
(* Properties.                                                             *)
(***************************************************************************)

\* All open lots of an instrument face the same way, whatever splits, spinoffs and
\* mergers happened in between, and are kept in the order they were opened.
LotsOneSided ==
    \A i \in Instruments : \A k, m \in DOMAIN open[i] :
        /\ open[i][k].direction = open[i][m].direction
        /\ k < m => open[i][k].opened <= open[i][m].opened

\* Nothing is lost between cash and lots: cash and cost together are the capital put
\* in, the income, what was realised and the adjustments, less the charges that were
\* not capitalized.
BookBalances ==
    book.cash + SumOver([i \in Instruments |-> CostOf(i)]) =
        book.external + book.income + book.realised + book.adjustments
        - (book.fees - book.capitalized) - book.taxes

\* The accounting components derived from the entries add up to the ledger's totals.
PostingsAgree == \A t \in Posted : posted[t] = book[t]

\* "Closing marked value minus opening marked value plus recorded economic cash minus
\* external security flows minus internal corporate-action transfers"
\* (position_pnl.py:13-18): whatever the marks at the close, what is attributed to the
\* positions, and the cash that is attributed to none, is what the marked positions and
\* the recorded cash have gained in the day beyond the capital put in.
AttributionComplete ==
    /\ \A i \in Instruments : session.units[i] = Held(i)
    /\ \A marks \in [Instruments -> Prices] :
          LET values == Values(marks)
              pnl == [i \in Instruments |->
                        values[i] - session.opening[i] + session.cash[i]
                        - session.external[i] - session.transfers[i]]
          IN SumOver(pnl) + session.other
                = BookWorth(marks) - session.worth - (book.external - session.flows)

\* The three derivations of the books agree.
BooksAgree == LotsOneSided /\ BookBalances /\ PostingsAgree /\ AttributionComplete
=============================================================================
