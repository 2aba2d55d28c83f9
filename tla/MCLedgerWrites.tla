-------------------------- MODULE MCLedgerWrites --------------------------
(***************************************************************************)
(* Small ledgers.  Kinds, terms and references of the transactions are     *)
(* chosen so that later sales depend on earlier purchases.                 *)
(***************************************************************************)
EXTENDS LedgerWrites

CONSTANTS t1, t2, t3, m1, m2, m3, ref, w2

On(day, quantity) == [day |-> day, quantity |-> quantity]

\* A purchase and two sales of it; in BothReference the sales carry the same one.
SalesKind == [t \in Txns |-> IF t = t1 THEN "BUY" ELSE "SELL"]
SalesOffers == [t \in Txns |-> CASE t = t1 -> {On(11, 1), On(11, 2)}
                                 [] t = t2 -> {On(12, 1)}
                                 [] OTHER -> {On(13, 1)}]
NoReferences == [t \in Txns |-> NoReference]

\* A long position and a short one on days of their own.
Mixed == {m1, m2, m3}
MixedOffers == [t \in Mixed |-> CASE t = m1 -> {On(1, 1), On(1, 2), On(5, 1)}
                                  [] t = m2 -> {On(2, 1), On(2, 2), On(6, 1)}
                                  [] OTHER -> {On(3, 1), On(7, 1)}]

\* Both ledgers in one instance: either two sessions share the sales, or one session has the
\* mixed ledger to itself.
BothKind ==
    [t \in Txns |-> CASE t \in {t1, m1} -> "BUY" [] t = m3 -> "SHORT" [] OTHER -> "SELL"]
BothOffers == [t \in Txns |-> IF t \in Mixed THEN MixedOffers[t] ELSE SalesOffers[t]]
BothReference == [t \in Txns |-> IF t \in {t2, t3} THEN ref ELSE NoReference]
MCNext ==
    /\ Next
    /\ \/ \A i \in DOMAIN created' : created'[i] \notin Mixed
       \/ pc'[w2] = "idle" /\ \A i \in DOMAIN created' : created'[i] \in Mixed
MCSpec == Init /\ [][MCNext]_vars

\* Two purchases and a sale that may be moved to the same day.
TiedKind == [t \in Txns |-> IF t = t2 THEN "SELL" ELSE "BUY"]
TiedOffers == [t \in Txns |-> CASE t = t1 -> {On(1, 1)}
                                [] t = t2 -> {On(2, 1), On(4, 1)}
                                [] OTHER -> {On(3, 1), On(4, 1)}]
=============================================================================
