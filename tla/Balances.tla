------------------------------- MODULE Balances -------------------------------
(***************************************************************************)
(* Audited balance adjustments of a portfolio: portfolio_balances.py.      *)
(*                                                                         *)
(* Each request is a transaction that takes the lock of the portfolio row, *)
(* reads the adjustments of its bucket and currency (an account, here),    *)
(* sums them day by day and inserts its own.  The statements of PostgreSQL *)
(* see what has been committed when they start (READ COMMITTED), so what   *)
(* is read after the lock was granted is what was committed by then.       *)
(***************************************************************************)
EXTENDS Null, Integers, FiniteSets, FiniteSetsExt

CONSTANTS
    Requests,   \* requests, each of them one transaction
    Accounts,   \* a bucket in a currency
    MaxDay,     \* the last day a request may name; days are 1 .. MaxDay
    Amounts     \* signed amounts of adjustments

Calendar == 1 .. MaxDay
Adjustment == [account: Accounts, day: Calendar, amount: Amounts]
Request == [phase: {"locked", "read", "done"}, row: Adjustment,
            seen: SUBSET Requests]   \* the rows it read, by their requests

ASSUME BalanceAssumption ==
    /\ None \notin Requests
    /\ None \notin Adjustment
    /\ None \notin Request
    /\ IsFiniteSet(Requests)
    /\ MaxDay \in Nat
    /\ Amounts \subseteq Int

VARIABLES
    adjustments,  \* committed PortfolioBalanceAdjustment rows, by the request that added them
    adjusting,    \* what each request is doing
    portfolioLock,\* the request that holds the portfolio row FOR UPDATE
    opening,      \* the first trade date of the ledger, or None
    current       \* today

balanceVars == <<adjustments, adjusting, portfolioLock, opening, current>>

BalanceTypeOK ==
    /\ adjustments \in [Requests -> Adjustment \cup {None}]
    /\ adjusting \in [Requests -> Request \cup {None}]
    /\ portfolioLock \in Requests \cup {None}
    /\ opening \in Calendar \cup {None}
    /\ current \in Calendar

BalanceInit ==
    /\ adjustments = [r \in Requests |-> None]
    /\ adjusting = [r \in Requests |-> None]
    /\ portfolioLock = None
    /\ opening \in Calendar \cup {None}
    /\ current \in Calendar

Rows(account) == {r \in Requests : adjustments[r] # None /\ adjustments[r].account = account}
\* The balance of an account at the end of a day, from the given rows.
Running(rows, day) ==
    MapThenSumSet(LAMBDA r : IF adjustments[r].day <= day THEN adjustments[r].amount ELSE 0, rows)

\* Mutant: SELECT without FOR UPDATE.
LockIgnored(r) == TRUE
LockFree(r) == portfolioLock = None
\* add: the row of the portfolio is locked ...
Lock(r, row) ==
    /\ adjusting[r] = None
    /\ LockFree(r)
    /\ portfolioLock' = r
    /\ adjusting' = [adjusting EXCEPT ![r] = [phase |-> "locked", row |-> row, seen |-> {}]]
    /\ UNCHANGED <<adjustments, opening, current>>

\* ... the dates are checked and the rows of the account are read ...
Read(r) ==
    /\ adjusting[r] # None
    /\ adjusting[r].phase = "locked"
    /\ LET row == adjusting[r].row IN
       /\ row.day <= current
       /\ opening # None
       /\ opening <= row.day
       /\ adjusting' = [adjusting EXCEPT ![r].phase = "read", ![r].seen = Rows(row.account)]
    /\ UNCHANGED <<adjustments, portfolioLock, opening, current>>

\* ... no balance may become negative on any day that has a change ...
\* Mutant: only the final balance is looked at.
FinalNonnegative(row, seen) == Running(seen, MaxDay) + row.amount >= 0
NeverNegative(row, seen) ==
    \A day \in Calendar :
        Running(seen, day) + (IF row.day <= day THEN row.amount ELSE 0) >= 0

\* ... and the row is committed, which ends the lock.
Commit(r) ==
    /\ adjusting[r] # None
    /\ adjusting[r].phase = "read"
    /\ NeverNegative(adjusting[r].row, adjusting[r].seen)
    /\ adjustments' = [adjustments EXCEPT ![r] = adjusting[r].row]
    /\ adjusting' = [adjusting EXCEPT ![r].phase = "done"]
    /\ portfolioLock' = IF portfolioLock = r THEN None ELSE portfolioLock
    /\ UNCHANGED <<opening, current>>

\* A check fails, the client goes away or the API dies: the transaction is rolled back.
Rollback(r) ==
    /\ adjusting[r] # None
    /\ adjusting[r].phase # "done"
    /\ adjusting' = [adjusting EXCEPT ![r].phase = "done"]
    /\ portfolioLock' = IF portfolioLock = r THEN None ELSE portfolioLock
    /\ UNCHANGED <<adjustments, opening, current>>

\* Postings and corrections of the ledger move its first trade date.
LedgerMoves ==
    /\ opening' \in Calendar
    /\ opening' # opening
    /\ UNCHANGED <<adjustments, adjusting, portfolioLock, current>>

NextDay ==
    /\ current < MaxDay
    /\ current' = current + 1
    /\ UNCHANGED <<adjustments, adjusting, portfolioLock, opening>>

BalanceNext ==
    \/ \E r \in Requests :
          \/ \E row \in Adjustment : Lock(r, row)
          \/ Read(r) \/ Commit(r) \/ Rollback(r)
    \/ LedgerMoves \/ NextDay

BalanceSpec == BalanceInit /\ [][BalanceNext]_balanceVars

-----------------------------------------------------------------------------
\* "Adjustment makes {bucket} in {currency} negative" (portfolio_balances.py:108): the
\* committed adjustments of an account, whoever added them and in whatever order of
\* days, never leave it with a negative balance at the end of a day.
NeverOverdrawn == \A a \in Accounts, day \in Calendar : Running(Rows(a), day) >= 0
=============================================================================
