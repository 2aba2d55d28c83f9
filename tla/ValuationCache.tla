---------------------------- MODULE ValuationCache ----------------------------
(***************************************************************************)
(* The cache of portfolio valuations: PortfolioValuationService.latest and *)
(* fingerprint, and load_entries and the resolvers as readers of tables.   *)
(*                                                                         *)
(* Every SELECT sees what is committed when it runs (READ COMMITTED), so a *)
(* fingerprint and a calculation are each read in several steps.  Three    *)
(* kinds of tables matter to a valuation: those that only grow and are in  *)
(* the fingerprint; one whose rows change (source precedence rules); and   *)
(* those that are read but not in the fingerprint (price bars, FX rates,   *)
(* instruments, the portfolio, the risk policy).                           *)
(*                                                                         *)
(* A fingerprint is not a version number: it has the count and the newest  *)
(* updated_at of each table, and, if the valuation is of today, the minute.*)
(* A change draws its updated_at, to the microsecond, before it commits,   *)
(* and takes no lock: two may commit in the other order, and the newest    *)
(* updated_at stays as it is, or falls.  No two of them are equal.         *)
(***************************************************************************)
EXTENDS Null, Naturals, FiniteSetsExt

CONSTANTS
    Viewers,      \* requests that value the portfolio
    Rules,        \* rows that may be changed
    MaxTime,      \* bound on the time, and so on the changes made
    MaxMinutes,   \* of the freshness epoch
    MaxViews      \* bound on the requests begun

VARIABLES
    time,      \* utcnow(): every change made takes a moment of its own
    minute,    \* of the freshness epoch
    dawn,      \* what was committed when each minute began
    appended,  \* rows of the growing tables
    uncounted, \* changes of the tables that are not in the fingerprint
    ruled,     \* updated_at of every rule
    changes,   \* changes of every rule committed
    overtaken, \* rules whose last change was committed after one with a later updated_at
    editing,   \* changes of rules under way, each with the updated_at it has drawn
    runs,      \* PortfolioValuationRun rows: [print, seen]
    views,     \* what each request is doing
    viewed     \* requests begun so far

tables == <<appended, uncounted, ruled, changes, overtaken, editing>>
clocks == <<time, minute, dawn>>
cacheVars == <<clocks, tables, runs, views, viewed>>

Edit == [rule: Rules, stamp: Nat]
Data == [appended: Nat, uncounted: Nat, changes: [Rules -> Nat]]
\* live: the valuation is of today.  One of the past has no minute.
Fingerprint == [count: Nat, newest: Nat, live: BOOLEAN, minute: 0 .. MaxMinutes]
Run == [print: Fingerprint, seen: Data]
\* begun: what was committed when the request came in; passed: the rules overtaken then or
\* since; print, seen: what it has read.
View == [phase: {"begun", "counted", "printed", "loaded", "valued", "served"},
         begun: Data, passed: SUBSET Rules, print: Fingerprint, seen: Data]

ASSUME CacheAssumption ==
    /\ None \notin Viewers /\ None \notin View
    /\ Rules # {} /\ IsFiniteSet(Rules)
    /\ MaxTime \in Nat /\ MaxMinutes \in Nat /\ MaxViews \in Nat

CacheTypeOK ==
    /\ time \in Nat
    /\ minute \in 0 .. MaxMinutes
    /\ dawn \in [0 .. MaxMinutes -> Data]
    /\ appended \in Nat
    /\ uncounted \in Nat
    /\ ruled \in [Rules -> Nat]
    /\ changes \in [Rules -> Nat]
    /\ overtaken \subseteq Rules
    /\ editing \subseteq Edit
    /\ runs \subseteq Run
    /\ views \in [Viewers -> View \cup {None}]
    /\ viewed \in Nat

Committed == [appended |-> appended, uncounted |-> uncounted, changes |-> changes]
LatestStamp == Max({ruled[r] : r \in Rules})

CacheInit ==
    /\ time = 0
    /\ minute = 0
    /\ appended = 0
    /\ uncounted = 0
    /\ ruled = [r \in Rules |-> 0]
    /\ changes = [r \in Rules |-> 0]
    /\ overtaken = {}
    /\ editing = {}
    /\ dawn = [m \in 0 .. MaxMinutes |-> Committed]
    /\ runs = {}
    /\ views = [v \in Viewers |-> None]
    /\ viewed = 0

-----------------------------------------------------------------------------
(***************************************************************************)
(* Others write: postings, observations and adjustments are added, prices  *)
(* and master data changed, and rules edited (source_rule), several at     *)
(* once.  A change that fails is one that is never committed.              *)
(***************************************************************************)
Moment == time < MaxTime /\ time' = time + 1

AppendRow ==
    /\ Moment
    /\ appended' = appended + 1
    /\ UNCHANGED <<minute, dawn, uncounted, ruled, changes, overtaken, editing>>
    /\ UNCHANGED <<runs, views, viewed>>

ChangeUncounted ==
    /\ Moment
    /\ uncounted' = uncounted + 1
    /\ UNCHANGED <<minute, dawn, appended, ruled, changes, overtaken, editing>>
    /\ UNCHANGED <<runs, views, viewed>>

\* The flush: the change draws an updated_at of its own.
EditRule(r) ==
    /\ Moment
    /\ editing' = editing \cup {[rule |-> r, stamp |-> time + 1]}
    /\ UNCHANGED <<minute, dawn, appended, uncounted, ruled, changes, overtaken>>
    /\ UNCHANGED <<runs, views, viewed>>

UnderWay(v) == views[v] # None /\ views[v].phase # "served"
CommitRule(e) ==
    /\ editing' = editing \ {e}
    /\ ruled' = [ruled EXCEPT ![e.rule] = e.stamp]
    /\ changes' = [changes EXCEPT ![e.rule] = @ + 1]
    /\ \/ /\ e.stamp > LatestStamp
          /\ overtaken' = overtaken \ {e.rule}
          /\ UNCHANGED views
       \/ /\ e.stamp < LatestStamp
          /\ overtaken' = overtaken \cup {e.rule}
          /\ views' = [v \in Viewers |->
                IF UnderWay(v) THEN [views[v] EXCEPT !.passed = @ \cup {e.rule}] ELSE views[v]]
    /\ UNCHANGED <<appended, uncounted, runs, viewed>> /\ UNCHANGED clocks

MinutePasses ==
    /\ minute < MaxMinutes
    /\ minute' = minute + 1
    /\ dawn' = [dawn EXCEPT ![minute + 1] = Committed]
    /\ UNCHANGED time /\ UNCHANGED tables /\ UNCHANGED <<runs, views, viewed>>
-----------------------------------------------------------------------------
(***************************************************************************)
(* latest                                                                  *)
(***************************************************************************)
Looks(v, phase) == views[v] # None /\ views[v].phase = phase
Elsewhere == UNCHANGED tables /\ UNCHANGED clocks

\* The day asked for, and the clock.
BeginView(v, live) ==
    /\ ~UnderWay(v)
    /\ viewed < MaxViews
    /\ viewed' = viewed + 1
    /\ views' = [views EXCEPT ![v] =
          [phase |-> "begun", begun |-> Committed, seen |-> Committed, passed |-> overtaken,
           print |-> [count |-> 0, newest |-> 0, live |-> live,
                      minute |-> IF live THEN minute ELSE 0]]]
    /\ UNCHANGED runs /\ Elsewhere

\* fingerprint, table by table.  Mutant: updated_at is not part of it.
CountsOnly(newest) == 0
Stamped(newest) == newest
CountRows(v) ==
    /\ Looks(v, "begun")
    /\ views' = [views EXCEPT ![v].phase = "counted", ![v].print.count = appended]
    /\ UNCHANGED <<runs, viewed>> /\ Elsewhere

StampRules(v) ==
    /\ Looks(v, "counted")
    /\ views' = [views EXCEPT ![v].phase = "printed", ![v].print.newest = Stamped(LatestStamp)]
    /\ UNCHANGED <<runs, viewed>> /\ Elsewhere

\* A run with this fingerprint is served.  Of several, the one whose created_at is the
\* newest, which may be any: it is drawn before the commit.
Cached(v) == {run \in runs : run.print = views[v].print}
ServeCached(v) ==
    /\ Looks(v, "printed")
    /\ \E run \in Cached(v) :
          views' = [views EXCEPT ![v].phase = "served", ![v].seen = run.seen]
    /\ UNCHANGED <<runs, viewed>> /\ Elsewhere

\* calculate, table by table, if there is none or the request is forced and does not look.
LoadRows(v) ==
    /\ Looks(v, "printed")
    /\ views' = [views EXCEPT ![v].phase = "loaded", ![v].seen.appended = appended,
                            ![v].seen.uncounted = uncounted]
    /\ UNCHANGED <<runs, viewed>> /\ Elsewhere

LoadRules(v) ==
    /\ Looks(v, "loaded")
    /\ views' = [views EXCEPT ![v].phase = "valued", ![v].seen.changes = changes]
    /\ UNCHANGED <<runs, viewed>> /\ Elsewhere

\* The run is stored under the fingerprint read first, and served.
StoreRun(v) ==
    /\ Looks(v, "valued")
    /\ runs' = runs \cup {[print |-> views[v].print, seen |-> views[v].seen]}
    /\ views' = [views EXCEPT ![v].phase = "served"]
    /\ UNCHANGED viewed /\ Elsewhere

\* No price, no entries or a lost connection: nothing is stored.
FailView(v) ==
    /\ UnderWay(v)
    /\ views' = [views EXCEPT ![v] = None]
    /\ UNCHANGED <<runs, viewed>> /\ Elsewhere

CacheNext ==
    \/ AppendRow \/ ChangeUncounted \/ MinutePasses
    \/ \E r \in Rules : EditRule(r)
    \/ \E e \in editing : CommitRule(e)
    \/ \E v \in Viewers :
          \/ \E live \in BOOLEAN : BeginView(v, live)
          \/ CountRows(v) \/ StampRules(v) \/ ServeCached(v)
          \/ LoadRows(v) \/ LoadRules(v) \/ StoreRun(v) \/ FailView(v)

CacheSpec == CacheInit /\ [][CacheNext]_cacheVars

-----------------------------------------------------------------------------
\* A valuation that is served, from the cache or not, holds every posting and observation
\* that was committed when it was asked for, though fingerprints and calculations are read
\* piece by piece while others post, and runs are stored under what was read before they
\* were calculated (portfolio_valuation.py:169-218).  It holds every change of a rule as
\* well, unless the rule was overtaken by then or before the answer: changes that commit
\* against the order of their updated_at do not move the fingerprint (source_rule takes no
\* lock), and a run without them is served.  Those, and the changes of tables that are not
\* in the fingerprint, are missing from a valuation of today for the rest of the minute at
\* most; from one of an earlier day, until something else moves the fingerprint.
Covers(seen, data) ==
    /\ seen.appended >= data.appended
    /\ seen.uncounted >= data.uncounted
    /\ \A r \in Rules : seen.changes[r] >= data.changes[r]

ServedIsCurrent ==
    \A v \in Viewers : Looks(v, "served") =>
        /\ views[v].seen.appended >= views[v].begun.appended
        /\ \A r \in Rules \ views[v].passed : views[v].seen.changes[r] >= views[v].begun.changes[r]
        /\ views[v].print.live => Covers(views[v].seen, dawn[views[v].print.minute])
=============================================================================
