------------------------------ MODULE RiskLimits ------------------------------
(***************************************************************************)
(* Risk limits of one portfolio and the durable life of their breaches and *)
(* alerts: risk_limits.py, the settings endpoint of risk_api.py and the    *)
(* acknowledgement of main.py.                                             *)
(*                                                                         *)
(* A request loads the profile, and a monitor the latest valuation, before *)
(* it locks the profile row; SQLAlchemy does not refresh an object that is *)
(* already loaded, so configuration (and limits that the valuation loaded) *)
(* are used as they were then.  Everything else is read under the lock and *)
(* becomes visible with the commit.  Readings and thresholds are small     *)
(* integers; a limit is on one metric.                                     *)
(***************************************************************************)
EXTENDS Null, Naturals, Sequences, FiniteSets

CONSTANTS
    Limits,       \* identifiers of risk limits
    Callers,      \* sessions that may be open at the same time
    Readings,     \* values of a metric
    Bounds,       \* limits: [threshold, direction]
    MaxCalls,     \* bound on the requests begun
    MaxMarks      \* bound on the changes of valuation

VARIABLES
    limits,        \* RiskLimit rows
    configuration, \* PortfolioProfile.configuration: disabled limits, and the other settings
    marks,         \* the readings of the latest valuation, None where it is undetermined
    marked,        \* changes of them so far
    breaches,      \* RiskBreach rows, one per limit
    alerts,        \* states of the alerts of each limit, in the order of creation
    audited,       \* the state in the last audit entry of each breach
    profileLock,   \* the session that holds the profile row FOR UPDATE
    calls,         \* what each session is doing
    begun          \* requests begun so far

riskVars == <<limits, configuration, marks, marked, breaches, alerts, audited, profileLock,
              calls, begun>>

Configuration == [disabled: SUBSET Limits, settings: 0 .. MaxCalls]
Valuation == [Limits -> Readings \cup {None}]
AlertState == {"OPEN", "RESOLVED"}
Breach == [state: {"OPEN", "UNDETERMINED", "RESOLVED"}, value: Readings]
\* loaded: configuration and valuation before the lock; rows: limits the valuation has
\* loaded; seen, alert: what was read under the lock.
Call == [phase: {"loaded", "locked"}, monitor: BOOLEAN,
         loaded: Configuration, readings: Valuation, rows: [Limits -> Bounds \cup {None}],
         seen: [Limits -> Breach \cup {None}], alert: [Limits -> AlertState \cup {None}]]

ASSUME RiskAssumption ==
    /\ None \notin Limits \cup Callers
    /\ None \notin Readings /\ None \notin Bounds /\ None \notin AlertState
    /\ None \notin Breach /\ None \notin Call
    /\ Readings \subseteq Nat
    /\ Bounds \subseteq [threshold: Readings, direction: {"MAX", "MIN"}]
    /\ MaxCalls \in Nat
    /\ MaxMarks \in Nat

RiskTypeOK ==
    /\ limits \in [Limits -> Bounds \cup {None}]
    /\ configuration \in Configuration
    /\ marks \in Valuation
    /\ marked \in Nat
    /\ breaches \in [Limits -> Breach \cup {None}]
    /\ alerts \in [Limits -> Seq(AlertState)]
    /\ audited \in [Limits -> {"OPEN", "UNDETERMINED", "RESOLVED", None}]
    /\ profileLock \in Callers \cup {None}
    /\ calls \in [Callers -> Call \cup {None}]
    /\ begun \in Nat

Nothing == [l \in Limits |-> None]

RiskInit ==
    /\ limits = Nothing
    /\ configuration = [disabled |-> {}, settings |-> 0]
    /\ marks = Nothing
    /\ marked = 0
    /\ breaches = Nothing
    /\ alerts = [l \in Limits |-> <<>>]
    /\ audited = Nothing
    /\ profileLock = None
    /\ calls = [c \in Callers |-> None]
    /\ begun = 0

register == <<breaches, alerts, audited>>

\* portfolio(), and for a monitor latest(): a cached valuation loads no limits.
Begin(c, monitor) ==
    /\ calls[c] = None
    /\ begun < MaxCalls
    /\ begun' = begun + 1
    /\ \E rows \in IF monitor THEN {limits, Nothing} ELSE {Nothing} :
          calls' = [calls EXCEPT ![c] =
              [phase |-> "loaded", monitor |-> monitor, loaded |-> configuration,
               readings |-> marks, rows |-> rows, seen |-> Nothing, alert |-> Nothing]]
    /\ UNCHANGED <<limits, configuration, marks, marked, profileLock>> /\ UNCHANGED register

Newest(s) == IF s = <<>> THEN None ELSE s[Len(s)]

\* Mutant: the profile is selected without FOR UPDATE.
Unlocked(c) == TRUE
Available(c) == profileLock = None
\* The profile row is locked, and limits, breaches and alerts are read.
TakeLock(c) ==
    /\ calls[c] # None
    /\ calls[c].phase = "loaded"
    /\ Available(c)
    /\ profileLock' = c
    /\ calls' = [calls EXCEPT
          ![c].phase = "locked",
          ![c].rows = [l \in Limits |-> IF @[l] = None THEN limits[l] ELSE @[l]],
          ![c].seen = breaches,
          ![c].alert = [l \in Limits |-> Newest(alerts[l])]]
    /\ UNCHANGED <<limits, configuration, marks, marked, begun>> /\ UNCHANGED register

Finish(c) ==
    /\ calls' = [calls EXCEPT ![c] = None]
    /\ profileLock' = IF profileLock = c THEN None ELSE profileLock

-----------------------------------------------------------------------------
(***************************************************************************)
(* evaluate                                                                *)
(***************************************************************************)
Breached(value, bound) ==
    IF bound.direction = "MAX" THEN value > bound.threshold ELSE value < bound.threshold

\* The state of a limit that the session sees.
Assessed(call, l) ==
    IF l \in call.loaded.disabled THEN "DISABLED"
    ELSE IF call.readings[l] = None THEN "NOT_EVALUATED"
    ELSE IF Breached(call.readings[l], call.rows[l]) THEN "BREACH" ELSE "OK"

\* Mutant: a missing reading closes the breach.
Closed(assessed) == "RESOLVED"
NotBreached(assessed) == IF assessed = "NOT_EVALUATED" THEN "UNDETERMINED" ELSE "RESOLVED"

BreachAfter(call, l) ==
    IF Assessed(call, l) = "BREACH" THEN [state |-> "OPEN", value |-> call.readings[l]]
    ELSE IF call.seen[l] = None THEN None
    ELSE [call.seen[l] EXCEPT !.state = NotBreached(Assessed(call, l))]

\* The newest alert is resolved, or a new one opened when there is none or it is
\* resolved already.
AlertsAfter(call, l) ==
    LET after == BreachAfter(call, l) IN
    CASE after # None /\ after.state = "OPEN" /\ call.alert[l] # "OPEN" -> Append(alerts[l], "OPEN")
      [] after # None /\ after.state = "RESOLVED" /\ call.alert[l] # None ->
            [alerts[l] EXCEPT ![Len(alerts[l])] = "RESOLVED"]
      [] OTHER -> alerts[l]

\* The rows of the limits, those that were created meanwhile left out; audited when
\* the state changes.
Evaluate(c) ==
    /\ calls[c] # None
    /\ calls[c].phase = "locked"
    /\ calls[c].monitor
    /\ LET call == calls[c]
           Known(l) == call.rows[l] # None
           Changed(l) == Known(l) /\ BreachAfter(call, l) # None
                         /\ (call.seen[l] = None \/ call.seen[l].state # BreachAfter(call, l).state)
       IN /\ breaches' = [l \in Limits |-> IF Known(l) THEN BreachAfter(call, l) ELSE breaches[l]]
          /\ alerts' = [l \in Limits |-> IF Known(l) THEN AlertsAfter(call, l) ELSE alerts[l]]
          /\ audited' = [l \in Limits |-> IF Changed(l) THEN BreachAfter(call, l).state
                                          ELSE audited[l]]
    /\ Finish(c)
    /\ UNCHANGED <<limits, configuration, marks, marked, begun>>

-----------------------------------------------------------------------------
(***************************************************************************)
(* configure, update_settings, acknowledge_alert                           *)
(***************************************************************************)
\* The JSON is written as a whole, when it differs from what was loaded.
Write(call, new) == configuration' = IF new = call.loaded THEN configuration ELSE new

Configure(c, l, bound, enabled) ==
    /\ calls[c] # None
    /\ calls[c].phase = "locked"
    /\ ~calls[c].monitor
    /\ limits' = [limits EXCEPT ![l] = bound]
    /\ Write(calls[c], [calls[c].loaded EXCEPT !.disabled = IF enabled THEN @ \ {l} ELSE @ \cup {l}])
    /\ Finish(c)
    /\ UNCHANGED <<marks, marked, begun>> /\ UNCHANGED register

\* No lock is taken, but the UPDATE waits for the one of another session.
UpdateSettings(c) ==
    /\ calls[c] # None
    /\ calls[c].phase = "loaded"
    /\ ~calls[c].monitor
    /\ profileLock = None
    /\ Write(calls[c], [calls[c].loaded EXCEPT !.settings = begun])
    /\ Finish(c)
    /\ UNCHANGED <<limits, marks, marked, begun>> /\ UNCHANGED register

\* An error, or the end of the process: rolled back.
Abandon(c) ==
    /\ calls[c] # None
    /\ Finish(c)
    /\ UNCHANGED <<limits, configuration, marks, marked, begun>> /\ UNCHANGED register

\* By primary key, without any lock.
Acknowledge(l, i) ==
    /\ alerts[l][i] = "OPEN"
    /\ alerts' = [alerts EXCEPT ![l][i] = "RESOLVED"]
    /\ UNCHANGED <<limits, configuration, marks, marked, breaches, audited, profileLock, calls,
                   begun>>

\* Prices, entries of the ledger or time: another valuation.
Revalue(l, reading) ==
    /\ marked < MaxMarks
    /\ reading # marks[l]
    /\ marks' = [marks EXCEPT ![l] = reading]
    /\ marked' = marked + 1
    /\ UNCHANGED <<limits, configuration, profileLock, calls, begun>> /\ UNCHANGED register

RiskNext ==
    \/ \E c \in Callers :
          \/ \E monitor \in BOOLEAN : Begin(c, monitor)
          \/ TakeLock(c) \/ Evaluate(c) \/ UpdateSettings(c) \/ Abandon(c)
          \/ \E l \in Limits, bound \in Bounds, enabled \in BOOLEAN : Configure(c, l, bound, enabled)
    \/ \E l \in Limits :
          \/ \E i \in DOMAIN alerts[l] : Acknowledge(l, i)
          \/ \E reading \in Readings \cup {None} : Revalue(l, reading)

RiskSpec == RiskInit /\ [][RiskNext]_riskVars

-----------------------------------------------------------------------------
\* "Repeated unchanged checks do not duplicate alerts.  Missing inputs leave existing
\* alerts open with undetermined breach state.  Reopening creates a new alert but
\* retains the original breach identifier" (docs/RISK_METHODOLOGY.md:46-51), however
\* monitors, configurations and acknowledgements interleave: a limit has at most one
\* open alert, it is the newest and has a breach behind it that is not resolved; an open
\* breach has raised an alert; and the audit trail ends in the state of the breach.
AlertsFollowBreaches ==
    \A l \in Limits :
        /\ \A i \in DOMAIN alerts[l] : alerts[l][i] = "OPEN" =>
              /\ i = Len(alerts[l])
              /\ breaches[l] # None
              /\ breaches[l].state # "RESOLVED"
        /\ breaches[l] # None => alerts[l] # <<>> /\ audited[l] = breaches[l].state

\* A monitor without a reading never closes an alert: one that is open becomes resolved
\* by its acknowledgement, or by a session that has a reading or has the limit disabled.
MissingNeverClears ==
    [][\A l \in Limits :
          breaches[l] # None /\ breaches'[l].state = "RESOLVED" /\ breaches[l].state # "RESOLVED" =>
              \E c \in Callers : /\ profileLock = c
                                 /\ \/ calls[c].readings[l] # None
                                    \/ l \in calls[c].loaded.disabled]_riskVars
=============================================================================
