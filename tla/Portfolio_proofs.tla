-------------------------- MODULE Portfolio_proofs --------------------------
(***************************************************************************)
(* Proofs about what a desk looks at: the risk limits (RiskLimits), the    *)
(* cache of valuations (ValuationCache), the sources of prices and rates   *)
(* (PriceSources) and the saved workspaces (Workspaces).                   *)
(*                                                                         *)
(* Risk limits.  The register is written under the lock of the profile, so *)
(* what a session has read there is still true when it commits, but for    *)
(* the acknowledgement of an alert, which takes no lock: an alert that was *)
(* read as open may be resolved by then, never the other way (RegisterInv).*)
(***************************************************************************)
EXTENDS RiskLimits, ValuationCache, PriceSources, Workspaces, SequenceTheorems,
        FiniteSetTheorems, WellFoundedInduction, TLAPS

\* What a session knows of limit l under the lock.
StillTrue(call, l) ==
    /\ call.seen[l] = breaches[l]
    /\ call.alert[l] = None <=> alerts[l] = <<>>
    /\ call.alert[l] = "RESOLVED" => alerts[l][Len(alerts[l])] = "RESOLVED"

LockInv == \A c \in Callers : calls[c] # None /\ calls[c].phase = "locked" => profileLock = c

RegisterInv ==
    \A c \in Callers : calls[c] # None /\ calls[c].phase = "locked" =>
        \A l \in Limits : StillTrue(calls[c], l)

RiskInv ==
    /\ RiskTypeOK
    /\ begun <= MaxCalls
    /\ LockInv
    /\ RegisterInv
    /\ AlertsFollowBreaches

-----------------------------------------------------------------------------
LEMMA RiskInitially == RiskInit => RiskInv
<1> SUFFICES ASSUME RiskInit PROVE RiskInv
  OBVIOUS
<1>1. RiskTypeOK
  BY RiskAssumption DEF RiskInit, RiskTypeOK, Configuration, Valuation, Nothing
<1>2. begun <= MaxCalls /\ LockInv /\ RegisterInv
  BY RiskAssumption DEF RiskInit, LockInv, RegisterInv
<1>3. AlertsFollowBreaches
  BY DEF RiskInit, AlertsFollowBreaches, Nothing
<1> QED
  BY <1>1, <1>2, <1>3 DEF RiskInv

\* The sessions when c goes on with call and everybody else stays.
LEMMA CallerStep ==
    ASSUME RiskInv, NEW c \in Callers, NEW call \in Call \cup {None},
           calls' = [calls EXCEPT ![c] = call]
    PROVE  /\ calls' \in [Callers -> Call \cup {None}]
           /\ calls'[c] = call
           /\ \A d \in Callers : d # c => calls'[d] = calls[d]
BY DEF RiskInv, RiskTypeOK

LEMMA ByBegin ==
    ASSUME RiskInv, NEW c \in Callers, NEW monitor \in BOOLEAN, Begin(c, monitor)
    PROVE  RiskInv'
<1>0. PICK rows \in [Limits -> Bounds \cup {None}] :
         calls' = [calls EXCEPT ![c] =
             [phase |-> "loaded", monitor |-> monitor, loaded |-> configuration,
              readings |-> marks, rows |-> rows, seen |-> Nothing, alert |-> Nothing]]
  BY DEF Begin, RiskInv, RiskTypeOK, Nothing
<1>1. PICK call :
         /\ call = [phase |-> "loaded", monitor |-> monitor, loaded |-> configuration,
                    readings |-> marks, rows |-> rows, seen |-> Nothing, alert |-> Nothing]
         /\ calls' = [calls EXCEPT ![c] = call]
  BY <1>0
<1>2. /\ UNCHANGED <<limits, configuration, marks, marked, profileLock, breaches, alerts, audited>>
      /\ begun < MaxCalls /\ begun' = begun + 1 /\ begun \in Nat
      /\ configuration \in Configuration /\ marks \in Valuation
  BY DEF Begin, register, RiskInv, RiskTypeOK
<1>3. call \in Call /\ call.phase = "loaded"
  BY <1>1, <1>2 DEF Call, Nothing
<1>4. /\ calls' \in [Callers -> Call \cup {None}] /\ calls'[c] = call
      /\ \A d \in Callers : d # c => calls'[d] = calls[d]
  BY <1>1, <1>3, CallerStep
<1>5. RiskTypeOK' /\ begun' <= MaxCalls
  BY <1>2, <1>4, RiskAssumption DEF RiskInv, RiskTypeOK
<1>6. LockInv' /\ RegisterInv'
  BY <1>2, <1>3, <1>4 DEF RiskInv, LockInv, RegisterInv, StillTrue
<1>7. AlertsFollowBreaches'
  BY <1>2 DEF RiskInv, AlertsFollowBreaches
<1> QED
  BY <1>5, <1>6, <1>7 DEF RiskInv

LEMMA NewestIsLast ==
    ASSUME NEW s \in Seq(AlertState)
    PROVE  /\ Newest(s) \in AlertState \cup {None}
           /\ Newest(s) = None <=> s = <<>>
           /\ Newest(s) # None => Newest(s) = s[Len(s)]
<1>1. CASE s = <<>>
  BY <1>1 DEF Newest
<1>2. CASE s # <<>>
  <2>1. s[Len(s)] \in AlertState
    BY <1>2, EmptySeq, LenProperties, ElementOfSeq
  <2> QED
    BY <1>2, <2>1, RiskAssumption DEF Newest
<1> QED
  BY <1>1, <1>2

LEMMA ByTakeLock ==
    ASSUME RiskInv, NEW c \in Callers, TakeLock(c)
    PROVE  RiskInv'
<1>0. PICK rows, newest, call :
         /\ rows = [l \in Limits |-> IF calls[c].rows[l] = None THEN limits[l] ELSE calls[c].rows[l]]
         /\ newest = [l \in Limits |-> Newest(alerts[l])]
         /\ call = [calls[c] EXCEPT !.phase = "locked", !.rows = rows, !.seen = breaches,
                                   !.alert = newest]
  OBVIOUS
<1>1. /\ UNCHANGED <<limits, configuration, marks, marked, begun, breaches, alerts, audited>>
      /\ calls[c] \in Call /\ calls[c] # None
      /\ profileLock = None /\ profileLock' = c
      /\ limits \in [Limits -> Bounds \cup {None}]
      /\ breaches \in [Limits -> Breach \cup {None}]
      /\ alerts \in [Limits -> Seq(AlertState)]
  BY DEF TakeLock, Available, register, RiskInv, RiskTypeOK
<1>2. rows \in [Limits -> Bounds \cup {None}]
  BY <1>0, <1>1 DEF Call
<1>3. /\ newest \in [Limits -> AlertState \cup {None}]
      /\ \A l \in Limits : /\ newest[l] = None <=> alerts[l] = <<>>
                           /\ newest[l] # None => newest[l] = alerts[l][Len(alerts[l])]
  BY <1>0, <1>1, NewestIsLast
<1>4. /\ call \in Call /\ call.phase = "locked"
      /\ call.seen = breaches /\ call.alert = newest
  BY <1>0, <1>1, <1>2, <1>3 DEF Call
<1>5. calls' = [calls EXCEPT ![c] = call]
  BY <1>0 DEF TakeLock
<1>6. /\ calls' \in [Callers -> Call \cup {None}] /\ calls'[c] = call
      /\ \A d \in Callers : d # c => calls'[d] = calls[d]
  BY <1>4, <1>5, CallerStep
<1>7. RiskTypeOK' /\ begun' <= MaxCalls
  BY <1>1, <1>6 DEF RiskInv, RiskTypeOK
<1>8. \A d \in Callers : d # c => ~(calls[d] # None /\ calls[d].phase = "locked")
  BY <1>1, RiskAssumption DEF RiskInv, LockInv
<1>9. LockInv'
  BY <1>1, <1>6, <1>8 DEF LockInv
<1>10. RegisterInv'
  <2>0. "RESOLVED" # None
    BY RiskAssumption DEF AlertState
  <2>1. ASSUME NEW l \in Limits PROVE StillTrue(call, l)'
    <3>1. call.seen[l] = breaches'[l] /\ alerts'[l] = alerts[l]
      BY <1>1, <1>4
    <3>2. call.alert[l] = newest[l]
      BY <1>4
    <3>3. newest[l] = None <=> alerts[l] = <<>>
      BY <1>3
    <3>4. newest[l] = "RESOLVED" => alerts[l][Len(alerts[l])] = "RESOLVED"
      BY <1>3, <2>0
    <3> HIDE <1>0
    <3> QED
      BY <3>1, <3>2, <3>3, <3>4 DEF StillTrue
  <2> QED
    BY <1>6, <1>8, <2>1 DEF RegisterInv, StillTrue
<1>11. AlertsFollowBreaches'
  BY <1>1 DEF RiskInv, AlertsFollowBreaches
<1> QED
  BY <1>7, <1>9, <1>10, <1>11 DEF RiskInv

(***************************************************************************)
(* The end of a session.                                                   *)
(***************************************************************************)
LEMMA Finished ==
    ASSUME RiskInv, NEW c \in Callers, Finish(c)
    PROVE  /\ calls' \in [Callers -> Call \cup {None}] /\ calls'[c] = None
           /\ \A d \in Callers : d # c => calls'[d] = calls[d]
           /\ profileLock' \in Callers \cup {None}
           /\ LockInv'
           /\ profileLock = c => \A d \in Callers :
                  ~(calls'[d] # None /\ calls'[d].phase = "locked")
<1>1. calls' = [calls EXCEPT ![c] = None]
  BY DEF Finish
<1>2. /\ calls' \in [Callers -> Call \cup {None}] /\ calls'[c] = None
      /\ \A d \in Callers : d # c => calls'[d] = calls[d]
  BY <1>1, CallerStep
<1>3. profileLock' = (IF profileLock = c THEN None ELSE profileLock)
      /\ profileLock \in Callers \cup {None}
  BY DEF Finish, RiskInv, RiskTypeOK
<1>4. LockInv'
  BY <1>2, <1>3 DEF RiskInv, LockInv
<1> QED
  BY <1>2, <1>3, <1>4 DEF RiskInv, LockInv

\* A session that ends without touching the register.
LEMMA EndsQuietly ==
    ASSUME RiskInv, NEW c \in Callers, Finish(c),
           UNCHANGED <<marks, marked, begun, breaches, alerts, audited>>,
           limits' \in [Limits -> Bounds \cup {None}], configuration' \in Configuration
    PROVE  RiskInv'
<1>1. /\ calls' \in [Callers -> Call \cup {None}] /\ calls'[c] = None
      /\ \A d \in Callers : d # c => calls'[d] = calls[d]
      /\ profileLock' \in Callers \cup {None} /\ LockInv'
  BY Finished
<1>2. RiskTypeOK' /\ begun' <= MaxCalls
  BY <1>1 DEF RiskInv, RiskTypeOK
<1>3. RegisterInv' /\ AlertsFollowBreaches'
  BY <1>1 DEF RiskInv, RegisterInv, StillTrue, AlertsFollowBreaches
<1> QED
  BY <1>1, <1>2, <1>3 DEF RiskInv

LEMMA Written ==
    ASSUME RiskInv, NEW call \in Call, NEW new \in Configuration, Write(call, new)
    PROVE  configuration' \in Configuration
BY DEF Write, RiskInv, RiskTypeOK

LEMMA ByConfigure ==
    ASSUME RiskInv, NEW c \in Callers, NEW l \in Limits, NEW bound \in Bounds,
           NEW enabled \in BOOLEAN, Configure(c, l, bound, enabled)
    PROVE  RiskInv'
<1>0. PICK new : new = [calls[c].loaded EXCEPT !.disabled = IF enabled THEN @ \ {l} ELSE @ \cup {l}]
  OBVIOUS
<1>1. /\ calls[c] \in Call /\ Finish(c) /\ Write(calls[c], new)
      /\ UNCHANGED <<marks, marked, begun, breaches, alerts, audited>>
      /\ limits' = [limits EXCEPT ![l] = bound] /\ limits \in [Limits -> Bounds \cup {None}]
  BY <1>0 DEF Configure, register, RiskInv, RiskTypeOK
<1>2. new \in Configuration
  BY <1>0, <1>1 DEF Call, Configuration
<1>3. configuration' \in Configuration /\ limits' \in [Limits -> Bounds \cup {None}]
  BY <1>1, <1>2, Written
<1> QED
  BY <1>1, <1>3, EndsQuietly

LEMMA ByUpdateSettings ==
    ASSUME RiskInv, NEW c \in Callers, UpdateSettings(c)
    PROVE  RiskInv'
<1>0. PICK new : new = [calls[c].loaded EXCEPT !.settings = begun]
  OBVIOUS
<1>1. /\ calls[c] \in Call /\ Finish(c) /\ Write(calls[c], new)
      /\ UNCHANGED <<limits, marks, marked, begun, breaches, alerts, audited>>
      /\ limits \in [Limits -> Bounds \cup {None}]
      /\ begun \in 0 .. MaxCalls
  BY <1>0, RiskAssumption DEF UpdateSettings, register, RiskInv, RiskTypeOK
<1>2. new \in Configuration
  BY <1>0, <1>1 DEF Call, Configuration
<1>3. configuration' \in Configuration
  BY <1>1, <1>2, Written
<1> QED
  BY <1>1, <1>3, EndsQuietly

LEMMA ByAbandon ==
    ASSUME RiskInv, NEW c \in Callers, Abandon(c)
    PROVE  RiskInv'
BY EndsQuietly DEF Abandon, register, RiskInv, RiskTypeOK

(***************************************************************************)
(* An acknowledgement: an open alert is the newest, and is resolved.       *)
(***************************************************************************)
LEMMA ByAcknowledge ==
    ASSUME RiskInv, NEW l \in Limits, NEW i \in DOMAIN alerts[l], Acknowledge(l, i)
    PROVE  RiskInv'
<1>1. /\ UNCHANGED <<limits, configuration, marks, marked, breaches, audited, profileLock, calls,
                      begun>>
      /\ alerts[l][i] = "OPEN"
      /\ alerts \in [Limits -> Seq(AlertState)]
      /\ alerts' = [alerts EXCEPT ![l] = [alerts[l] EXCEPT ![i] = "RESOLVED"]]
  BY DEF Acknowledge, RiskInv, RiskTypeOK
<1>2. i \in 1 .. Len(alerts[l]) /\ "RESOLVED" \in AlertState
  BY <1>1 DEF AlertState
<1>3. PICK resolved : resolved = [alerts[l] EXCEPT ![i] = "RESOLVED"]
  OBVIOUS
<1>4. /\ resolved \in Seq(AlertState) /\ Len(resolved) = Len(alerts[l])
      /\ resolved[i] = "RESOLVED"
      /\ \A k \in 1 .. Len(alerts[l]) : k # i => resolved[k] = alerts[l][k]
  BY <1>1, <1>2, <1>3, ExceptSeq
<1>5. /\ alerts' \in [Limits -> Seq(AlertState)] /\ alerts'[l] = resolved
      /\ \A m \in Limits : m # l => alerts'[m] = alerts[m]
  BY <1>1, <1>3, <1>4
<1>6. Len(alerts[l]) \in Nat /\ alerts[l] # <<>> /\ resolved # <<>>
  BY <1>1, <1>2, <1>4, EmptySeq, LenProperties
<1>7. RiskTypeOK' /\ begun' <= MaxCalls /\ LockInv'
  BY <1>1, <1>5 DEF RiskInv, RiskTypeOK, LockInv
<1>8. RegisterInv'
  <2> SUFFICES ASSUME NEW c \in Callers, calls[c] # None, calls[c].phase = "locked",
                      NEW m \in Limits
               PROVE  /\ calls[c].seen[m] = breaches[m]
                      /\ calls[c].alert[m] = None <=> alerts'[m] = <<>>
                      /\ calls[c].alert[m] = "RESOLVED" =>
                            alerts'[m][Len(alerts'[m])] = "RESOLVED"
    BY <1>1 DEF RegisterInv, StillTrue
  <2>1. StillTrue(calls[c], m)
    BY DEF RiskInv, RegisterInv
  <2>2. CASE m # l
    BY <1>5, <2>1, <2>2 DEF StillTrue
  <2>3. CASE m = l
    <3>1. calls[c].alert[m] = "RESOLVED" => resolved[Len(resolved)] = "RESOLVED"
      BY <1>2, <1>4, <1>6, <2>1, <2>3 DEF StillTrue
    <3> QED
      BY <1>5, <1>6, <2>1, <2>3, <3>1 DEF StillTrue
  <2> QED
    BY <2>2, <2>3
<1>9. AlertsFollowBreaches'
  <2> SUFFICES ASSUME NEW m \in Limits
               PROVE  /\ \A k \in DOMAIN alerts'[m] : alerts'[m][k] = "OPEN" =>
                            /\ k = Len(alerts'[m])
                            /\ breaches[m] # None
                            /\ breaches[m].state # "RESOLVED"
                      /\ breaches[m] # None =>
                            alerts'[m] # <<>> /\ audited[m] = breaches[m].state
    BY <1>1 DEF AlertsFollowBreaches
  <2>1. CASE m # l
    BY <1>5, <2>1 DEF RiskInv, AlertsFollowBreaches
  <2>2. CASE m = l
    <3>1. \A k \in 1 .. Len(alerts[l]) : resolved[k] = "OPEN" => alerts[l][k] = "OPEN"
      BY <1>4
    <3>2. DOMAIN resolved = 1 .. Len(alerts[l]) /\ DOMAIN alerts[l] = 1 .. Len(alerts[l])
      BY <1>1, <1>4, LenProperties
    <3> QED
      BY <1>4, <1>5, <1>6, <2>2, <3>1, <3>2 DEF RiskInv, AlertsFollowBreaches
  <2> QED
    BY <2>1, <2>2
<1> QED
  BY <1>7, <1>8, <1>9 DEF RiskInv

LEMMA ByRevalue ==
    ASSUME RiskInv, NEW l \in Limits, NEW reading \in Readings \cup {None}, Revalue(l, reading)
    PROVE  RiskInv'
<1>1. /\ UNCHANGED <<limits, configuration, profileLock, calls, begun, breaches, alerts, audited>>
      /\ marks' = [marks EXCEPT ![l] = reading] /\ marked' = marked + 1
  BY DEF Revalue, register
<1>2. RiskTypeOK'
  BY <1>1 DEF RiskInv, RiskTypeOK, Valuation
<1>3. begun' <= MaxCalls /\ LockInv' /\ RegisterInv' /\ AlertsFollowBreaches'
  BY <1>1 DEF RiskInv, LockInv, RegisterInv, StillTrue, AlertsFollowBreaches
<1> QED
  BY <1>2, <1>3 DEF RiskInv

(***************************************************************************)
(* An evaluation, limit by limit: what becomes of the breach and of the    *)
(* alerts.  Alerts of a limit with an open newest alert, or none open, are *)
(* in order.                                                               *)
(***************************************************************************)
NewestOnly(trail, breach) ==
    \A k \in 1 .. Len(trail) : trail[k] = "OPEN" =>
        k = Len(trail) /\ breach # None /\ breach.state # "RESOLVED"

LEMMA Assessment ==
    ASSUME NEW call, NEW l \in Limits
    PROVE  /\ Assessed(call, l) = "BREACH" => call.readings[l] # None
           /\ Assessed(call, l) \notin {"BREACH", "NOT_EVALUATED"} =>
                 call.readings[l] # None \/ l \in call.loaded.disabled
BY DEF Assessed

LEMMA Outcome ==
    ASSUME RiskInv, NEW c \in Callers, NEW call, call = calls[c], call # None,
           call.phase = "locked", NEW l \in Limits, call.rows[l] # None,
           NEW after, after = BreachAfter(call, l), NEW trail, trail = AlertsAfter(call, l)
    PROVE  /\ after \in Breach \cup {None}
           /\ after = None => breaches[l] = None
           /\ trail \in Seq(AlertState)
           /\ NewestOnly(trail, after)
           /\ after # None => trail # <<>>
           /\ after # None /\ after.state = "RESOLVED" =>
                 call.readings[l] # None \/ l \in call.loaded.disabled
<1>1. /\ call \in Call
      /\ call.seen[l] = breaches[l]
      /\ call.alert[l] = None <=> alerts[l] = <<>>
      /\ call.alert[l] = "RESOLVED" => alerts[l][Len(alerts[l])] = "RESOLVED"
  BY DEF RiskInv, RiskTypeOK, RegisterInv, StillTrue
<1>2. /\ breaches[l] \in Breach \cup {None} /\ alerts[l] \in Seq(AlertState)
      /\ call.readings[l] \in Readings \cup {None} /\ call.alert[l] \in AlertState \cup {None}
  BY <1>1 DEF RiskInv, RiskTypeOK, Call, Valuation
<1>3. /\ Len(alerts[l]) \in Nat /\ DOMAIN alerts[l] = 1 .. Len(alerts[l])
      /\ alerts[l] # <<>> => Len(alerts[l]) \in 1 .. Len(alerts[l])
  BY <1>2, EmptySeq, LenProperties
<1>4. NewestOnly(alerts[l], breaches[l]) /\ (breaches[l] # None => alerts[l] # <<>>)
  BY <1>3 DEF RiskInv, AlertsFollowBreaches, NewestOnly
<1>5. None \notin AlertState /\ "OPEN" \in AlertState /\ "RESOLVED" \in AlertState
  BY RiskAssumption DEF AlertState
<1>6. CASE Assessed(call, l) = "BREACH"
  <2>1. after = [state |-> "OPEN", value |-> call.readings[l]]
    BY <1>6 DEF BreachAfter
  <2>2. after \in Breach /\ after.state = "OPEN"
    BY <1>2, <1>6, <2>1, Assessment DEF Breach
  <2>3. after # None
    BY <2>2, RiskAssumption
  <2>4. CASE call.alert[l] # "OPEN"
    <3>1. trail = Append(alerts[l], "OPEN")
      BY <2>2, <2>3, <2>4 DEF AlertsAfter
    <3>2. /\ trail \in Seq(AlertState) /\ Len(trail) = Len(alerts[l]) + 1
          /\ \A k \in 1 .. Len(alerts[l]) : trail[k] = alerts[l][k]
      BY <1>2, <1>5, <3>1, AppendProperties
    <3>3. \A k \in 1 .. Len(alerts[l]) : alerts[l][k] # "OPEN"
      BY <1>1, <1>2, <1>3, <1>4, <1>5, <2>4 DEF NewestOnly, AlertState
    <3>4. NewestOnly(trail, after)
      BY <1>3, <2>2, <2>3, <3>2, <3>3 DEF NewestOnly
    <3>5. trail # <<>>
      BY <1>3, <3>2, EmptySeq
    <3> QED
      BY <2>2, <2>3, <3>2, <3>4, <3>5
  <2>5. CASE call.alert[l] = "OPEN"
    <3>1. trail = alerts[l]
      BY <2>2, <2>5 DEF AlertsAfter
    <3>2. alerts[l] # <<>>
      BY <1>1, <1>5, <2>5
    <3>3. NewestOnly(trail, after)
      BY <1>4, <2>2, <2>3, <3>1 DEF NewestOnly
    <3> QED
      BY <1>2, <2>2, <2>3, <3>1, <3>2, <3>3
  <2> QED
    BY <2>4, <2>5
<1>7. CASE Assessed(call, l) # "BREACH" /\ breaches[l] = None
  <2>1. after = None
    BY <1>1, <1>7 DEF BreachAfter
  <2>2. trail = alerts[l]
    BY <2>1 DEF AlertsAfter
  <2>3. NewestOnly(trail, after)
    BY <1>4, <1>7, <2>1, <2>2
  <2> QED
    BY <1>2, <1>7, <2>1, <2>2, <2>3
<1>8. CASE Assessed(call, l) # "BREACH" /\ breaches[l] # None
  <2>1. after = [breaches[l] EXCEPT !.state = NotBreached(Assessed(call, l))]
    BY <1>1, <1>8 DEF BreachAfter
  <2>2. /\ after \in Breach
        /\ after.state = IF Assessed(call, l) = "NOT_EVALUATED" THEN "UNDETERMINED" ELSE "RESOLVED"
    BY <1>2, <1>8, <2>1 DEF Breach, NotBreached
  <2>3. after # None
    BY <2>2, RiskAssumption
  <2>4. alerts[l] # <<>> /\ call.alert[l] # None
    BY <1>1, <1>4, <1>8
  <2>5. CASE Assessed(call, l) = "NOT_EVALUATED"
    <3>1. after.state = "UNDETERMINED"
      BY <2>2, <2>5
    <3>2. trail = alerts[l]
      BY <3>1 DEF AlertsAfter
    <3>3. NewestOnly(trail, after)
      BY <1>4, <2>3, <3>1, <3>2 DEF NewestOnly
    <3> QED
      BY <1>2, <2>2, <2>3, <2>4, <3>1, <3>2, <3>3
  <2>6. CASE Assessed(call, l) # "NOT_EVALUATED"
    <3>1. after.state = "RESOLVED"
      BY <2>2, <2>6
    <3>2. trail = [alerts[l] EXCEPT ![Len(alerts[l])] = "RESOLVED"]
      BY <2>3, <2>4, <3>1 DEF AlertsAfter
    <3>3. /\ trail \in Seq(AlertState) /\ Len(trail) = Len(alerts[l])
          /\ trail[Len(alerts[l])] = "RESOLVED"
          /\ \A k \in 1 .. Len(alerts[l]) : k # Len(alerts[l]) => trail[k] = alerts[l][k]
      BY <1>2, <1>3, <1>5, <2>4, <3>2, ExceptSeq
    <3>4. NewestOnly(trail, after)
      BY <1>4, <3>3 DEF NewestOnly
    <3>5. trail # <<>>
      BY <1>2, <1>3, <2>4, <3>3, EmptySeq
    <3>6. call.readings[l] # None \/ l \in call.loaded.disabled
      BY <1>8, <2>6, Assessment
    <3> QED
      BY <2>2, <2>3, <3>3, <3>4, <3>5, <3>6
  <2> QED
    BY <2>5, <2>6
<1> QED
  BY <1>6, <1>7, <1>8

\* All limits together, and what an evaluation may do to a breach.
LEMMA ByEvaluate ==
    ASSUME RiskInv, NEW c \in Callers, Evaluate(c)
    PROVE  /\ RiskInv'
           /\ profileLock = c
           /\ \A l \in Limits :
                 breaches[l] # None /\ breaches'[l].state = "RESOLVED"
                                    /\ breaches[l].state # "RESOLVED" =>
                    calls[c].readings[l] # None \/ l \in calls[c].loaded.disabled
<1>0. PICK call : call = calls[c]
  OBVIOUS
<1> DEFINE After(l) == BreachAfter(call, l)
           IsRead(l) == call.rows[l] # None
           Changed(l) == IsRead(l) /\ After(l) # None
                         /\ (call.seen[l] = None \/ call.seen[l].state # After(l).state)
<1>1. /\ UNCHANGED <<limits, configuration, marks, marked, begun>>
      /\ call # None /\ call.phase = "locked" /\ Finish(c)
      /\ breaches' = [l \in Limits |-> IF IsRead(l) THEN After(l) ELSE breaches[l]]
      /\ alerts' = [l \in Limits |-> IF IsRead(l) THEN AlertsAfter(call, l) ELSE alerts[l]]
      /\ audited' = [l \in Limits |-> IF Changed(l) THEN After(l).state ELSE audited[l]]
  BY <1>0 DEF Evaluate
<1>2. profileLock = c
  BY <1>0, <1>1 DEF RiskInv, LockInv
<1>3. /\ calls' \in [Callers -> Call \cup {None}] /\ profileLock' \in Callers \cup {None}
      /\ LockInv'
      /\ \A d \in Callers : ~(calls'[d] # None /\ calls'[d].phase = "locked")
  BY <1>1, <1>2, Finished
<1>4. ASSUME NEW l \in Limits
      PROVE  /\ breaches'[l] \in Breach \cup {None}
             /\ alerts'[l] \in Seq(AlertState)
             /\ audited'[l] \in {"OPEN", "UNDETERMINED", "RESOLVED", None}
             /\ NewestOnly(alerts'[l], breaches'[l])
             /\ breaches'[l] # None => alerts'[l] # <<>> /\ audited'[l] = breaches'[l].state
             /\ breaches[l] # None /\ breaches'[l].state = "RESOLVED"
                                   /\ breaches[l].state # "RESOLVED" =>
                   call.readings[l] # None \/ l \in call.loaded.disabled
  <2>1. /\ breaches[l] \in Breach \cup {None} /\ alerts[l] \in Seq(AlertState)
        /\ audited[l] \in {"OPEN", "UNDETERMINED", "RESOLVED", None}
        /\ DOMAIN alerts[l] = 1 .. Len(alerts[l])
    BY LenProperties DEF RiskInv, RiskTypeOK
  <2>2. /\ NewestOnly(alerts[l], breaches[l])
        /\ breaches[l] # None => alerts[l] # <<>> /\ audited[l] = breaches[l].state
    BY <2>1 DEF RiskInv, AlertsFollowBreaches, NewestOnly
  <2>3. CASE ~IsRead(l)
    <3>1. breaches'[l] = breaches[l] /\ alerts'[l] = alerts[l] /\ audited'[l] = audited[l]
      BY <1>1, <2>3
    <3> QED
      BY <2>1, <2>2, <3>1
  <2>4. CASE IsRead(l)
    <3>1. PICK after, trail : after = BreachAfter(call, l) /\ trail = AlertsAfter(call, l)
      OBVIOUS
    <3>2. /\ after \in Breach \cup {None}
          /\ after = None => breaches[l] = None
          /\ trail \in Seq(AlertState)
          /\ NewestOnly(trail, after)
          /\ after # None => trail # <<>>
          /\ after # None /\ after.state = "RESOLVED" =>
                call.readings[l] # None \/ l \in call.loaded.disabled
      BY <1>0, <1>1, <2>4, <3>1, Outcome
    <3>3. call.seen[l] = breaches[l]
      BY <1>0, <1>1 DEF RiskInv, RegisterInv, StillTrue
    <3>4. breaches'[l] = after /\ alerts'[l] = trail
      BY <1>1, <2>4, <3>1
    <3>5. audited'[l] = IF after # None /\ (breaches[l] = None \/ breaches[l].state # after.state)
                        THEN after.state ELSE audited[l]
      BY <1>1, <2>4, <3>1, <3>3
    <3>6. after # None => audited'[l] = after.state /\ after.state \in {"OPEN", "UNDETERMINED", "RESOLVED"}
      BY <2>2, <3>2, <3>5 DEF Breach
    <3>7. audited'[l] \in {"OPEN", "UNDETERMINED", "RESOLVED", None}
      BY <2>1, <3>5, <3>6
    <3> QED
      BY <3>2, <3>4, <3>6, <3>7
  <2> QED
    BY <2>3, <2>4
<1>5. RiskTypeOK' /\ begun' <= MaxCalls
  <2>1. /\ breaches' \in [Limits -> Breach \cup {None}]
        /\ alerts' \in [Limits -> Seq(AlertState)]
        /\ audited' \in [Limits -> {"OPEN", "UNDETERMINED", "RESOLVED", None}]
    <3>1. /\ DOMAIN breaches' = Limits /\ DOMAIN alerts' = Limits /\ DOMAIN audited' = Limits
          /\ breaches' = [l \in Limits |-> breaches'[l]]
          /\ alerts' = [l \in Limits |-> alerts'[l]]
          /\ audited' = [l \in Limits |-> audited'[l]]
      BY <1>1
    <3> QED
      BY <1>4, <3>1
  <2> QED
    BY <1>1, <1>3, <2>1 DEF RiskInv, RiskTypeOK
<1>6. RegisterInv'
  BY <1>3 DEF RegisterInv
<1>7. AlertsFollowBreaches'
  <2>1. \A l \in Limits : DOMAIN alerts'[l] = 1 .. Len(alerts'[l])
    BY <1>4, LenProperties
  <2> QED
    BY <1>4, <2>1 DEF AlertsFollowBreaches, NewestOnly
<1> QED
  BY <1>0, <1>2, <1>3, <1>4, <1>5, <1>6, <1>7 DEF RiskInv

LEMMA RiskStuttering ==
    ASSUME RiskInv, UNCHANGED riskVars
    PROVE  RiskInv'
BY DEF RiskInv, riskVars, RiskTypeOK, LockInv, RegisterInv, StillTrue, AlertsFollowBreaches

LEMMA RiskStep == RiskInv /\ [RiskNext]_riskVars => RiskInv'
<1> SUFFICES ASSUME RiskInv, [RiskNext]_riskVars PROVE RiskInv'
  OBVIOUS
<1>1. CASE UNCHANGED riskVars
  BY <1>1, RiskStuttering
<1> QED
  BY <1>1, ByBegin, ByTakeLock, ByEvaluate, ByConfigure, ByUpdateSettings, ByAbandon,
     ByAcknowledge, ByRevalue
     DEF RiskNext

LEMMA RiskInvariant == RiskSpec => []RiskInv
BY RiskInitially, RiskStep, PTL DEF RiskSpec

(***************************************************************************)
(* The tables of the risk limits and what the sessions have loaded stay    *)
(* what they may be (risk_limits.py).                                      *)
(***************************************************************************)
THEOREM RiskTypeCorrect == RiskSpec => []RiskTypeOK
<1>1. RiskInv => RiskTypeOK
  BY DEF RiskInv
<1> QED
  BY <1>1, RiskInvariant, PTL

(***************************************************************************)
(* However monitors, configurations and acknowledgements interleave, the   *)
(* alerts of a limit follow its breach and the audit trail ends in its     *)
(* state (risk_limits.py 177-262).                                         *)
(***************************************************************************)
THEOREM AlertsFollow == RiskSpec => []AlertsFollowBreaches
<1>1. RiskInv => AlertsFollowBreaches
  BY DEF RiskInv
<1> QED
  BY <1>1, RiskInvariant, PTL

(***************************************************************************)
(* A breach is resolved by a session that holds the lock and has a reading *)
(* of the limit, or has it disabled: never for want of data                *)
(* (risk_limits.py evaluate).                                              *)
(***************************************************************************)
THEOREM MissingIsUndetermined == RiskSpec => MissingNeverClears
<1> DEFINE Cleared == \A l \in Limits :
          breaches[l] # None /\ breaches'[l].state = "RESOLVED" /\ breaches[l].state # "RESOLVED" =>
              \E c \in Callers : /\ profileLock = c
                                 /\ \/ calls[c].readings[l] # None
                                    \/ l \in calls[c].loaded.disabled
<1>1. RiskInv /\ [RiskNext]_riskVars => [Cleared]_riskVars
  <2> SUFFICES ASSUME RiskInv, RiskNext PROVE Cleared
    BY DEF riskVars
  <2>1. CASE \E c \in Callers : Evaluate(c)
    BY <2>1, ByEvaluate
  <2>2. CASE ~\E c \in Callers : Evaluate(c)
    <3>1. UNCHANGED breaches
      BY <2>2 DEF RiskNext, Begin, TakeLock, UpdateSettings, Abandon, Configure, Acknowledge,
                  Revalue, register
    <3> QED
      BY <3>1
  <2> QED
    BY <2>1, <2>2
<1> QED
  BY <1>1, RiskInvariant, PTL DEF RiskSpec, MissingNeverClears
-----------------------------------------------------------------------------
\* A set of natural numbers has a least element.
LEMMA LeastIndex ==
    ASSUME NEW K \in SUBSET Nat, K # {}
    PROVE  Min(K) \in K /\ \A i \in K : Min(K) <= i
<1> DEFINE R == OpToRel(<, Nat)
<1>1. IsWellFoundedOn(R, Nat)
  BY NatLessThanWellFounded
<1> HIDE DEF R
<1>2. PICK x \in K : \A y \in K : ~ (<<y, x>> \in R)
  BY <1>1, WFMin
<1>3. \A y \in K : x <= y
  <2> SUFFICES ASSUME NEW y \in K, y < x PROVE FALSE
    BY <1>2
  <2>1. <<y, x>> \in {ss \in Nat \X Nat : ss[1] < ss[2]}
    BY <1>2
  <2> QED
    BY <1>2, <2>1 DEF R, OpToRel
<1> QED
  BY <1>2, <1>3 DEF Min
-----------------------------------------------------------------------------
(***************************************************************************)
(* The cache of valuations.  A fingerprint has the newest updated_at and   *)
(* no version, and the newest updated_at may come back: when the row that  *)
(* had it is written by a change with an older one.  What is finished      *)
(* under a fingerprint whose updated_at some rule still has (Good) lacks   *)
(* changes of overtaken rules only, and of rules that have a later one;    *)
(* when the fingerprint is read again, no rule has a later one, so that a  *)
(* run it finds lacks those of overtaken rules only (Matches).             *)
(***************************************************************************)
\* What has been calculated under a fingerprint, stored or not.
Calculated ==
    runs \cup {[print |-> views[u].print, seen |-> views[u].seen] :
                  u \in {t \in Viewers : Looks(t, "valued")}}

EditingInv ==
    /\ \A r \in Rules : ruled[r] <= time
    /\ \A e \in editing :
          /\ 0 < e.stamp /\ e.stamp <= time
          /\ \A r \in Rules : ruled[r] # e.stamp
          /\ \A d \in editing : d.stamp = e.stamp => d = e

DawnInv == \A m \in 0 .. minute : Covers(Committed, dawn[m])

\* A fingerprint was read in the past, and no change under way will bring it back.
Past(print) ==
    /\ print.newest <= time
    /\ print.minute <= minute
    /\ \A e \in editing : e.stamp # print.newest

HasStamp(stamp) == \E r \in Rules : ruled[r] = stamp
Good(c) ==
    /\ Past(c.print)
    /\ c.print.count <= c.seen.appended
    /\ Covers(c.seen, dawn[c.print.minute])
    /\ HasStamp(c.print.newest) => \A r \in Rules \ overtaken :
          ruled[r] > c.print.newest \/ changes[r] <= c.seen.changes[r]

\* What a request has read so far.
Sound(w) ==
    /\ Past(w.print)
    /\ Covers(Committed, w.begun)
    /\ Covers(w.begun, dawn[w.print.minute])
    /\ w.phase # "served" => Covers(w.seen, w.begun) /\ overtaken \subseteq w.passed
    /\ w.phase # "begun" => w.begun.appended <= w.print.count /\ w.print.count <= appended
    /\ w.phase \in {"loaded", "valued"} => w.print.count <= w.seen.appended
    /\ w.phase = "served" =>
          /\ w.begun.appended <= w.seen.appended
          /\ \A r \in Rules \ w.passed : w.begun.changes[r] <= w.seen.changes[r]
          /\ Covers(w.seen, dawn[w.print.minute])

\* What was calculated under the fingerprint of w has the changes that were there when w
\* began, but of rules that were overtaken.
Matches(w, c) ==
    c.print.newest = w.print.newest =>
        \A r \in Rules \ w.passed : w.begun.changes[r] <= c.seen.changes[r]

GoodInv == \A c \in Calculated : Good(c)
ViewInv == \A v \in Viewers : views[v] # None => Sound(views[v])
MatchInv == \A v \in Viewers : Looks(v, "printed") => \A c \in Calculated : Matches(views[v], c)

CacheInv == CacheTypeOK /\ EditingInv /\ DawnInv /\ GoodInv /\ ViewInv /\ MatchInv

LEMMA CacheTypes ==
    ASSUME CacheTypeOK
    PROVE  /\ Committed \in Data
           /\ \A c \in Calculated : c \in Run /\ c.print \in Fingerprint /\ c.seen \in Data
           /\ \A v \in Viewers : views[v] # None =>
                 /\ views[v] \in View /\ views[v].print \in Fingerprint
                 /\ views[v].begun \in Data /\ views[v].seen \in Data
                 /\ views[v].passed \in SUBSET Rules
<1>1. Committed \in Data
  BY DEF CacheTypeOK, Committed, Data
<1>2. ASSUME NEW v \in Viewers, views[v] # None
      PROVE  /\ views[v] \in View /\ views[v].print \in Fingerprint
             /\ views[v].begun \in Data /\ views[v].seen \in Data
             /\ views[v].passed \in SUBSET Rules
  <2>1. views[v] \in View
    BY <1>2 DEF CacheTypeOK
  <2> QED
    BY <2>1 DEF View
<1>3. ASSUME NEW c \in Calculated
      PROVE  c \in Run /\ c.print \in Fingerprint /\ c.seen \in Data
  <2>1. CASE c \in runs
    BY <2>1 DEF CacheTypeOK, Run
  <2>2. CASE c \notin runs
    <3>1. PICK u \in Viewers : /\ views[u] # None
                               /\ c = [print |-> views[u].print, seen |-> views[u].seen]
      BY <1>3, <2>2 DEF Calculated, Looks
    <3> QED
      BY <1>2, <3>1 DEF Run
  <2> QED
    BY <2>1, <2>2
<1> QED
  BY <1>1, <1>2, <1>3

LEMMA LatestIs ==
    ASSUME CacheTypeOK, EditingInv
    PROVE  /\ LatestStamp \in Nat
           /\ \A r \in Rules : ruled[r] <= LatestStamp
           /\ HasStamp(LatestStamp)
<1> DEFINE ages == {time - ruled[r] : r \in Rules}
<1>1. ages \in SUBSET Nat /\ ages # {}
  <2>1. PICK r \in Rules : TRUE
    BY CacheAssumption
  <2>2. time - ruled[r] \in ages
    BY <2>1
  <2>3. ages \subseteq Nat
    BY DEF CacheTypeOK, EditingInv
  <2> QED
    BY <2>2, <2>3
<1>2. Min(ages) \in ages /\ \A i \in ages : Min(ages) <= i
  BY <1>1, LeastIndex
<1>3. PICK q \in Rules : Min(ages) = time - ruled[q]
  BY <1>2
<1>4. ASSUME NEW r \in Rules PROVE ruled[r] <= ruled[q]
  <2>1. time - ruled[r] \in ages
    OBVIOUS
  <2>2. time - ruled[q] <= time - ruled[r]
    BY <1>2, <1>3, <2>1
  <2>3. ruled[q] \in Nat /\ ruled[r] \in Nat /\ time \in Nat
    BY DEF CacheTypeOK
  <2> QED
    BY <2>2, <2>3
<1> HIDE DEF ages
<1> DEFINE S == {ruled[r] : r \in Rules}
<1>5. ruled[q] \in S /\ \A y \in S : ruled[q] >= y /\ y \in Nat
  BY <1>4 DEF CacheTypeOK
<1>6. LatestStamp \in S /\ \A y \in S : LatestStamp >= y
  BY <1>5 DEF LatestStamp, Max
<1>7. LatestStamp = ruled[q]
  BY <1>5, <1>6
<1> QED
  BY <1>4, <1>7 DEF HasStamp, CacheTypeOK

\* Covers is an order.
LEMMA CoversTransitive ==
    ASSUME NEW x1 \in Data, NEW x2 \in Data, NEW x3 \in Data, Covers(x1, x2), Covers(x2, x3)
    PROVE  Covers(x1, x3)
<1>1. \A r \in Rules : /\ x1.changes[r] \in Nat /\ x2.changes[r] \in Nat /\ x3.changes[r] \in Nat
                       /\ x1.changes[r] >= x2.changes[r] /\ x2.changes[r] >= x3.changes[r]
  BY DEF Covers, Data
<1>2. \A r \in Rules : x1.changes[r] >= x3.changes[r]
  BY <1>1
<1>3. x1.appended >= x3.appended /\ x1.uncounted >= x3.uncounted
  BY DEF Covers, Data
<1> QED
  BY <1>2, <1>3 DEF Covers

LEMMA CoversItself ==
    ASSUME NEW x1 \in Data
    PROVE  Covers(x1, x1)
BY DEF Covers, Data

LEMMA CacheInitially == CacheInit => CacheInv
<1> SUFFICES ASSUME CacheInit PROVE CacheInv
  OBVIOUS
<1>1. CacheTypeOK
  BY CacheAssumption DEF CacheInit, CacheTypeOK, Committed, Data
<1>2. EditingInv
  BY DEF CacheInit, EditingInv
<1>3. Committed \in Data /\ dawn = [m \in 0 .. MaxMinutes |-> Committed]
  BY <1>1, CacheTypes DEF CacheInit
<1>4. DawnInv
  BY <1>3, CoversItself, CacheAssumption DEF CacheInit, DawnInv
<1>5. Calculated = {} /\ \A v \in Viewers : views[v] = None
  BY DEF CacheInit, Calculated, Looks
<1> QED
  BY <1>1, <1>2, <1>4, <1>5 DEF CacheInv, GoodInv, ViewInv, MatchInv, Looks

-----------------------------------------------------------------------------
(***************************************************************************)
(* Steps of a request: the tables and the clocks stay.                     *)
(***************************************************************************)
\* It suffices that what v has read is sound, and that nothing is calculated but from the
\* rules as they are.
LEMMA ReaderStep ==
    ASSUME CacheInv, NEW v \in Viewers, NEW w \in View \cup {None},
           views' = [views EXCEPT ![v] = w],
           UNCHANGED tables, UNCHANGED clocks,
           viewed' \in Nat, runs' \subseteq Run,
           \A c \in Calculated' : c \in Calculated \/ (Good(c) /\ c.seen.changes = changes),
           w # None => Sound(w),
           w # None /\ w.phase = "printed" => \A c \in Calculated : Matches(w, c)
    PROVE  CacheInv'
<1>1. /\ views' \in [Viewers -> View \cup {None}] /\ views'[v] = w
      /\ \A u \in Viewers : u # v => views'[u] = views[u]
  BY DEF CacheInv, CacheTypeOK
<1>2. UNCHANGED <<time, minute, dawn, appended, uncounted, ruled, changes, overtaken, editing>>
  BY DEF tables, clocks
<1>3. CacheTypeOK' /\ EditingInv' /\ DawnInv'
  BY <1>1, <1>2 DEF CacheInv, CacheTypeOK, EditingInv, DawnInv, Covers, Committed
<1>4. GoodInv'
  <2> SUFFICES ASSUME NEW c \in Calculated' PROVE Good(c)'
    BY DEF GoodInv
  <2>1. PICK k : k = c
    OBVIOUS
  <2>2. Good(k)
    BY <2>1 DEF CacheInv, GoodInv
  <2> QED
    BY <1>2, <2>1, <2>2 DEF Good, Past, HasStamp, Covers
<1>5. \A u \in Viewers : views'[u] # None => Sound(views'[u])
  BY <1>1 DEF CacheInv, ViewInv
<1>6. ViewInv'
  BY <1>2, <1>5 DEF ViewInv, Sound, Past, Covers, Committed
<1>7. MatchInv'
  <2> SUFFICES ASSUME NEW u \in Viewers, views'[u] # None, views'[u].phase = "printed",
                      NEW c \in Calculated'
               PROVE  Matches(views'[u], c)
    BY DEF MatchInv, Looks, Matches
  <2>1. CASE c \in Calculated
    BY <1>1, <2>1 DEF CacheInv, MatchInv, Looks
  <2>2. CASE c.seen.changes = changes
    BY <1>5, <2>2 DEF Matches, Sound, Covers, Committed
  <2> QED
    BY <2>1, <2>2
<1> QED
  BY <1>3, <1>4, <1>6, <1>7 DEF CacheInv

\* Most steps of a request neither finish a calculation nor store one.
LEMMA NothingCalculated ==
    ASSUME CacheInv, NEW v \in Viewers, NEW w \in View \cup {None},
           views' = [views EXCEPT ![v] = w],
           w = None \/ w.phase # "valued",
           UNCHANGED runs
    PROVE  Calculated' \subseteq Calculated /\ runs' \subseteq Run
<1>1. /\ views'[v] = w
      /\ \A u \in Viewers : u # v => views'[u] = views[u]
  BY DEF CacheInv, CacheTypeOK
<1>2. runs' \subseteq Run
  BY DEF CacheInv, CacheTypeOK
<1>3. ASSUME NEW c \in Calculated' PROVE c \in Calculated
  <2>1. CASE c \in runs
    BY <2>1 DEF Calculated
  <2>2. CASE c \notin runs
    <3>1. PICK u \in Viewers :
             /\ views'[u] # None /\ views'[u].phase = "valued"
             /\ c = [print |-> views'[u].print, seen |-> views'[u].seen]
      BY <1>3, <2>2 DEF Calculated, Looks
    <3>2. u # v
      BY <1>1, <3>1
    <3> QED
      BY <1>1, <3>1, <3>2 DEF Calculated, Looks
  <2> QED
    BY <2>1, <2>2
<1> QED
  BY <1>2, <1>3

\* What is known of a request that has begun.
LEMMA OfRequest ==
    ASSUME CacheInv, NEW v \in Viewers, views[v] # None
    PROVE  /\ views[v] \in View /\ Sound(views[v])
           /\ views[v].print \in Fingerprint
           /\ views[v].begun \in Data /\ views[v].seen \in Data
           /\ views[v].passed \in SUBSET Rules
           /\ viewed \in Nat
           /\ appended \in Nat /\ uncounted \in Nat /\ changes \in [Rules -> Nat]
           /\ Committed \in Data
           /\ \A m \in 0 .. MaxMinutes : dawn[m] \in Data
BY CacheTypes DEF CacheInv, ViewInv, CacheTypeOK

LEMMA ByBeginView ==
    ASSUME CacheInv, NEW v \in Viewers, NEW live \in BOOLEAN, BeginView(v, live)
    PROVE  CacheInv'
<1>1. PICK w, print :
         /\ print = [count |-> 0, newest |-> 0, live |-> live,
                     minute |-> IF live THEN minute ELSE 0]
         /\ w = [phase |-> "begun", begun |-> Committed, seen |-> Committed,
                 passed |-> overtaken, print |-> print]
  OBVIOUS
<1>2. /\ views' = [views EXCEPT ![v] = w]
      /\ UNCHANGED tables /\ UNCHANGED clocks /\ UNCHANGED runs
      /\ viewed' \in Nat
  BY <1>1 DEF BeginView, Elsewhere, CacheInv, CacheTypeOK
<1>3. /\ Committed \in Data /\ minute \in 0 .. MaxMinutes /\ minute \in Nat /\ time \in Nat
      /\ overtaken \subseteq Rules
  BY CacheAssumption, CacheTypes DEF CacheInv, CacheTypeOK
<1>4. /\ print \in Fingerprint /\ print.minute \in 0 .. minute /\ print.newest = 0
  BY <1>1, <1>3, CacheAssumption DEF Fingerprint
<1>5. /\ w \in View /\ w.phase = "begun" /\ w.begun = Committed /\ w.seen = Committed
      /\ w.passed = overtaken /\ w.print = print
  BY <1>1, <1>3, <1>4 DEF View
<1>6. Past(print)
  BY <1>3, <1>4 DEF Past, CacheInv, EditingInv
<1>7. Covers(Committed, dawn[print.minute])
  BY <1>4 DEF CacheInv, DawnInv
<1>8. Sound(w)
  BY <1>3, <1>5, <1>6, <1>7, CoversItself DEF Sound
<1>9. Calculated' \subseteq Calculated /\ runs' \subseteq Run
  BY <1>2, <1>5, NothingCalculated
<1> QED
  BY <1>2, <1>5, <1>8, <1>9, ReaderStep

LEMMA ByCountRows ==
    ASSUME CacheInv, NEW v \in Viewers, CountRows(v)
    PROVE  CacheInv'
<1>1. PICK w : w = [views[v] EXCEPT !.phase = "counted", !.print.count = appended]
  OBVIOUS
<1>2. /\ views[v] # None /\ views[v].phase = "begun"
      /\ views' = [views EXCEPT ![v] = w]
      /\ UNCHANGED tables /\ UNCHANGED clocks /\ UNCHANGED <<runs, viewed>>
  BY <1>1 DEF CountRows, Looks, Elsewhere
<1>3. /\ w \in View /\ w.phase = "counted" /\ w.begun = views[v].begun
      /\ w.seen = views[v].seen /\ w.passed = views[v].passed
      /\ w.print.count = appended /\ w.print.newest = views[v].print.newest
      /\ w.print.minute = views[v].print.minute
  BY <1>1, <1>2, OfRequest DEF View, Fingerprint
<1>4. Sound(views[v])
  BY <1>2, OfRequest
<1>5. views[v].begun.appended <= appended /\ appended <= appended
  BY <1>2, <1>4, OfRequest DEF Sound, Covers, Committed, Data
<1>6. Past(w.print)
  BY <1>3, <1>4 DEF Sound, Past
<1>7. Sound(w)
  BY <1>2, <1>3, <1>4, <1>5, <1>6 DEF Sound
<1>8. Calculated' \subseteq Calculated /\ runs' \subseteq Run
  BY <1>2, <1>3, NothingCalculated
<1> QED
  BY <1>2, <1>3, <1>7, <1>8, OfRequest, ReaderStep

LEMMA ByStampRules ==
    ASSUME CacheInv, NEW v \in Viewers, StampRules(v)
    PROVE  CacheInv'
<1>1. PICK w : w = [views[v] EXCEPT !.phase = "printed", !.print.newest = LatestStamp]
  OBVIOUS
<1>2. /\ views[v] # None /\ views[v].phase = "counted"
      /\ views' = [views EXCEPT ![v] = w]
      /\ UNCHANGED tables /\ UNCHANGED clocks /\ UNCHANGED <<runs, viewed>>
  BY <1>1 DEF StampRules, Stamped, Looks, Elsewhere
<1>3. /\ LatestStamp \in Nat /\ HasStamp(LatestStamp)
      /\ \A r \in Rules : ruled[r] <= LatestStamp /\ ruled[r] \in Nat
  BY LatestIs DEF CacheInv, CacheTypeOK
<1>4. /\ w \in View /\ w.phase = "printed" /\ w.begun = views[v].begun
      /\ w.seen = views[v].seen /\ w.passed = views[v].passed
      /\ w.print.count = views[v].print.count /\ w.print.newest = LatestStamp
      /\ w.print.minute = views[v].print.minute
  BY <1>1, <1>2, <1>3, OfRequest DEF View, Fingerprint
<1>5. Sound(views[v])
  BY <1>2, OfRequest
<1>6. Past(w.print)
  <2>1. PICK r \in Rules : ruled[r] = LatestStamp
    BY <1>3 DEF HasStamp
  <2> QED
    BY <1>4, <1>5, <2>1 DEF Sound, Past, CacheInv, EditingInv
<1>7. Sound(w)
  BY <1>2, <1>4, <1>5, <1>6 DEF Sound
<1>8. ASSUME NEW c \in Calculated PROVE Matches(w, c)
  <2> SUFFICES ASSUME c.print.newest = LatestStamp, NEW r \in Rules \ w.passed
               PROVE  w.begun.changes[r] <= c.seen.changes[r]
    BY <1>4 DEF Matches
  <2>1. r \notin overtaken
    BY <1>2, <1>4, <1>5 DEF Sound
  <2>2. ruled[r] > LatestStamp \/ changes[r] <= c.seen.changes[r]
    BY <1>3, <2>1 DEF CacheInv, GoodInv, Good
  <2>3. changes[r] <= c.seen.changes[r]
    BY <1>3, <2>2
  <2>4. w.begun.changes[r] <= changes[r]
    BY <1>4, <1>5 DEF Sound, Covers, Committed
  <2>5. w.begun.changes[r] \in Nat /\ changes[r] \in Nat /\ c.seen.changes[r] \in Nat
    <3>1. c.seen \in Data /\ w.begun \in Data
      BY <1>2, <1>4, OfRequest, CacheTypes DEF CacheInv
    <3> QED
      BY <3>1 DEF Data, CacheInv, CacheTypeOK
  <2> QED
    BY <2>3, <2>4, <2>5
<1>9. Calculated' \subseteq Calculated /\ runs' \subseteq Run
  BY <1>2, <1>4, NothingCalculated
<1> QED
  BY <1>2, <1>4, <1>7, <1>8, <1>9, OfRequest, ReaderStep

LEMMA ByServeCached ==
    ASSUME CacheInv, NEW v \in Viewers, ServeCached(v)
    PROVE  CacheInv'
<1>0. PICK run \in Cached(v) :
         views' = [views EXCEPT ![v].phase = "served", ![v].seen = run.seen]
  BY DEF ServeCached
<1>1. PICK w : w = [views[v] EXCEPT !.phase = "served", !.seen = run.seen]
  OBVIOUS
<1>2. /\ views[v] # None /\ views[v].phase = "printed"
      /\ views' = [views EXCEPT ![v] = w]
      /\ UNCHANGED tables /\ UNCHANGED clocks /\ UNCHANGED <<runs, viewed>>
  BY <1>0, <1>1 DEF ServeCached, Looks, Elsewhere
<1>3. /\ run \in Calculated /\ run.print = views[v].print /\ run.seen \in Data
  BY <1>0, CacheTypes DEF Cached, Calculated, CacheInv
<1>4. /\ w \in View /\ w.phase = "served" /\ w.begun = views[v].begun
      /\ w.seen = run.seen /\ w.passed = views[v].passed /\ w.print = views[v].print
  BY <1>1, <1>2, <1>3, OfRequest DEF View
<1>5. Sound(views[v])
  BY <1>2, OfRequest
<1>6. /\ Good(run) /\ Matches(views[v], run)
  BY <1>2, <1>3 DEF CacheInv, GoodInv, MatchInv, Looks
<1>7. w.begun.appended <= w.seen.appended
  <2>1. /\ w.begun.appended <= w.print.count /\ w.print.count <= w.seen.appended
    BY <1>2, <1>3, <1>4, <1>5, <1>6 DEF Sound, Good
  <2>2. w.begun.appended \in Nat /\ w.print.count \in Nat /\ w.seen.appended \in Nat
    BY <1>2, <1>3, <1>4, OfRequest DEF Data, Fingerprint
  <2> QED
    BY <2>1, <2>2
<1>8. \A r \in Rules \ w.passed : w.begun.changes[r] <= w.seen.changes[r]
  BY <1>3, <1>4, <1>6 DEF Matches
<1>9. Covers(w.seen, dawn[w.print.minute])
  BY <1>3, <1>4, <1>6 DEF Good
<1>10. Sound(w)
  BY <1>2, <1>4, <1>5, <1>7, <1>8, <1>9 DEF Sound
<1>11. Calculated' \subseteq Calculated /\ runs' \subseteq Run
  BY <1>2, <1>4, NothingCalculated
<1> QED
  BY <1>2, <1>4, <1>10, <1>11, OfRequest, ReaderStep

LEMMA ByLoadRows ==
    ASSUME CacheInv, NEW v \in Viewers, LoadRows(v)
    PROVE  CacheInv'
<1>1. PICK w : w = [views[v] EXCEPT !.phase = "loaded", !.seen.appended = appended,
                                    !.seen.uncounted = uncounted]
  OBVIOUS
<1>2. /\ views[v] # None /\ views[v].phase = "printed"
      /\ views' = [views EXCEPT ![v] = w]
      /\ UNCHANGED tables /\ UNCHANGED clocks /\ UNCHANGED <<runs, viewed>>
  BY <1>1 DEF LoadRows, Looks, Elsewhere
<1>3. /\ w \in View /\ w.phase = "loaded" /\ w.begun = views[v].begun
      /\ w.passed = views[v].passed /\ w.print = views[v].print
      /\ w.seen.appended = appended /\ w.seen.uncounted = uncounted
      /\ w.seen.changes = views[v].seen.changes
  <2>1. PICK seen : seen = [views[v].seen EXCEPT !.appended = appended, !.uncounted = uncounted]
    OBVIOUS
  <2>2. /\ seen \in Data /\ seen.appended = appended /\ seen.uncounted = uncounted
        /\ seen.changes = views[v].seen.changes
    BY <1>2, <2>1, OfRequest DEF Data
  <2>3. w = [views[v] EXCEPT !.phase = "loaded", !.seen = seen]
    BY <1>1, <1>2, <2>1, OfRequest DEF View
  <2> QED
    BY <1>2, <2>2, <2>3, OfRequest DEF View
<1>4. Sound(views[v])
  BY <1>2, OfRequest
<1>5. Covers(w.seen, w.begun)
  BY <1>2, <1>3, <1>4 DEF Sound, Covers, Committed
<1>6. Sound(w)
  BY <1>2, <1>3, <1>4, <1>5 DEF Sound
<1>7. Calculated' \subseteq Calculated /\ runs' \subseteq Run
  BY <1>2, <1>3, NothingCalculated
<1> QED
  BY <1>2, <1>3, <1>6, <1>7, OfRequest, ReaderStep

\* The calculation is finished: it has the changes as they are.
LEMMA ByLoadRules ==
    ASSUME CacheInv, NEW v \in Viewers, LoadRules(v)
    PROVE  CacheInv'
<1>1. PICK w, new : /\ w = [views[v] EXCEPT !.phase = "valued", !.seen.changes = changes]
                    /\ new = [print |-> w.print, seen |-> w.seen]
  OBVIOUS
<1>2. /\ views[v] # None /\ views[v].phase = "loaded"
      /\ views' = [views EXCEPT ![v] = w]
      /\ UNCHANGED tables /\ UNCHANGED clocks /\ UNCHANGED <<runs, viewed>>
  BY <1>1 DEF LoadRules, Looks, Elsewhere
<1>3. /\ w \in View /\ w.phase = "valued" /\ w.begun = views[v].begun
      /\ w.passed = views[v].passed /\ w.print = views[v].print
      /\ w.seen.appended = views[v].seen.appended /\ w.seen.uncounted = views[v].seen.uncounted
      /\ w.seen.changes = changes /\ w.seen \in Data
  <2>1. PICK seen : seen = [views[v].seen EXCEPT !.changes = changes]
    OBVIOUS
  <2>2. /\ seen \in Data /\ seen.changes = changes
        /\ seen.appended = views[v].seen.appended /\ seen.uncounted = views[v].seen.uncounted
    BY <1>2, <2>1, OfRequest DEF Data
  <2>3. w = [views[v] EXCEPT !.phase = "valued", !.seen = seen]
    BY <1>1, <1>2, <2>1, OfRequest DEF View
  <2> QED
    BY <1>2, <2>2, <2>3, OfRequest DEF View
<1>4. Sound(views[v])
  BY <1>2, OfRequest
<1>5. Covers(w.seen, w.begun)
  BY <1>2, <1>3, <1>4 DEF Sound, Covers, Committed
<1>6. Sound(w)
  BY <1>2, <1>3, <1>4, <1>5 DEF Sound
<1>7. Good(new)
  <2>1. new.print = w.print /\ new.seen = w.seen
    BY <1>1
  <2>2. Covers(w.seen, dawn[w.print.minute])
    <3>1. /\ w.begun \in Data /\ dawn[w.print.minute] \in Data
          /\ Covers(w.begun, dawn[w.print.minute])
      BY <1>2, <1>3, <1>6, OfRequest DEF Sound, Fingerprint
    <3> QED
      BY <1>3, <1>5, <3>1, CoversTransitive
  <2>3. \A r \in Rules : changes[r] <= w.seen.changes[r]
    BY <1>2, <1>3, OfRequest
  <2> QED
    BY <1>3, <1>6, <2>1, <2>2, <2>3 DEF Good, Sound
<1>8. ASSUME NEW c \in Calculated' PROVE c \in Calculated \/ c = new
  <2>1. CASE c \in runs
    BY <2>1 DEF Calculated
  <2>2. CASE c \notin runs
    <3>1. PICK u \in Viewers :
             /\ views'[u] # None /\ views'[u].phase = "valued"
             /\ c = [print |-> views'[u].print, seen |-> views'[u].seen]
      BY <1>2, <1>8, <2>2 DEF Calculated, Looks
    <3>2. IF u = v THEN views'[u] = w ELSE views'[u] = views[u]
      BY <1>2 DEF CacheInv, CacheTypeOK
    <3> QED
      BY <1>1, <3>1, <3>2 DEF Calculated, Looks
  <2> QED
    BY <2>1, <2>2
<1>9. \A c \in Calculated' : c \in Calculated \/ (Good(c) /\ c.seen.changes = changes)
  BY <1>1, <1>3, <1>7, <1>8
<1>10. runs' \subseteq Run
  BY <1>2 DEF CacheInv, CacheTypeOK
<1> QED
  BY <1>2, <1>3, <1>6, <1>9, <1>10, OfRequest, ReaderStep

\* What was calculated is stored.
LEMMA ByStoreRun ==
    ASSUME CacheInv, NEW v \in Viewers, StoreRun(v)
    PROVE  CacheInv'
<1>1. PICK w, run : /\ w = [views[v] EXCEPT !.phase = "served"]
                    /\ run = [print |-> views[v].print, seen |-> views[v].seen]
  OBVIOUS
<1>2. /\ views[v] # None /\ views[v].phase = "valued"
      /\ views' = [views EXCEPT ![v] = w]
      /\ runs' = runs \cup {run}
      /\ UNCHANGED tables /\ UNCHANGED clocks /\ UNCHANGED viewed
  BY <1>1 DEF StoreRun, Looks, Elsewhere
<1>3. /\ w \in View /\ w.phase = "served" /\ w.begun = views[v].begun /\ w.seen = views[v].seen
      /\ w.print = views[v].print /\ w.passed = views[v].passed
  BY <1>1, <1>2, OfRequest DEF View
<1>4. run \in Calculated /\ runs \subseteq Calculated
  BY <1>1, <1>2 DEF Calculated, Looks
<1>5. Sound(views[v]) /\ Good(run)
  BY <1>2, <1>4, OfRequest DEF CacheInv, GoodInv
<1>6. w.begun.appended <= w.seen.appended
  BY <1>2, <1>3, <1>5, OfRequest DEF Sound, Covers, Data
<1>7. \A r \in Rules \ w.passed : w.begun.changes[r] <= w.seen.changes[r]
  BY <1>2, <1>3, <1>5, OfRequest DEF Sound, Covers, Data
<1>8. Covers(w.seen, dawn[w.print.minute])
  BY <1>1, <1>3, <1>5 DEF Good
<1>9. Sound(w)
  BY <1>2, <1>3, <1>5, <1>6, <1>7, <1>8 DEF Sound
<1>10. ASSUME NEW c \in Calculated' PROVE c \in Calculated
  <2>1. CASE c \in runs'
    BY <1>2, <1>4, <2>1
  <2>2. CASE c \notin runs'
    <3>1. PICK u \in Viewers :
             /\ views'[u] # None /\ views'[u].phase = "valued"
             /\ c = [print |-> views'[u].print, seen |-> views'[u].seen]
      BY <1>10, <2>2 DEF Calculated, Looks
    <3>2. IF u = v THEN views'[u] = w ELSE views'[u] = views[u]
      BY <1>2 DEF CacheInv, CacheTypeOK
    <3> QED
      BY <1>3, <3>1, <3>2 DEF Calculated, Looks
  <2> QED
    BY <2>1, <2>2
<1>11. runs' \subseteq Run
  BY <1>2, <1>4, CacheTypes DEF CacheInv, CacheTypeOK
<1> QED
  BY <1>2, <1>3, <1>9, <1>10, <1>11, OfRequest, ReaderStep

LEMMA ByFailView ==
    ASSUME CacheInv, NEW v \in Viewers, FailView(v)
    PROVE  CacheInv'
<1>1. /\ views[v] # None /\ views' = [views EXCEPT ![v] = None]
      /\ UNCHANGED tables /\ UNCHANGED clocks /\ UNCHANGED <<runs, viewed>>
  BY DEF FailView, Elsewhere, UnderWay
<1>2. Calculated' \subseteq Calculated /\ runs' \subseteq Run
  BY <1>1, NothingCalculated
<1> QED
  BY <1>1, <1>2, OfRequest, ReaderStep

-----------------------------------------------------------------------------
(***************************************************************************)
(* Steps of the tables and the clocks: what has been read stays read.      *)
(***************************************************************************)
\* What a step of the tables may do.
TablesGrow ==
    /\ time' \in Nat /\ time <= time' /\ minute' \in Nat /\ minute <= minute'
    /\ Covers(Committed', Committed)
    /\ \A m \in 0 .. minute : dawn'[m] = dawn[m]
    /\ \A e \in editing' : e \in editing \/ e.stamp > time
    /\ UNCHANGED runs

LEMMA PastStays ==
    ASSUME CacheInv, TablesGrow, NEW print \in Fingerprint, Past(print)
    PROVE  Past(print)' /\ dawn'[print.minute] = dawn[print.minute]
<1>1. /\ print.newest \in Nat /\ print.minute \in 0 .. minute /\ minute \in Nat /\ time \in Nat
  BY CacheAssumption DEF Fingerprint, Past, CacheInv, CacheTypeOK
<1>2. \A e \in editing' : e.stamp # print.newest
  BY <1>1 DEF TablesGrow, Past
<1> QED
  BY <1>1, <1>2 DEF TablesGrow, Past

\* It suffices that what was calculated is still good, and that the rules overtaken now
\* are marked in every request under way.
LEMMA TableStep ==
    ASSUME CacheInv, TablesGrow, CacheTypeOK', EditingInv', DawnInv',
           \A v \in Viewers : views[v] = None => views'[v] = None,
           \A v \in Viewers : views[v] # None =>
              /\ views'[v] # None /\ views'[v].phase = views[v].phase
              /\ views'[v].begun = views[v].begun /\ views'[v].seen = views[v].seen
              /\ views'[v].print = views[v].print /\ views[v].passed \subseteq views'[v].passed
              /\ views[v].phase # "served" => overtaken' \subseteq views'[v].passed,
           ASSUME NEW c \in Calculated, HasStamp(c.print.newest)', NEW r \in Rules \ overtaken'
           PROVE  (ruled'[r] > c.print.newest \/ changes'[r] <= c.seen.changes[r])
    PROVE  CacheInv'
<1>1. Calculated' = Calculated
  BY DEF TablesGrow, Calculated, Looks
<1>2. GoodInv'
  <2> SUFFICES ASSUME NEW c \in Calculated PROVE Good(c)'
    BY <1>1 DEF GoodInv
  <2>1. Good(c) /\ c.print \in Fingerprint
    BY CacheTypes DEF CacheInv, GoodInv
  <2>2. Past(c.print)' /\ dawn'[c.print.minute] = dawn[c.print.minute]
    BY <2>1, PastStays DEF Good
  <2> QED
    BY <2>1, <2>2 DEF Good, Covers
<1>3. ViewInv'
  <2> SUFFICES ASSUME NEW v \in Viewers, views'[v] # None PROVE Sound(views[v])'
    BY DEF ViewInv
  <2>1. PICK w, x : w = views[v] /\ x = views'[v]
    OBVIOUS
  <2>2. /\ w # None /\ w \in View /\ Sound(w) /\ w.print \in Fingerprint
        /\ w.begun \in Data /\ Committed \in Data
    BY <2>1, OfRequest
  <2>3. /\ x.phase = w.phase /\ x.begun = w.begun /\ x.seen = w.seen /\ x.print = w.print
        /\ w.passed \subseteq x.passed
        /\ w.phase # "served" => overtaken' \subseteq x.passed
    BY <2>1, <2>2
  <2>4. Past(x.print)' /\ dawn'[x.print.minute] = dawn[x.print.minute]
    <3>1. Past(w.print)
      BY <2>2 DEF Sound
    <3>2. Past(w.print)' /\ dawn'[w.print.minute] = dawn[w.print.minute]
      BY <2>2, <3>1, PastStays
    <3> QED
      BY <2>3, <3>2 DEF Past
  <2>5. Covers(Committed', x.begun)
    <3>1. Committed' \in Data /\ Covers(Committed', Committed) /\ Covers(Committed, w.begun)
      BY <2>2 DEF TablesGrow, Sound, CacheTypeOK, Committed, Data
    <3> QED
      BY <2>2, <2>3, <3>1, CoversTransitive
  <2>6. w.phase # "begun" => w.print.count <= appended'
    <3>1. appended <= appended' /\ appended \in Nat /\ appended' \in Nat /\ w.print.count \in Nat
      BY <2>2 DEF TablesGrow, Covers, Committed, CacheInv, CacheTypeOK, Fingerprint
    <3> QED
      BY <2>2, <3>1 DEF Sound
  <2>7. Sound(x)'
    BY <2>2, <2>3, <2>4, <2>5, <2>6 DEF Sound, Covers
  <2> QED
    BY <2>1, <2>7 DEF Sound, Past, Covers, Committed
<1>4. MatchInv'
  <2> SUFFICES ASSUME NEW v \in Viewers, views'[v] # None, views'[v].phase = "printed",
                      NEW c \in Calculated
               PROVE  Matches(views'[v], c)
    BY <1>1 DEF MatchInv, Looks, Matches
  <2>1. Matches(views[v], c)
    BY DEF CacheInv, MatchInv, Looks
  <2> QED
    BY <2>1 DEF Matches
<1> QED
  BY <1>2, <1>3, <1>4 DEF CacheInv

\* Most of these steps leave the rules and the requests alone.
LEMMA RulesStay ==
    ASSUME CacheInv, TablesGrow, CacheTypeOK', EditingInv', DawnInv',
           UNCHANGED <<ruled, changes, overtaken, views>>
    PROVE  CacheInv'
<1>1. \A v \in Viewers : views[v] # None /\ views[v].phase # "served" =>
         overtaken' \subseteq views[v].passed
  BY DEF CacheInv, ViewInv, Sound
<1>2. ASSUME NEW c \in Calculated, HasStamp(c.print.newest)', NEW r \in Rules \ overtaken'
      PROVE  ruled'[r] > c.print.newest \/ changes'[r] <= c.seen.changes[r]
  BY <1>2 DEF CacheInv, GoodInv, Good, HasStamp
<1> QED
  BY <1>1, <1>2, TableStep

LEMMA CommittedGrows ==
    ASSUME CacheInv, CacheTypeOK', UNCHANGED <<minute, dawn>>,
           appended <= appended', uncounted <= uncounted',
           \A r \in Rules : changes[r] <= changes'[r]
    PROVE  Covers(Committed', Committed) /\ DawnInv'
<1>1. Committed \in Data /\ Committed' \in Data /\ Covers(Committed', Committed)
  BY DEF CacheInv, CacheTypeOK, Committed, Data, Covers
<1>2. ASSUME NEW m \in 0 .. minute PROVE Covers(Committed', dawn[m])
  <2>1. Covers(Committed, dawn[m]) /\ dawn[m] \in Data
    BY CacheAssumption DEF CacheInv, DawnInv, CacheTypeOK
  <2> QED
    BY <1>1, <2>1, CoversTransitive
<1>3. DawnInv'
  BY <1>2 DEF DawnInv, Covers
<1> QED
  BY <1>1, <1>3

LEMMA ByAppendRow ==
    ASSUME CacheInv, AppendRow
    PROVE  CacheInv'
<1>1. /\ time' = time + 1 /\ appended' = appended + 1 /\ time \in Nat /\ appended \in Nat
      /\ minute \in Nat /\ uncounted \in Nat /\ changes \in [Rules -> Nat]
      /\ UNCHANGED <<minute, dawn, uncounted, ruled, changes, overtaken, editing>>
      /\ UNCHANGED <<runs, views, viewed>>
  BY CacheAssumption DEF AppendRow, Moment, CacheInv, CacheTypeOK
<1>2. CacheTypeOK'
  BY <1>1 DEF CacheInv, CacheTypeOK
<1>3. EditingInv'
  BY <1>1 DEF CacheInv, CacheTypeOK, EditingInv, Edit
<1>4. Covers(Committed', Committed) /\ DawnInv'
  BY <1>1, <1>2, CommittedGrows
<1>5. TablesGrow
  BY <1>1, <1>4 DEF TablesGrow
<1> QED
  BY <1>1, <1>2, <1>3, <1>4, <1>5, RulesStay

LEMMA ByChangeUncounted ==
    ASSUME CacheInv, ChangeUncounted
    PROVE  CacheInv'
<1>1. /\ time' = time + 1 /\ uncounted' = uncounted + 1 /\ time \in Nat /\ uncounted \in Nat
      /\ minute \in Nat /\ appended \in Nat /\ changes \in [Rules -> Nat]
      /\ UNCHANGED <<minute, dawn, appended, ruled, changes, overtaken, editing>>
      /\ UNCHANGED <<runs, views, viewed>>
  BY CacheAssumption DEF ChangeUncounted, Moment, CacheInv, CacheTypeOK
<1>2. CacheTypeOK'
  BY <1>1 DEF CacheInv, CacheTypeOK
<1>3. EditingInv'
  BY <1>1 DEF CacheInv, CacheTypeOK, EditingInv, Edit
<1>4. Covers(Committed', Committed) /\ DawnInv'
  BY <1>1, <1>2, CommittedGrows
<1>5. TablesGrow
  BY <1>1, <1>4 DEF TablesGrow
<1> QED
  BY <1>1, <1>2, <1>3, <1>4, <1>5, RulesStay

LEMMA ByEditRule ==
    ASSUME CacheInv, NEW r \in Rules, EditRule(r)
    PROVE  CacheInv'
<1>1. PICK e : e = [rule |-> r, stamp |-> time + 1]
  OBVIOUS
<1>2. /\ time' = time + 1 /\ editing' = editing \cup {e} /\ time \in Nat /\ minute \in Nat
      /\ appended \in Nat /\ uncounted \in Nat /\ changes \in [Rules -> Nat]
      /\ ruled \in [Rules -> Nat] /\ editing \subseteq Edit
      /\ UNCHANGED <<minute, dawn, appended, uncounted, ruled, changes, overtaken>>
      /\ UNCHANGED <<runs, views, viewed>>
  BY <1>1, CacheAssumption DEF EditRule, Moment, CacheInv, CacheTypeOK
<1>3. e \in Edit /\ e.stamp = time + 1
  BY <1>1, <1>2 DEF Edit
<1>4. CacheTypeOK'
  BY <1>2, <1>3 DEF CacheInv, CacheTypeOK
<1>5. EditingInv'
  <2>1. \A d \in editing : d.stamp \in Nat /\ d.stamp <= time
    BY <1>2 DEF CacheInv, EditingInv, Edit
  <2>2. \A q \in Rules : ruled[q] \in Nat /\ ruled[q] <= time
    BY <1>2 DEF CacheInv, EditingInv
  <2>3. \A q \in Rules : ruled[q] <= time + 1 /\ ruled[q] # e.stamp
    BY <1>2, <1>3, <2>2
  <2>4. ASSUME NEW d \in editing'
        PROVE  /\ 0 < d.stamp /\ d.stamp <= time + 1
               /\ \A q \in Rules : ruled[q] # d.stamp
               /\ \A c \in editing' : c.stamp = d.stamp => c = d
    <3>1. CASE d = e
      BY <1>2, <1>3, <2>1, <2>3, <3>1
    <3>2. CASE d \in editing
      BY <1>2, <1>3, <2>1, <3>2 DEF CacheInv, EditingInv
    <3> QED
      BY <1>2, <3>1, <3>2
  <2> QED
    BY <1>2, <2>3, <2>4 DEF EditingInv
<1>6. Covers(Committed', Committed) /\ DawnInv'
  BY <1>2, <1>4, CommittedGrows
<1>7. TablesGrow
  BY <1>2, <1>3, <1>6 DEF TablesGrow
<1> QED
  BY <1>2, <1>4, <1>5, <1>6, <1>7, RulesStay

LEMMA ByMinutePasses ==
    ASSUME CacheInv, MinutePasses
    PROVE  CacheInv'
<1>1. /\ minute' = minute + 1 /\ minute \in Nat /\ minute + 1 \in 0 .. MaxMinutes
      /\ dawn' = [dawn EXCEPT ![minute + 1] = Committed]
      /\ dawn \in [0 .. MaxMinutes -> Data] /\ time \in Nat /\ MaxMinutes \in Nat
      /\ UNCHANGED <<time, appended, uncounted, ruled, changes, overtaken, editing>>
      /\ UNCHANGED <<runs, views, viewed>>
  BY CacheAssumption DEF MinutePasses, tables, CacheInv, CacheTypeOK
<1>2. Committed \in Data /\ Committed' = Committed
  BY <1>1, CacheTypes DEF CacheInv, Committed
<1>3. CacheTypeOK' /\ EditingInv'
  BY <1>1, <1>2 DEF CacheInv, CacheTypeOK, EditingInv
<1>4. \A m \in 0 .. minute : dawn'[m] = dawn[m]
  BY <1>1
<1>5. ASSUME NEW m \in 0 .. minute + 1 PROVE Covers(Committed, dawn'[m])
  <2>1. CASE m = minute + 1
    BY <1>1, <1>2, <2>1, CoversItself
  <2>2. CASE m \in 0 .. minute
    BY <1>4, <2>2 DEF CacheInv, DawnInv
  <2> QED
    BY <1>1, <2>1, <2>2
<1>6. DawnInv'
  BY <1>1, <1>2, <1>5 DEF DawnInv, Covers
<1>7. TablesGrow
  BY <1>1, <1>2, <1>4, CoversItself DEF TablesGrow
<1> QED
  BY <1>1, <1>3, <1>6, <1>7, RulesStay

\* A change is committed: with the latest updated_at of all, or it is overtaken.
LEMMA ByCommitRule ==
    ASSUME CacheInv, NEW e \in editing, CommitRule(e)
    PROVE  CacheInv'
<1>1. PICK r, t : r = e.rule /\ t = e.stamp
  OBVIOUS
<1>2. /\ r \in Rules /\ t \in Nat /\ 0 < t /\ t <= time /\ time \in Nat /\ minute \in Nat
      /\ \A q \in Rules : ruled[q] # t /\ ruled[q] \in Nat /\ ruled[q] <= LatestStamp
      /\ LatestStamp \in Nat
      /\ ruled \in [Rules -> Nat] /\ changes \in [Rules -> Nat]
  BY <1>1, LatestIs, CacheAssumption DEF CacheInv, CacheTypeOK, EditingInv, Edit
<1>3. /\ editing' = editing \ {e}
      /\ ruled' = [ruled EXCEPT ![r] = t] /\ changes' = [changes EXCEPT ![r] = @ + 1]
      /\ UNCHANGED <<time, minute, dawn, appended, uncounted, runs, viewed>>
  BY <1>1 DEF CommitRule, clocks
<1>4. \/ t > LatestStamp /\ overtaken' = overtaken \ {r} /\ UNCHANGED views
      \/ /\ t < LatestStamp /\ overtaken' = overtaken \cup {r}
         /\ views' = [v \in Viewers |->
               IF UnderWay(v) THEN [views[v] EXCEPT !.passed = @ \cup {r}] ELSE views[v]]
  BY <1>1 DEF CommitRule
<1>5. /\ \A v \in Viewers : views[v] = None => views'[v] = None
      /\ \A v \in Viewers : views[v] # None =>
            /\ views'[v] \in View
            /\ views'[v] # None /\ views'[v].phase = views[v].phase
            /\ views'[v].begun = views[v].begun /\ views'[v].seen = views[v].seen
            /\ views'[v].print = views[v].print /\ views[v].passed \subseteq views'[v].passed
            /\ views[v].phase # "served" => overtaken' \subseteq views'[v].passed
      /\ views' \in [Viewers -> View \cup {None}]
  <2>1. ASSUME NEW v \in Viewers, views[v] # None
        PROVE  views[v] \in View /\ (views[v].phase # "served" => overtaken \subseteq views[v].passed)
    BY <2>1, OfRequest DEF Sound
  <2>2. CASE UNCHANGED views /\ overtaken' \subseteq overtaken
    BY <2>1, <2>2, CacheAssumption DEF CacheInv, CacheTypeOK
  <2>3. CASE /\ overtaken' = overtaken \cup {r}
             /\ views' = [v \in Viewers |->
                   IF UnderWay(v) THEN [views[v] EXCEPT !.passed = @ \cup {r}] ELSE views[v]]
    <3>1. ASSUME NEW v \in Viewers, UnderWay(v)
          PROVE  LET x == [views[v] EXCEPT !.passed = @ \cup {r}]
                 IN  /\ x \in View /\ x # None /\ x.phase = views[v].phase
                     /\ x.begun = views[v].begun /\ x.seen = views[v].seen
                     /\ x.print = views[v].print /\ x.passed = views[v].passed \cup {r}
      BY <1>2, <2>1, <3>1, CacheAssumption DEF UnderWay, View
    <3>2. \A v \in Viewers : views[v] = None => ~UnderWay(v)
      BY DEF UnderWay
    <3>3. ASSUME NEW v \in Viewers, views[v] # None
          PROVE  /\ views'[v] \in View
                 /\ views'[v] # None /\ views'[v].phase = views[v].phase
                 /\ views'[v].begun = views[v].begun /\ views'[v].seen = views[v].seen
                 /\ views'[v].print = views[v].print
                 /\ views[v].passed \subseteq views'[v].passed
                 /\ views[v].phase # "served" => overtaken' \subseteq views'[v].passed
      <4>1. CASE UnderWay(v)
        BY <2>1, <2>3, <3>1, <3>3, <4>1
      <4>2. CASE ~UnderWay(v)
        BY <2>1, <2>3, <3>3, <4>2 DEF UnderWay
      <4> QED
        BY <4>1, <4>2
    <3> QED
      BY <2>3, <3>2, <3>3
  <2> QED
    BY <1>4, <2>2, <2>3
<1>6. CacheTypeOK'
  BY <1>2, <1>3, <1>4, <1>5 DEF CacheInv, CacheTypeOK
<1>7. EditingInv'
  <2>1. \A d \in editing' : d \in editing /\ d.stamp # t
    BY <1>1, <1>3 DEF CacheInv, EditingInv
  <2>2. \A q \in Rules : ruled'[q] = t \/ ruled'[q] = ruled[q]
    BY <1>2, <1>3
  <2> QED
    BY <1>2, <1>3, <2>1, <2>2 DEF CacheInv, EditingInv
<1>8. Covers(Committed', Committed) /\ DawnInv'
  BY <1>2, <1>3, <1>6, CommittedGrows DEF CacheInv, CacheTypeOK
<1>9. TablesGrow
  BY <1>2, <1>3, <1>8 DEF TablesGrow
<1>10. ASSUME NEW c \in Calculated, HasStamp(c.print.newest)', NEW q \in Rules \ overtaken'
       PROVE  ruled'[q] > c.print.newest \/ changes'[q] <= c.seen.changes[q]
  <2>1. Good(c) /\ c.print.newest # t /\ c.print.newest \in Nat
    BY <1>1, CacheTypes DEF CacheInv, GoodInv, Good, Past, Fingerprint
  <2>2. PICK p \in Rules : ruled'[p] = c.print.newest
    BY <1>10 DEF HasStamp
  <2>3. p # r /\ ruled[p] = c.print.newest
    BY <1>2, <1>3, <2>1, <2>2
  <2>4. HasStamp(c.print.newest) /\ c.print.newest <= LatestStamp
    BY <1>2, <2>3 DEF HasStamp
  <2>5. CASE q = r
    BY <1>2, <1>3, <1>4, <2>1, <2>4, <2>5
  <2>6. CASE q # r
    BY <1>2, <1>3, <1>4, <2>1, <2>4, <2>6 DEF Good
  <2> QED
    BY <2>5, <2>6
<1> QED
  BY <1>5, <1>6, <1>7, <1>8, <1>9, <1>10, TableStep

-----------------------------------------------------------------------------
LEMMA CacheStuttering ==
    ASSUME CacheInv, UNCHANGED cacheVars
    PROVE  CacheInv'
<1>1. /\ UNCHANGED <<time, minute, dawn, appended, uncounted, ruled, changes, overtaken, editing>>
      /\ UNCHANGED <<runs, views, viewed>>
      /\ time \in Nat /\ minute \in Nat
  BY CacheAssumption DEF cacheVars, tables, clocks, CacheInv, CacheTypeOK
<1>2. CacheTypeOK' /\ EditingInv' /\ DawnInv'
  BY <1>1 DEF CacheInv, CacheTypeOK, EditingInv, DawnInv, Covers, Committed
<1>3. Covers(Committed', Committed)
  BY <1>1, CacheTypes, CoversItself DEF CacheInv, Committed
<1>4. TablesGrow
  BY <1>1, <1>3 DEF TablesGrow
<1> QED
  BY <1>1, <1>2, <1>4, RulesStay

LEMMA CacheStep == CacheInv /\ [CacheNext]_cacheVars => CacheInv'
BY CacheStuttering, ByAppendRow, ByChangeUncounted, ByCommitRule, ByMinutePasses, ByEditRule,
   ByBeginView, ByCountRows, ByStampRules, ByServeCached, ByLoadRows, ByLoadRules,
   ByStoreRun, ByFailView
   DEF CacheNext

LEMMA CacheInvariant == CacheSpec => []CacheInv
BY CacheInitially, CacheStep, PTL DEF CacheSpec

\* Rules, tables, clocks, requests, valuation runs and views have their shape
\* (portfolio_valuation.py:169-218).
THEOREM CacheTypeCorrect == CacheSpec => []CacheTypeOK
<1>1. CacheInv => CacheTypeOK
  BY DEF CacheInv
<1> QED
  BY <1>1, CacheInvariant, PTL

(***************************************************************************)
(* For any number of requests, of rules, of changes of rules that overlap  *)
(* and of changes that are not in the fingerprint: a valuation that is     *)
(* served holds what was posted when it was asked for, and the changes of  *)
(* the rules but of those that were overtaken; one of today holds all that *)
(* was committed when its minute began (portfolio_valuation.py 169-218;    *)
(* portfolio_api.py 247-280).                                              *)
(***************************************************************************)
THEOREM ServedCurrent == CacheSpec => []ServedIsCurrent
<1>1. CacheInv => ServedIsCurrent
  <2> SUFFICES ASSUME CacheInv, NEW v \in Viewers, Looks(v, "served")
               PROVE  /\ views[v].seen.appended >= views[v].begun.appended
                      /\ \A r \in Rules \ views[v].passed :
                            views[v].seen.changes[r] >= views[v].begun.changes[r]
                      /\ Covers(views[v].seen, dawn[views[v].print.minute])
    BY DEF ServedIsCurrent
  <2>1. /\ Sound(views[v]) /\ views[v].phase = "served"
        /\ views[v].begun \in Data /\ views[v].seen \in Data
    BY OfRequest DEF Looks
  <2> QED
    BY <2>1 DEF Sound, Data
<1> QED
  BY <1>1, CacheInvariant, PTL

-----------------------------------------------------------------------------
(***************************************************************************)
(* The sources of prices and rates.  A finite set ordered by a strict      *)
(* total order has a newest row; a resolver takes the newest of each group *)
(* and the newest of those of the first category, which is the newest of   *)
(* all rows of that category.                                              *)
(***************************************************************************)

\* A finite set has an element with nothing above it: one whose set of elements above is
\* minimal among these sets.
LEMMA HasTop ==
    ASSUME NEW S, IsFiniteSet(S), S # {}, NEW L \in SUBSET (S \X S),
           \A a \in S : <<a, a>> \notin L,
           \A a, b, c \in S : <<a, b>> \in L /\ <<b, c>> \in L => <<a, c>> \in L
    PROVE  \E a \in S : \A b \in S : <<b, a>> \notin L
<1> DEFINE Above(a) == {b \in S : <<b, a>> \in L}
           T == {Above(a) : a \in S}
<1>1. IsWellFoundedOn(StrictSubsetOrdering(S), SUBSET S)
  <2>1. FiniteSubsetsOf(S) = SUBSET S
    BY FS_FiniteSubsetsOfFinite
  <2>2. IsWellFoundedOn(StrictSubsetOrdering(S), FiniteSubsetsOf(S))
    BY FS_StrictSubsetOrderingWellFounded
  <2> QED
    BY <2>1, <2>2
<1>2. T \subseteq SUBSET S /\ T # {}
  <2>1. PICK a \in S : TRUE
    OBVIOUS
  <2>2. Above(a) \in T
    BY <2>1
  <2>3. ASSUME NEW A \in T PROVE A \subseteq S
    <3>1. PICK b \in S : A = Above(b)
      BY <2>3
    <3> QED
      BY <3>1
  <2> HIDE DEF T
  <2> QED
    BY <2>2, <2>3
<1> HIDE DEF T
<1>3. PICK A \in T : \A B \in T : <<B, A>> \notin StrictSubsetOrdering(S)
  BY <1>1, <1>2, WFMin
<1>4. PICK a \in S : A = Above(a)
  BY <1>3 DEF T
<1>5. ASSUME NEW b \in S, <<b, a>> \in L PROVE FALSE
  <2>1. Above(b) \subseteq A /\ b \in A /\ b \notin Above(b)
    BY <1>4, <1>5
  <2>2. <<Above(b), A>> \in StrictSubsetOrdering(S)
    BY <1>2, <1>3, <2>1 DEF StrictSubsetOrdering
  <2>3. Above(b) \in T
    BY <1>5 DEF T
  <2> QED
    BY <1>3, <2>2, <2>3
<1> QED
  BY <1>5

-----------------------------------------------------------------------------
\* Rows of one table, told apart by their ids.
PriceTable(S) ==
    /\ IsFiniteSet(S)
    /\ \A r \in S : r.stamp \in Nat /\ r.ingested \in Nat /\ r.id \in Nat /\ r.category \in Categories
    /\ \A r, s \in S : r.id = s.id => r = s

LEMMA SomeRows ==
    ASSUME NEW S, PriceTable(S), NEW T \in SUBSET S
    PROVE  PriceTable(T)
BY FS_Subset DEF PriceTable

LEMMA TopmostIsNewest ==
    ASSUME NEW S, PriceTable(S), S # {}
    PROVE  /\ Topmost(S) \in S
           /\ \A s \in S : s = Topmost(S) \/ Later(Topmost(S), s)
<1> DEFINE L == {p \in S \X S : Later(p[1], p[2])}
<1>1. \A a \in S : <<a, a>> \notin L
  BY DEF Later, PriceTable
<1>2. \A a, b, c \in S : <<a, b>> \in L /\ <<b, c>> \in L => <<a, c>> \in L
  <2> SUFFICES ASSUME NEW a \in S, NEW b \in S, NEW c \in S, Later(a, b), Later(b, c)
               PROVE  Later(a, c)
    OBVIOUS
  <2> QED
    BY DEF Later, PriceTable
<1>3. L \in SUBSET (S \X S) /\ IsFiniteSet(S)
  BY DEF PriceTable
<1> HIDE DEF L
<1>4. PICK a \in S : \A b \in S : <<b, a>> \notin L
  BY <1>1, <1>2, <1>3, HasTop
<1>5. \A b \in S : ~Later(b, a)
  BY <1>4 DEF L
<1>6. Topmost(S) \in S /\ \A s \in S : ~Later(s, Topmost(S))
  BY <1>5 DEF Topmost
<1>7. \A s \in S : s = Topmost(S) \/ Later(Topmost(S), s)
  BY <1>6 DEF Later, PriceTable
<1> QED
  BY <1>6, <1>7

\* Each row is represented by the newest of its group.
LEMMA CandidatesLead ==
    ASSUME NEW S, PriceTable(S), NEW at \in Nat
    PROVE  /\ Candidates(S, at) \subseteq Due(S, at)
           /\ \A x \in Due(S, at) : \E c \in Candidates(S, at) :
                 /\ c.category = x.category /\ c.source = x.source
                 /\ c = x \/ Later(c, x)
<1> DEFINE G(x) == PriceGroup(Due(S, at), x)
<1>1. ASSUME NEW x \in Due(S, at)
      PROVE  /\ Topmost(G(x)) \in G(x)
             /\ x = Topmost(G(x)) \/ Later(Topmost(G(x)), x)
  <2>1. G(x) \in SUBSET S /\ x \in G(x)
    BY <1>1 DEF PriceGroup, Due
  <2>2. PriceTable(G(x))
    BY <2>1, SomeRows
  <2> HIDE DEF G
  <2> QED
    BY <2>1, <2>2, TopmostIsNewest
<1>2. \A x \in Due(S, at) : G(x) \subseteq Due(S, at)
  BY DEF PriceGroup
<1>3. ASSUME NEW x \in Due(S, at)
      PROVE  \E c \in Candidates(S, at) :
                /\ c.category = x.category /\ c.source = x.source
                /\ c = x \/ Later(c, x)
  <2>1. Topmost(G(x)) \in Candidates(S, at)
    BY <1>3 DEF Candidates
  <2>2. Topmost(G(x)).category = x.category /\ Topmost(G(x)).source = x.source
    BY <1>1, <1>3 DEF PriceGroup
  <2> QED
    BY <1>1, <1>3, <2>1, <2>2
<1>4. Candidates(S, at) \subseteq Due(S, at)
  BY <1>1, <1>2 DEF Candidates
<1> QED
  BY <1>3, <1>4

\* The first category that matches is the one that ranks first.
LEMMA FirstCategory ==
    ASSUME NEW C, NEW order, Permutation(order), \A c \in C : c.category \in Categories
    PROVE  /\ FirstMatches(C, order) \subseteq C
           /\ FirstMatches(C, order) = {} => C = {}
           /\ \A m \in FirstMatches(C, order), c \in C :
                 \/ c \in FirstMatches(C, order) /\ m.category = c.category
                 \/ Rank(order, m.category) < Rank(order, c.category)
<1> DEFINE hits == {i \in 1 .. 4 : OfCategory(C, order[i]) # {}}
           Places(k) == {i \in 1 .. 4 : order[i] = k}
<1>1. FirstMatches(C, order) = IF hits = {} THEN {} ELSE OfCategory(C, order[Min(hits)])
  BY DEF FirstMatches
<1>2. ASSUME NEW c \in C
      PROVE  /\ Places(c.category) # {} /\ Places(c.category) \subseteq hits
             /\ \A i \in hits : order[i] = c.category => i \in Places(c.category)
  <2>1. PICK i \in 1 .. 4 : order[i] = c.category
    BY <1>2 DEF Permutation
  <2>2. \A k \in 1 .. 4 : order[k] = c.category => c \in OfCategory(C, order[k])
    BY <1>2 DEF OfCategory
  <2> QED
    BY <2>1, <2>2
<1>3. ASSUME hits = {} PROVE C = {}
  BY <1>2, <1>3
<1>4. CASE hits = {}
  BY <1>1, <1>3, <1>4
<1>5. CASE hits # {}
  <2>1. hits \in SUBSET Nat
    OBVIOUS
  <2>2. Min(hits) \in hits /\ \A i \in hits : Min(hits) <= i
    BY <1>5, <2>1, LeastIndex
  <2>3. FirstMatches(C, order) = OfCategory(C, order[Min(hits)])
    BY <1>1, <1>5
  <2>4. OfCategory(C, order[Min(hits)]) # {}
    BY <2>2
  <2> HIDE DEF hits
  <2>5. ASSUME NEW c \in C
        PROVE  /\ Rank(order, c.category) \in hits
               /\ order[Rank(order, c.category)] = c.category
               /\ c.category = order[Min(hits)] => Rank(order, c.category) = Min(hits)
    <3>1. Places(c.category) \in SUBSET Nat /\ Places(c.category) # {}
      BY <1>2, <2>5
    <3>2. /\ Rank(order, c.category) \in Places(c.category)
          /\ \A i \in Places(c.category) : Rank(order, c.category) <= i
      BY <3>1, LeastIndex DEF Rank, Places
    <3>3. Rank(order, c.category) \in hits
      BY <1>2, <2>5, <3>2
    <3>4. c.category = order[Min(hits)] => Min(hits) \in Places(c.category)
      BY <1>2, <2>2, <2>5
    <3>5. Rank(order, c.category) \in Nat /\ Min(hits) \in Nat
      BY <2>1, <2>2, <3>3
    <3>6. order[Rank(order, c.category)] = c.category
      BY <3>2 DEF Places
    <3> HIDE DEF Places
    <3>7. ASSUME c.category = order[Min(hits)] PROVE Rank(order, c.category) = Min(hits)
      <4>1. Rank(order, c.category) <= Min(hits) /\ Min(hits) <= Rank(order, c.category)
        BY <2>2, <3>2, <3>3, <3>4, <3>7
      <4> QED
        BY <3>5, <4>1
    <3> QED
      BY <3>3, <3>6, <3>7
  <2>6. ASSUME NEW m \in FirstMatches(C, order), NEW c \in C, c.category # m.category
        PROVE  Rank(order, m.category) < Rank(order, c.category)
    <3>1. m \in C /\ m.category = order[Min(hits)]
      BY <2>3 DEF OfCategory
    <3>2. Rank(order, m.category) = Min(hits) /\ Rank(order, c.category) \in hits
      BY <2>5, <3>1
    <3>3. Rank(order, c.category) # Min(hits)
      BY <2>5, <2>6, <3>1
    <3>4. Min(hits) <= Rank(order, c.category)
      BY <2>2, <3>2
    <3>5. Min(hits) \in Nat /\ Rank(order, c.category) \in Nat
      BY <2>1, <2>2, <3>2
    <3> QED
      BY <3>2, <3>3, <3>4, <3>5
  <2>7. \A m \in FirstMatches(C, order), c \in C :
           c.category = m.category => c \in FirstMatches(C, order)
    BY <2>3 DEF OfCategory
  <2> QED
    BY <2>3, <2>4, <2>6, <2>7 DEF OfCategory
<1> QED
  BY <1>4, <1>5

-----------------------------------------------------------------------------
(***************************************************************************)
(* What a resolver chooses.                                                *)
(***************************************************************************)
LEMMA ResolveIsForemost ==
    ASSUME NEW S \in SUBSET Price, PriceTable(S), NEW r \in Rule \cup {None}, NEW at \in Nat
    PROVE  Foremost(S, r, at) /\ Resolve(S, r, at) \in S \cup {None}
<1> DEFINE E == Eligible(S, r, at)
           P == Preferred(Candidates(S, at), r)
           M == FirstMatches(P, OrderOf(r))
<1>1. PriceTable(Due(S, at)) /\ Due(S, at) \subseteq S
  BY SomeRows DEF Due
<1>2. P \subseteq E
  BY CandidatesLead DEF Preferred, Eligible, Due
<1>3. \A x \in E : \E c \in P : c.category = x.category /\ (c = x \/ Later(c, x))
  <2> SUFFICES ASSUME NEW x \in E
               PROVE  \E c \in P : c.category = x.category /\ (c = x \/ Later(c, x))
    OBVIOUS
  <2>1. x \in Due(S, at)
    BY DEF Eligible, Due
  <2>2. PICK c \in Candidates(S, at) :
           c.category = x.category /\ c.source = x.source /\ (c = x \/ Later(c, x))
    BY <2>1, CandidatesLead
  <2>3. c \in P
    BY <2>2 DEF Preferred, Eligible
  <2> QED
    BY <2>2, <2>3
<1>4. Permutation(OrderOf(r))
  <2>1. CASE r = None
    <3>1. PRIORITY \in [1 .. 4 -> Categories]
      BY DEF PRIORITY, Categories
    <3>2. Permutation(PRIORITY)
      BY <3>1 DEF Permutation, Categories
    <3> QED
      BY <2>1, <3>2 DEF OrderOf
  <2>2. CASE r # None
    BY <2>2, PriceAssumption DEF OrderOf, Rule
  <2> QED
    BY <2>1, <2>2
<1>5. E \subseteq S /\ P \subseteq S
  BY <1>2 DEF Eligible
<1>6. \A c \in P : c.category \in Categories
  BY <1>5 DEF PriceTable
<1>7. Resolve(S, r, at) = IF M = {} THEN None ELSE Topmost(M)
  BY DEF Resolve
<1> HIDE DEF E, P, M
<1>8. /\ M \subseteq P
      /\ M = {} => P = {}
      /\ \A m \in M, c \in P :
            \/ c \in M /\ m.category = c.category
            \/ Rank(OrderOf(r), m.category) < Rank(OrderOf(r), c.category)
  BY <1>4, <1>6, FirstCategory DEF M
<1>9. CASE M = {}
  <2>1. E = {}
    BY <1>3, <1>8, <1>9
  <2> QED
    BY <1>7, <1>9, <2>1 DEF Foremost, E
<1>10. CASE M # {}
  <2> DEFINE chosen == Topmost(M)
  <2>1. PriceTable(M)
    BY <1>5, <1>8, SomeRows
  <2>2. chosen \in M /\ \A s \in M : s = chosen \/ Later(chosen, s)
    BY <1>10, <2>1, TopmostIsNewest
  <2>3. Resolve(S, r, at) = chosen /\ chosen \in S /\ chosen \in E
    BY <1>2, <1>5, <1>7, <1>8, <1>10, <2>2
  <2>4. chosen # None
    BY <2>3, PriceAssumption
  <2> HIDE DEF chosen
  <2>5. ASSUME NEW s \in E \ {chosen}
        PROVE  \/ Rank(OrderOf(r), chosen.category) < Rank(OrderOf(r), s.category)
               \/ chosen.category = s.category /\ Later(chosen, s)
    <3>1. PICK c \in P : c.category = s.category /\ (c = s \/ Later(c, s))
      BY <1>3, <2>5
    <3>2. CASE Rank(OrderOf(r), chosen.category) < Rank(OrderOf(r), c.category)
      BY <3>1, <3>2
    <3>3. CASE c \in M /\ chosen.category = c.category
      <4>1. chosen \in S /\ c \in S /\ s \in S
        BY <1>5, <2>3, <2>5
      <4>2. Later(chosen, c) /\ Later(c, s) => Later(chosen, s)
        BY <4>1 DEF Later, PriceTable
      <4>3. Later(chosen, s)
        BY <2>2, <2>5, <3>1, <3>3, <4>2
      <4> QED
        BY <3>1, <3>3, <4>3
    <3> QED
      BY <1>8, <2>2, <3>2, <3>3
  <2> QED
    BY <2>3, <2>4, <2>5 DEF Foremost, E
<1> QED
  BY <1>9, <1>10

-----------------------------------------------------------------------------
(***************************************************************************)
(* The same of rates.                                                      *)
(***************************************************************************)
Tie(r, s) == r.stamp = s.stamp /\ r.ingested = s.ingested
Straight(flip, r) == r.inverse = flip

\* Equally new rates of the two directions are told apart by their direction, all others by
\* what prices are told apart by.
LEMMA LaterForCases ==
    ASSUME NEW flip \in BOOLEAN, NEW r \in Rate, NEW s \in Rate
    PROVE  LaterFor(flip, r, s) <=>
             \/ Tie(r, s) /\ Straight(flip, r) /\ ~Straight(flip, s)
             \/ ~(Tie(r, s) /\ ~(Straight(flip, r) <=> Straight(flip, s))) /\ Later(r, s)
<1>1. /\ r.inverse = TRUE \/ r.inverse = FALSE
      /\ s.inverse = TRUE \/ s.inverse = FALSE
  BY DEF Rate
<1>2. r.inverse # s.inverse <=> ~(Straight(flip, r) <=> Straight(flip, s))
  <2>1. CASE flip = TRUE
    BY <1>1, <2>1, Zenon DEF Straight
  <2>2. CASE flip = FALSE
    BY <1>1, <2>2, Zenon DEF Straight
  <2> QED
    BY <2>1, <2>2
<1>3. LaterFor(flip, r, s) <=>
         IF Tie(r, s) /\ r.inverse # s.inverse THEN Straight(flip, r) ELSE Later(r, s)
  BY Zenon DEF LaterFor, Tie, Straight
<1> QED
  BY <1>2, <1>3, Zenon

LEMMA RatesInLine ==
    ASSUME NEW S \in SUBSET Rate, PriceTable(S), NEW flip \in BOOLEAN
    PROVE  /\ \A a \in S : ~LaterFor(flip, a, a)
           /\ \A a, b \in S : a = b \/ LaterFor(flip, a, b) \/ LaterFor(flip, b, a)
           /\ \A a, b, c \in S :
                 LaterFor(flip, a, b) /\ LaterFor(flip, b, c) => LaterFor(flip, a, c)
<1>1. \A a, b \in S : LaterFor(flip, a, b) <=>
         \/ Tie(a, b) /\ Straight(flip, a) /\ ~Straight(flip, b)
         \/ ~(Tie(a, b) /\ ~(Straight(flip, a) <=> Straight(flip, b))) /\ Later(a, b)
  BY LaterForCases
<1>2. \A a \in S : ~Later(a, a)
  BY DEF Later, PriceTable
<1>3. \A a, b \in S : a = b \/ Later(a, b) \/ Later(b, a)
  BY DEF Later, PriceTable
<1>4. \A a, b, c \in S : Later(a, b) /\ Later(b, c) => Later(a, c)
  BY DEF Later, PriceTable
<1>5. \A a, b, c \in S :
         /\ Tie(a, b) => Tie(b, a)
         /\ Tie(a, b) /\ Tie(b, c) => Tie(a, c)
         /\ Tie(a, b) /\ ~Tie(b, c) /\ Later(b, c) => Later(a, c)
         /\ Later(a, b) /\ ~Tie(a, b) /\ Tie(b, c) => Later(a, c)
         /\ Later(a, b) /\ Later(b, c) /\ Tie(a, c) => Tie(a, b)
  BY DEF Later, PriceTable, Tie
<1>6. \A a \in S : ~LaterFor(flip, a, a)
  BY <1>1, <1>2
<1>7. \A a, b \in S : a = b \/ LaterFor(flip, a, b) \/ LaterFor(flip, b, a)
  <2> SUFFICES ASSUME NEW a \in S, NEW b \in S
               PROVE  a = b \/ LaterFor(flip, a, b) \/ LaterFor(flip, b, a)
    OBVIOUS
  <2>1. (a = b \/ Later(a, b) \/ Later(b, a)) /\ (Tie(a, b) <=> Tie(b, a))
    BY <1>3, <1>5
  <2> QED
    BY <1>1, <2>1
<1>8. ASSUME NEW a \in S, NEW b \in S, NEW c \in S, LaterFor(flip, a, b), LaterFor(flip, b, c)
      PROVE  LaterFor(flip, a, c)
  <2>1. CASE Tie(a, b) /\ Tie(b, c)
    BY <1>1, <1>4, <1>5, <1>8, <2>1
  <2>2. CASE Tie(a, b) /\ ~Tie(b, c)
    BY <1>1, <1>4, <1>5, <1>8, <2>2
  <2>3. CASE ~Tie(a, b)
    BY <1>1, <1>4, <1>5, <1>8, <2>3
  <2> QED
    BY <2>1, <2>2, <2>3
<1> QED
  BY <1>6, <1>7, <1>8

LEMMA TopmostForIsNewest ==
    ASSUME NEW S \in SUBSET Rate, PriceTable(S), S # {}, NEW flip \in BOOLEAN
    PROVE  /\ TopmostFor(flip, S) \in S
           /\ \A s \in S : s = TopmostFor(flip, S) \/ LaterFor(flip, TopmostFor(flip, S), s)
<1> DEFINE L == {p \in S \X S : LaterFor(flip, p[1], p[2])}
<1>1. \A a \in S : <<a, a>> \notin L
  BY RatesInLine
<1>2. \A a, b, c \in S : <<a, b>> \in L /\ <<b, c>> \in L => <<a, c>> \in L
  BY RatesInLine
<1>3. L \in SUBSET (S \X S) /\ IsFiniteSet(S)
  BY DEF PriceTable
<1> HIDE DEF L
<1>4. PICK a \in S : \A b \in S : <<b, a>> \notin L
  BY <1>1, <1>2, <1>3, HasTop
<1>5. \A b \in S : ~LaterFor(flip, b, a)
  BY <1>4 DEF L
<1>6. /\ TopmostFor(flip, S) \in S
      /\ \A s \in S : ~LaterFor(flip, s, TopmostFor(flip, S))
  BY <1>5 DEF TopmostFor
<1> QED
  BY <1>6, RatesInLine

LEMMA RateCandidatesLead ==
    ASSUME NEW S \in SUBSET Rate, PriceTable(S), NEW at \in Nat, NEW flip \in BOOLEAN
    PROVE  /\ RateCandidates(S, at) \subseteq Due(S, at)
           /\ \A x \in Due(S, at) : \E c \in RateCandidates(S, at) :
                 c.category = x.category /\ (c = x \/ LaterFor(flip, c, x))
<1> DEFINE G(x) == RateGroup(Due(S, at), x)
<1>1. ASSUME NEW x \in Due(S, at)
      PROVE  /\ Topmost(G(x)) \in Due(S, at)
             /\ Topmost(G(x)).category = x.category
             /\ x = Topmost(G(x)) \/ LaterFor(flip, Topmost(G(x)), x)
  <2>1. G(x) \in SUBSET S /\ x \in G(x) /\ G(x) \subseteq Due(S, at)
    BY <1>1 DEF RateGroup, PriceGroup, Due
  <2>2. \A y \in G(x) : y.inverse = x.inverse /\ y.category = x.category
    BY DEF RateGroup, PriceGroup
  <2>3. PriceTable(G(x))
    BY <2>1, SomeRows
  <2> HIDE DEF G
  <2>4. Topmost(G(x)) \in G(x) /\ (x = Topmost(G(x)) \/ Later(Topmost(G(x)), x))
    BY <2>1, <2>3, TopmostIsNewest
  <2> QED
    BY <2>1, <2>2, <2>4 DEF LaterFor
<1> QED
  BY <1>1 DEF RateCandidates

LEMMA RateIsForemost ==
    ASSUME NEW S \in SUBSET Rate, PriceTable(S), NEW at \in Nat, NEW flip \in BOOLEAN
    PROVE  ForemostRate(S, flip, at)
<1> DEFINE E == Eligible(S, None, at)
           P == RateCandidates(S, at)
           M == FirstMatches(P, PRIORITY)
<1>1. E = Due(S, at) /\ E \subseteq S /\ P \subseteq E
  BY RateCandidatesLead DEF Eligible, Due
<1>2. \A x \in E : \E c \in P : c.category = x.category /\ (c = x \/ LaterFor(flip, c, x))
  BY <1>1, RateCandidatesLead
<1>3. Permutation(PRIORITY)
  <2>1. PRIORITY \in [1 .. 4 -> Categories]
    BY DEF PRIORITY, Categories
  <2> QED
    BY <2>1 DEF Permutation, Categories
<1>4. \A c \in P : c.category \in Categories
  BY <1>1 DEF PriceTable
<1>5. ResolveRate(S, flip, at) = IF M = {} THEN None ELSE TopmostFor(flip, M)
  BY DEF ResolveRate
<1> HIDE DEF E, P, M
<1>6. /\ M \subseteq P
      /\ M = {} => P = {}
      /\ \A m \in M, c \in P :
            \/ c \in M /\ m.category = c.category
            \/ Rank(PRIORITY, m.category) < Rank(PRIORITY, c.category)
  BY <1>3, <1>4, FirstCategory DEF M
<1>7. CASE M = {}
  <2>1. E = {}
    BY <1>2, <1>6, <1>7
  <2> QED
    BY <1>5, <1>7, <2>1 DEF ForemostRate, E
<1>8. CASE M # {}
  <2> DEFINE chosen == TopmostFor(flip, M)
  <2>1. M \in SUBSET Rate /\ PriceTable(M)
    BY <1>1, <1>6, SomeRows
  <2>2. chosen \in M /\ \A s \in M : s = chosen \/ LaterFor(flip, chosen, s)
    BY <1>8, <2>1, TopmostForIsNewest
  <2>3. ResolveRate(S, flip, at) = chosen /\ chosen \in S /\ chosen \in E
    BY <1>1, <1>5, <1>6, <1>8, <2>2
  <2>4. chosen # None
    BY <2>3, PriceAssumption
  <2> HIDE DEF chosen
  <2>5. ASSUME NEW s \in E \ {chosen}
        PROVE  \/ Rank(PRIORITY, chosen.category) < Rank(PRIORITY, s.category)
               \/ chosen.category = s.category /\ LaterFor(flip, chosen, s)
    <3>1. PICK c \in P : c.category = s.category /\ (c = s \/ LaterFor(flip, c, s))
      BY <1>2, <2>5
    <3>2. CASE Rank(PRIORITY, chosen.category) < Rank(PRIORITY, c.category)
      BY <3>1, <3>2
    <3>3. CASE c \in M /\ chosen.category = c.category
      <4>1. chosen \in S /\ c \in S /\ s \in S
        BY <1>1, <2>3, <2>5
      <4>2. LaterFor(flip, chosen, c) /\ LaterFor(flip, c, s) => LaterFor(flip, chosen, s)
        BY <4>1, RatesInLine
      <4>3. LaterFor(flip, chosen, s)
        BY <2>2, <2>5, <3>1, <3>3, <4>2
      <4> QED
        BY <3>1, <3>3, <4>3
    <3> QED
      BY <1>6, <2>2, <3>2, <3>3
  <2> QED
    BY <2>3, <2>4, <2>5 DEF ForemostRate, E
<1> QED
  BY <1>7, <1>8

LEMMA BothWays ==
    ASSUME NEW S \in SUBSET Rate, PriceTable(S), NEW at \in Nat
    PROVE  RatesAgree(S, at)
<1> DEFINE there == ResolveRate(S, FALSE, at)
           back == ResolveRate(S, TRUE, at)
           E == Eligible(S, None, at)
<1>1. ForemostRate(S, FALSE, at) /\ ForemostRate(S, TRUE, at)
  BY RateIsForemost
<1>2. E \subseteq S
  BY DEF Eligible
<1> SUFFICES ASSUME there # back
             PROVE  /\ there # None /\ back # None
                    /\ there.category = back.category /\ there.inverse # back.inverse
                    /\ there.stamp = back.stamp /\ there.ingested = back.ingested
  BY DEF RatesAgree
<1>3. /\ there = None => E = {}
      /\ there # None =>
           /\ there \in E
           /\ \A s \in E \ {there} :
                 \/ Rank(PRIORITY, there.category) < Rank(PRIORITY, s.category)
                 \/ there.category = s.category /\ LaterFor(FALSE, there, s)
      /\ back = None => E = {}
      /\ back # None =>
           /\ back \in E
           /\ \A s \in E \ {back} :
                 \/ Rank(PRIORITY, back.category) < Rank(PRIORITY, s.category)
                 \/ back.category = s.category /\ LaterFor(TRUE, back, s)
  BY <1>1 DEF ForemostRate
<1> HIDE DEF there, back, E
<1>4. there # None /\ back # None /\ there \in E /\ back \in E
  BY <1>3
<1>5. there.category \in Categories /\ back.category \in Categories
  BY <1>2, <1>4 DEF PriceTable
<1>6. \A k \in Categories : Rank(PRIORITY, k) \in Nat
  <2> SUFFICES ASSUME NEW k \in Categories PROVE Rank(PRIORITY, k) \in Nat
    OBVIOUS
  <2> DEFINE Places == {i \in 1 .. 4 : PRIORITY[i] = k}
  <2>1. Places \in SUBSET Nat /\ Places # {}
    BY DEF Categories
  <2> HIDE DEF Places
  <2>2. Min(Places) \in Nat
    BY <2>1, LeastIndex
  <2> QED
    BY <2>2 DEF Rank, Places
<1>7. /\ there.category = back.category
      /\ LaterFor(FALSE, there, back) /\ LaterFor(TRUE, back, there)
  <2>1. /\ \/ Rank(PRIORITY, there.category) < Rank(PRIORITY, back.category)
           \/ there.category = back.category /\ LaterFor(FALSE, there, back)
        /\ \/ Rank(PRIORITY, back.category) < Rank(PRIORITY, there.category)
           \/ back.category = there.category /\ LaterFor(TRUE, back, there)
    BY <1>3, <1>4
  <2>2. Rank(PRIORITY, there.category) \in Nat /\ Rank(PRIORITY, back.category) \in Nat
    BY <1>5, <1>6
  <2>3. \A i, j \in Nat : ~(i < j /\ j < i)
    OBVIOUS
  <2>4. CASE there.category = back.category
    <3>1. \A i \in Nat : ~(i < i)
      OBVIOUS
    <3> QED
      BY <2>1, <2>2, <2>4, <3>1, Zenon
  <2>5. CASE there.category # back.category
    BY <2>1, <2>2, <2>3, <2>5, Zenon
  <2> QED
    BY <2>4, <2>5
<1>8. /\ there.stamp \in Nat /\ there.ingested \in Nat /\ there.id \in Nat
      /\ back.stamp \in Nat /\ back.ingested \in Nat /\ back.id \in Nat
  BY <1>2, <1>4 DEF PriceTable
<1>9. ~(Later(there, back) /\ Later(back, there))
  BY <1>8 DEF Later
<1>10. there \in Rate /\ back \in Rate /\ TRUE \in BOOLEAN /\ FALSE \in BOOLEAN
  BY <1>2, <1>4
<1>11. /\ Straight(TRUE, there) <=> ~Straight(FALSE, there)
       /\ Straight(TRUE, back) <=> ~Straight(FALSE, back)
  <2>1. /\ there.inverse = TRUE \/ there.inverse = FALSE
        /\ back.inverse = TRUE \/ back.inverse = FALSE
    BY <1>10 DEF Rate
  <2> QED
    BY <2>1, Zenon DEF Straight
<1>12. Tie(there, back) /\ Straight(FALSE, there) /\ Straight(TRUE, back)
  <2>1. Tie(there, back) <=> Tie(back, there)
    BY DEF Tie
  <2>2. LaterFor(FALSE, there, back) <=>
           \/ Tie(there, back) /\ Straight(FALSE, there) /\ ~Straight(FALSE, back)
           \/ /\ ~(Tie(there, back) /\ ~(Straight(FALSE, there) <=> Straight(FALSE, back)))
              /\ Later(there, back)
    BY <1>10, LaterForCases, Zenon
  <2>3. LaterFor(TRUE, back, there) <=>
           \/ Tie(back, there) /\ Straight(TRUE, back) /\ ~Straight(TRUE, there)
           \/ /\ ~(Tie(back, there) /\ ~(Straight(TRUE, back) <=> Straight(TRUE, there)))
              /\ Later(back, there)
    BY <1>10, LaterForCases, Zenon
  <2> QED
    BY <1>7, <1>9, <1>11, <2>1, <2>2, <2>3, Zenon
<1> QED
  BY <1>4, <1>7, <1>12, Zenon DEF Tie, Straight

-----------------------------------------------------------------------------
(***************************************************************************)
(* Every reachable state.                                                  *)
(***************************************************************************)
\* A row is added under an id no other row has, and after every day that is closed.
ApartById ==
    /\ \A r, s \in AllPrices : r.id = s.id => r = s
    /\ \A r, s \in rates : r.id = s.id => r = s
    /\ \A r \in bars : r.id > MaxRows

PriceInv ==
    /\ PriceTypeOK
    /\ ApartById
    /\ Len(closes) = date
    /\ ClosesStand

LEMMA RowsOfTables ==
    ASSUME PriceInv
    PROVE  PriceTable(AllPrices) /\ PriceTable(rates) /\ AllPrices \subseteq Price
<1>1. IsFiniteSet(AllPrices) /\ AllPrices \subseteq Price
  BY FS_Union DEF PriceInv, PriceTypeOK, AllPrices
<1> QED
  BY <1>1 DEF PriceTable, PriceInv, PriceTypeOK, ApartById, Price, Rate

LEMMA UsedRows ==
    ASSUME NEW S, NEW m
    PROVE  Used(S, m) \in SUBSET S
BY DEF Used, OfCategory

LEMMA ResolveOfDue ==
    ASSUME NEW S, NEW T, NEW r, NEW at, Due(S, at) = Due(T, at)
    PROVE  Resolve(S, r, at) = Resolve(T, r, at)
BY DEF Resolve, Candidates

LEMMA ValuedIsPrice ==
    ASSUME PriceInv, NEW m \in {"AUTO", "DEMO_ONLY"}, NEW r \in Rule \cup {None}, NEW at \in Nat
    PROVE  Valued(m, r, at) \in Price \cup {None}
<1>1. Used(AllPrices, m) \in SUBSET Price /\ PriceTable(Used(AllPrices, m))
  BY RowsOfTables, UsedRows, SomeRows
<1>2. RuleIn(m, r) \in Rule \cup {None}
  BY DEF RuleIn
<1> QED
  BY <1>1, <1>2, ResolveIsForemost DEF Valued

LEMMA PriceInvInitially ==
    ASSUME PriceInit
    PROVE  PriceInv
<1>1. PICK seed \in Seeds :
         observations = seed.observations /\ bars = seed.bars /\ rates = seed.rates
  BY DEF PriceInit
<1>2. Seeded(seed)
  BY <1>1, PriceAssumption
<1>3. PriceTypeOK
  BY <1>1, <1>2, PriceAssumption DEF PriceTypeOK, PriceInit, Seeded
<1>4. ApartById
  BY <1>1, <1>2 DEF ApartById, Seeded, AllPrices
<1> QED
  BY <1>3, <1>4 DEF PriceInv, PriceInit, ClosesStand

LEMMA ObservedPrice ==
    ASSUME PriceInv, NEW category \in Categories, ObservePrice(category),
           UNCHANGED <<bars, date, closes>>
    PROVE  /\ observations' \subseteq Price /\ IsFiniteSet(observations')
           /\ rates' = rates /\ ApartById' /\ ClosesStand'
<1>1. PICK feed \in PriceFeeds, id \in Free :
         observations' = observations \cup
            {[category |-> category, source |-> feed.source, stamp |-> feed.stamp,
              ingested |-> date, id |-> id]}
  BY DEF ObservePrice
<1> DEFINE x == [category |-> category, source |-> feed.source, stamp |-> feed.stamp,
                 ingested |-> date, id |-> id]
<1>2. x \in Price /\ x.id \in 1 .. MaxRows /\ x.ingested = date
  BY PriceAssumption DEF PriceInv, PriceTypeOK, Price, PriceFeed, Free
<1>3. /\ \A r \in observations : r.id # x.id
      /\ \A r \in bars : r.id # x.id
  BY <1>2, PriceAssumption DEF Free, PriceInv, PriceTypeOK, ApartById, Price
<1>4. observations' = observations \cup {x} /\ rates' = rates
  BY <1>1 DEF ObservePrice
<1> HIDE DEF x
<1>5. observations' \subseteq Price /\ IsFiniteSet(observations')
  BY <1>2, <1>4, FS_AddElement DEF PriceInv, PriceTypeOK
<1>6. AllPrices' = AllPrices \cup {x} /\ \A r \in AllPrices : r.id # x.id
  BY <1>3, <1>4 DEF AllPrices
<1>7. ApartById'
  BY <1>4, <1>6 DEF ApartById, PriceInv
<1>8. ClosesStand'
  <2> SUFFICES ASSUME NEW i \in DOMAIN closes,
                      \A r \in AllPrices' : r.stamp <= i - 1 => r.ingested <= i - 1
               PROVE  Resolve(Used(AllPrices', closes[i].mode),
                              RuleIn(closes[i].mode, closes[i].rule), i - 1) = closes[i].price
    BY DEF ClosesStand, Valued
  <2>1. i \in 1 .. date /\ date \in Nat
    BY DEF PriceInv, PriceTypeOK
  <2>2. ~(x.stamp <= i - 1)
    BY <1>2, <1>6, <2>1
  <2>3. Due(Used(AllPrices', closes[i].mode), i - 1) = Due(Used(AllPrices, closes[i].mode), i - 1)
    BY <1>6, <2>2 DEF Due, Used, OfCategory
  <2>4. Valued(closes[i].mode, closes[i].rule, i - 1) = closes[i].price
    BY <1>6 DEF PriceInv, ClosesStand
  <2> QED
    BY <2>3, <2>4, ResolveOfDue DEF Valued
<1> QED
  BY <1>4, <1>5, <1>7, <1>8

LEMMA ObservedRate ==
    ASSUME PriceInv, NEW category \in Categories, ObserveRate(category),
           UNCHANGED <<bars, date, closes>>
    PROVE  /\ rates' \subseteq Rate /\ IsFiniteSet(rates')
           /\ observations' = observations /\ ApartById' /\ ClosesStand'
<1>1. PICK feed \in RateFeeds, id \in Free :
         rates' = rates \cup
            {[category |-> category, source |-> feed.source, stamp |-> feed.stamp,
              inverse |-> feed.inverse, ingested |-> date, id |-> id]}
  BY DEF ObserveRate
<1> DEFINE x == [category |-> category, source |-> feed.source, stamp |-> feed.stamp,
                 inverse |-> feed.inverse, ingested |-> date, id |-> id]
<1>2. x \in Rate /\ \A r \in rates : r.id # x.id
  BY PriceAssumption DEF PriceInv, PriceTypeOK, Rate, RateFeed, Free
<1>3. rates' = rates \cup {x} /\ AllPrices' = AllPrices /\ observations' = observations
  BY <1>1 DEF ObserveRate, AllPrices
<1> HIDE DEF x
<1>4. rates' \subseteq Rate /\ IsFiniteSet(rates')
  BY <1>2, <1>3, FS_AddElement DEF PriceInv, PriceTypeOK
<1>5. ApartById'
  BY <1>2, <1>3 DEF ApartById, PriceInv
<1>6. ClosesStand'
  BY <1>3 DEF ClosesStand, Valued, PriceInv
<1> QED
  BY <1>3, <1>4, <1>5, <1>6

LEMMA PriceInvKept ==
    ASSUME PriceInv, [PriceNext]_priceVars
    PROVE  PriceInv'
<1> USE DEF PriceInv
<1>1. ASSUME NEW category \in Categories, ObservePrice(category) \/ ObserveRate(category),
             UNCHANGED <<bars, date, closes, rule>>, mode' \in {"AUTO", "DEMO_ONLY"}
      PROVE  PriceInv'
  BY <1>1, ObservedPrice, ObservedRate DEF PriceTypeOK
<1>2. CASE ImportFile
  BY <1>1, <1>2 DEF ImportFile, Categories, PRIORITY
<1>3. CASE ReceivePositions
  <2>1. "BROKER" \in Categories /\ mode' \in {"AUTO", "DEMO_ONLY"}
    BY <1>3 DEF ReceivePositions, Categories, PRIORITY, PriceTypeOK
  <2> QED
    BY <1>1, <1>3, <2>1 DEF ReceivePositions
<1>4. CASE SyncProvider
  <2>1. "PROVIDER" \in Categories /\ mode' \in {"AUTO", "DEMO_ONLY"}
    BY <1>4 DEF SyncProvider, Categories, PRIORITY, PriceTypeOK
  <2> QED
    BY <1>1, <1>4, <2>1 DEF SyncProvider
<1>5. CASE SetRule
  BY <1>5 DEF SetRule, PriceTypeOK, ApartById, ClosesStand, Valued, AllPrices
<1>6. CASE CloseDate
  <2> DEFINE m == [price |-> Valued(mode, rule, date), rule |-> rule, mode |-> mode]
  <2>1. date \in Nat /\ date + 1 \in 0 .. MaxDate
    BY <1>6, PriceAssumption DEF CloseDate, PriceTypeOK
  <2>2. m \in Mark
    BY <2>1, ValuedIsPrice DEF Mark, PriceTypeOK
  <2>3. closes' = Append(closes, m) /\ AllPrices' = AllPrices
    BY <1>6 DEF CloseDate, AllPrices
  <2>4. m.price = Valued(m.mode, m.rule, date)
    OBVIOUS
  <2> HIDE DEF m
  <2>5. PriceTypeOK' /\ ApartById' /\ Len(closes') = date'
    BY <1>6, <2>1, <2>2, <2>3 DEF CloseDate, PriceTypeOK, ApartById
  <2>6. ASSUME NEW i \in DOMAIN closes',
               \A r \in AllPrices' : r.stamp <= i - 1 => r.ingested <= i - 1
        PROVE  Resolve(Used(AllPrices', closes'[i].mode),
                       RuleIn(closes'[i].mode, closes'[i].rule), i - 1) = closes'[i].price
    <3>1. CASE i = date + 1
      <4>1. closes'[i] = m /\ i - 1 = date
        BY <2>1, <2>3, <3>1 DEF PriceTypeOK
      <4> QED
        BY <2>3, <2>4, <4>1 DEF Valued
    <3>2. CASE i # date + 1
      <4>1. i \in DOMAIN closes /\ closes'[i] = closes[i]
        BY <2>1, <2>3, <2>6, <3>2 DEF PriceTypeOK
      <4>2. Valued(closes[i].mode, closes[i].rule, i - 1) = closes[i].price
        BY <2>3, <2>6, <4>1 DEF ClosesStand
      <4> QED
        BY <2>3, <4>1, <4>2 DEF Valued
    <3> QED
      BY <3>1, <3>2
  <2> QED
    BY <2>5, <2>6 DEF ClosesStand, Valued
<1>7. CASE UNCHANGED priceVars
  BY <1>7 DEF priceVars, PriceTypeOK, ApartById, ClosesStand, Valued, AllPrices
<1> QED
  BY <1>2, <1>3, <1>4, <1>5, <1>6, <1>7 DEF PriceNext

LEMMA SoundPrices ==
    ASSUME PriceInv
    PROVE  PricesAreSound
<1>1. /\ PriceTable(AllPrices) /\ AllPrices \in SUBSET Price
      /\ PriceTable(Used(AllPrices, mode)) /\ Used(AllPrices, mode) \in SUBSET Price
      /\ PriceTable(Used(rates, mode)) /\ Used(rates, mode) \in SUBSET Rate
  BY RowsOfTables, UsedRows, SomeRows DEF PriceInv, PriceTypeOK
<1>2. rule \in Rule \cup {None} /\ RuleIn(mode, rule) \in Rule \cup {None}
  BY DEF PriceInv, PriceTypeOK, RuleIn
<1>3. ASSUME NEW at \in 0 .. date
      PROVE  /\ Foremost(AllPrices, rule, at)
             /\ Foremost(Used(AllPrices, mode), RuleIn(mode, rule), at)
             /\ \A flip \in BOOLEAN : ForemostRate(Used(rates, mode), flip, at)
             /\ RatesAgree(Used(rates, mode), at)
  <2>1. at \in Nat
    BY <1>3 DEF PriceInv, PriceTypeOK
  <2> QED
    BY <1>1, <1>2, <2>1, ResolveIsForemost, RateIsForemost, BothWays
<1> QED
  BY <1>3 DEF PricesAreSound, PriceInv

\* Observations, rates, rules and recorded marks have their shape (price_sources.py).
THEOREM PriceTypeCorrect == PriceSpec => []PriceTypeOK
<1>1. PriceInv => PriceTypeOK
  BY DEF PriceInv
<1> QED
  BY <1>1, PriceInvInitially, PriceInvKept, PTL DEF PriceSpec

\* "A stale selected source never falls back to demo" (price_sources.py:1): quotes and
\* valuations of every day go by the newest row of the foremost source, rates by the same
\* row in both directions, and what was recorded of a day stands (price_sources.resolve).
THEOREM PricesSound == PriceSpec => []PricesAreSound
<1>1. PriceInit => PriceInv
  BY PriceInvInitially
<1>2. PriceInv /\ [PriceNext]_priceVars => PriceInv'
  BY PriceInvKept
<1>3. PriceInv => PricesAreSound
  BY SoundPrices
<1> QED
  BY <1>1, <1>2, <1>3, PTL DEF PriceSpec

-----------------------------------------------------------------------------
(***************************************************************************)
(* The saved workspaces.  Whatever a page, a timer, a post or an answer    *)
(* carries for a workspace was made for that workspace (HomeInv), and what *)
(* an action under way has captured stays usable until its answer arrives  *)
(* (ActionInv).                                                            *)
(***************************************************************************)

LEMMA LeastSpace ==
    ASSUME NEW K \in SUBSET Spaces, K # {}
    PROVE  Min(K) \in K
<1>1. K \in SUBSET Nat
  BY DEF Spaces
<1> QED
  BY <1>1, LeastIndex

\* A list has layouts of M only.
Home(spaces, M) == \A s \in Spaces : spaces[s] # None => LayoutOf(s, spaces[s]) \in M

\* What an action has captured stays usable until its answer arrives.
ActionInv ==
    acting # None =>
        /\ Home(acting.list, made)
        /\ acting.action = "rename" => LayoutOf(acting.space, acting.config) \in made
        /\ acting.action \in {"create", "duplicate"} =>
              /\ acting.phase = "sent" => born < MaxSpaces
              /\ acting.phase = "served" =>
                    acting.new \in Spaces /\ LayoutOf(acting.new, acting.config) \in made

HomeInv ==
    /\ Known(saved) # {}
    /\ Home(saved, made) /\ Home(list, made)
    /\ {page, timer, local} \subseteq made \cup {None}
    /\ \A post \in saves : LayoutOf(post.space, post.config) \in made

WorkspaceInv == WorkspaceTypeOK /\ ActionInv /\ HomeInv

-----------------------------------------------------------------------------
LEMMA WorkspaceInitially == WorkspaceInit => WorkspaceInv
<1> SUFFICES ASSUME WorkspaceInit PROVE WorkspaceInv
  OBVIOUS
<1>1. born \in Spaces /\ 0 \in Configs
  BY WorkspaceAssumption DEF WorkspaceInit, Spaces, Configs
<1>2. made \subseteq Layout
  <2>1. 1 .. born \subseteq Spaces
    BY <1>1, WorkspaceAssumption DEF Spaces
  <2> QED
    BY <1>1, <2>1 DEF WorkspaceInit, Layout
<1>3. saved \in Lists /\ list \in Lists
  BY <1>1 DEF WorkspaceInit, Lists
<1>4. WorkspaceTypeOK
  <2>1. saveCount \in 0 .. MaxSaves /\ edits \in Configs /\ saves = {}
    BY <1>1, WorkspaceAssumption DEF WorkspaceInit
  <2>2. {page, timer, local} = {None} /\ acting = None /\ warning = FALSE
    BY DEF WorkspaceInit
  <2> QED
    BY <1>1, <1>2, <1>3, <2>1, <2>2 DEF WorkspaceTypeOK
<1>5. ActionInv
  BY DEF WorkspaceInit, ActionInv
<1>6. Home(saved, made)
  BY <1>1 DEF WorkspaceInit, Home, LayoutOf, Spaces
<1>7. 1 \in Known(saved)
  BY <1>1, WorkspaceAssumption DEF WorkspaceInit, Known, Spaces
<1>8. HomeInv
  BY <1>6, <1>7 DEF WorkspaceInit, HomeInv, Home
<1> QED
  BY <1>4, <1>5, <1>8 DEF WorkspaceInv

\* A deletion that is not refused leaves a workspace.
LEMMA OneIsLeft ==
    ASSUME NEW s, Known(saved) \in SUBSET Spaces, ~(Cardinality(Known(saved)) <= 1)
    PROVE  Known(saved) \ {s} # {}
<1>1. IsFiniteSet({s}) /\ Cardinality({s}) = 1
  BY FS_Singleton
<1>2. SUFFICES ASSUME Known(saved) \subseteq {s} PROVE FALSE
  OBVIOUS
<1>3. Cardinality(Known(saved)) <= 1
  BY <1>1, <1>2, FS_Subset
<1> QED
  BY <1>3

\* What the service does with an action, whether or not its answer arrives.
LEMMA ServedHome ==
    ASSUME WorkspaceInv, acting # None, acting.phase = "sent", Serves
    PROVE  /\ saved' \in Lists /\ born' \in Spaces
           /\ made \subseteq made' /\ made' \subseteq Layout
           /\ Home(saved', made') /\ Known(saved') # {}
           /\ acting.action \in {"create", "duplicate"} => LayoutOf(born', acting.config) \in made'
<1> USE DEF WorkspaceInv, WorkspaceTypeOK
<1>0. acting \in WorkspaceAction /\ HomeInv /\ ActionInv
  OBVIOUS
<1>1. acting.space \in Spaces /\ acting.config \in Configs /\ saved \in Lists /\ made \subseteq Layout
  BY <1>0 DEF WorkspaceAction
<1>2. CASE UNCHANGED <<saved, born, made>> /\ acting.action \in {"rename", "delete"}
  BY <1>0, <1>1, <1>2 DEF HomeInv
<1> Known(saved) \in SUBSET Spaces /\ Known(saved) # {}
  BY <1>0 DEF HomeInv, Known
<1>3. CASE /\ saved' = [saved EXCEPT ![acting.space] = None]
           /\ acting.action = "delete" /\ UNCHANGED <<born, made>>
           /\ ~(Cardinality(Known(saved)) <= 1)
  <2>1. Known(saved) \ {acting.space} # {}
    BY <1>3, OneIsLeft
  <2>2. Known(saved') # {}
    BY <1>1, <1>3, <2>1 DEF Known, Lists
  <2> QED
    BY <1>0, <1>1, <1>3, <2>2 DEF HomeInv, Home, Lists
<1>4. CASE /\ saved' = [saved EXCEPT ![acting.space] = acting.config]
           /\ acting.action = "rename" /\ UNCHANGED <<born, made>>
  <2>1. Known(saved') # {}
    BY <1>1, <1>4, WorkspaceAssumption DEF Known, Lists
  <2> QED
    BY <1>0, <1>1, <1>4, <2>1 DEF HomeInv, ActionInv, Home, Lists
<1>5. CASE /\ acting.action \in {"create", "duplicate"}
           /\ born' = born + 1
           /\ saved' = [saved EXCEPT ![born + 1] = acting.config]
           /\ made' = made \cup {LayoutOf(born + 1, acting.config)}
  <2>1. born + 1 \in Spaces
    BY <1>0, <1>5, WorkspaceAssumption DEF ActionInv, Spaces
  <2>2. made' \subseteq Layout
    BY <1>1, <1>5, <2>1 DEF LayoutOf, Layout
  <2>3. Home(saved', made')
    BY <1>0, <1>1, <1>5, <2>1 DEF HomeInv, Home, Lists
  <2>4. Known(saved') # {}
    BY <1>1, <1>5, <2>1, WorkspaceAssumption DEF Known, Lists
  <2> QED
    BY <1>1, <1>5, <2>1, <2>2, <2>3, <2>4 DEF Lists
<1>6. acting.action \in {"create", "duplicate", "rename", "delete"}
  BY <1>0 DEF WorkspaceAction
<1>7. CASE acting.action = "delete"
  BY <1>2, <1>3, <1>7 DEF Serves, Refused
<1>8. CASE acting.action = "rename"
  BY <1>2, <1>4, <1>8 DEF Serves, Refused
<1>9. CASE acting.action \in {"create", "duplicate"}
  BY <1>5, <1>9 DEF Serves, Refused
<1> QED
  BY <1>6, <1>7, <1>8, <1>9

-----------------------------------------------------------------------------
\* The tables and what is under way stay as they are.
LEMMA ServerStays ==
    ASSUME WorkspaceInv, UNCHANGED <<saved, born, acting, made>>
    PROVE  /\ saved' \in Lists /\ born' \in Spaces /\ made' \subseteq Layout
           /\ acting' \in WorkspaceAction \cup {None}
           /\ ActionInv' /\ Known(saved)' # {} /\ Home(saved, made)'
BY DEF WorkspaceInv, WorkspaceTypeOK, HomeInv, ActionInv, Home, Known, LayoutOf

LEMMA ByOpenPage == WorkspaceInv /\ OpenPage => WorkspaceInv'
<1> SUFFICES ASSUME WorkspaceInv, OpenPage PROVE WorkspaceInv'
  OBVIOUS
<1>0. WorkspaceTypeOK /\ HomeInv
  BY DEF WorkspaceInv
<1>1. UNCHANGED <<saved, born, saves, saveCount, acting, warning, edits, made>> /\ list' = saved
  BY DEF OpenPage, spaceRows, traffic
<1> DEFINE s == IF local # None /\ local.space \in Known(saved)
                THEN local.space ELSE Min(Known(saved))
<1>2. s \in Known(saved)
  BY <1>0, LeastSpace DEF HomeInv, Known
<1>3. LayoutOf(s, saved[s]) \in made
  BY <1>0, <1>2 DEF HomeInv, Home, Known
<1>4. page' = IF local # None /\ local.space = s THEN local ELSE LayoutOf(s, saved[s])
  BY DEF OpenPage, Shows
<1> HIDE DEF s
<1>5. page' \in made /\ timer' = page' /\ local' = page'
  BY <1>0, <1>3, <1>4 DEF HomeInv, OpenPage, Shows
<1>6. WorkspaceTypeOK'
  BY <1>0, <1>1, <1>5, ServerStays DEF WorkspaceTypeOK
<1>7. HomeInv'
  BY <1>0, <1>1, <1>5, ServerStays DEF HomeInv, Home
<1> QED
  BY <1>1, <1>6, <1>7, ServerStays DEF WorkspaceInv

LEMMA ByEditLayout == WorkspaceInv /\ EditLayout => WorkspaceInv'
<1> SUFFICES ASSUME WorkspaceInv, EditLayout PROVE WorkspaceInv'
  OBVIOUS
<1>0. WorkspaceTypeOK /\ HomeInv /\ ActionInv
  BY DEF WorkspaceInv
<1>1. UNCHANGED <<saved, born, saves, saveCount, acting, warning, list>>
  BY DEF EditLayout, spaceRows, traffic
<1>2. page \in Layout /\ edits + 1 \in Configs
  BY <1>0, WorkspaceAssumption DEF EditLayout, WorkspaceTypeOK, Configs
<1>3. page' = LayoutOf(page.space, edits + 1) /\ timer' = page' /\ local' = page'
  BY <1>2 DEF EditLayout, Shows, Layout, LayoutOf
<1>4. page' \in Layout /\ made' = made \cup {page'}
  BY <1>2, <1>3 DEF EditLayout, Layout, LayoutOf
<1>5. WorkspaceTypeOK'
  BY <1>0, <1>1, <1>2, <1>3, <1>4 DEF WorkspaceTypeOK, EditLayout
<1>6. ActionInv'
  BY <1>0, <1>1, <1>4 DEF ActionInv, Home, LayoutOf
<1>7. HomeInv'
  BY <1>0, <1>1, <1>3, <1>4 DEF HomeInv, Home, LayoutOf, Known
<1> QED
  BY <1>5, <1>6, <1>7 DEF WorkspaceInv

LEMMA ByTimerFires == WorkspaceInv /\ TimerFires => WorkspaceInv'
<1> SUFFICES ASSUME WorkspaceInv, TimerFires PROVE WorkspaceInv'
  OBVIOUS
<1>0. WorkspaceTypeOK /\ HomeInv
  BY DEF WorkspaceInv
<1>1. UNCHANGED <<saved, born, page, list, acting, warning, local, edits, made>> /\ timer' = None
  BY DEF TimerFires, spaceRows
<1>2. timer \in Layout /\ timer \in made
  BY <1>0 DEF TimerFires, WorkspaceTypeOK, HomeInv
<1> DEFINE post == [space |-> timer.space, config |-> timer.config,
                    number |-> saveCount + 1, heard |-> TRUE]
<1>3. \/ UNCHANGED <<saves, saveCount>>
      \/ saves' = saves \cup {post} /\ saveCount' = saveCount + 1
  BY DEF TimerFires, traffic
<1>4. saveCount + 1 \in 1 .. MaxSaves /\ saveCount \in 0 .. MaxSaves
  BY <1>0, WorkspaceAssumption DEF TimerFires, WorkspaceTypeOK
<1>5. /\ post \in [space: Spaces, config: Configs, number: 1 .. MaxSaves, heard: BOOLEAN]
      /\ LayoutOf(post.space, post.config) = timer
  BY <1>2, <1>4 DEF Layout, LayoutOf
<1> HIDE DEF post
<1>6. /\ saveCount' \in 0 .. MaxSaves
      /\ saves' \subseteq [space: Spaces, config: Configs, number: 1 .. MaxSaves, heard: BOOLEAN]
      /\ \A p \in saves' : LayoutOf(p.space, p.config) \in made
  <2>1. CASE UNCHANGED <<saves, saveCount>>
    BY <1>0, <2>1 DEF WorkspaceTypeOK, HomeInv
  <2>2. CASE saves' = saves \cup {post} /\ saveCount' = saveCount + 1
    BY <1>0, <1>2, <1>4, <1>5, <2>2, WorkspaceAssumption DEF WorkspaceTypeOK, HomeInv
  <2> QED
    BY <1>3, <2>1, <2>2
<1>7. WorkspaceTypeOK'
  BY <1>0, <1>1, <1>6, ServerStays DEF WorkspaceTypeOK
<1>8. HomeInv'
  BY <1>0, <1>1, <1>6, ServerStays DEF HomeInv, Home, LayoutOf
<1> QED
  BY <1>1, <1>7, <1>8, ServerStays DEF WorkspaceInv

LEMMA BySave ==
    ASSUME WorkspaceInv, NEW post \in saves, SaveServed(post) \/ SaveLost(post)
    PROVE  WorkspaceInv'
<1>0. WorkspaceTypeOK /\ HomeInv /\ ActionInv
  BY DEF WorkspaceInv
<1>1. /\ UNCHANGED <<born, page, list, timer, saveCount, acting, local, edits, made>>
      /\ saves' \subseteq saves
  BY DEF SaveServed, SaveLost
<1>2. warning' \in BOOLEAN
  BY <1>0 DEF SaveServed, SaveLost, Hears, WorkspaceTypeOK
<1>3. post.space \in Spaces /\ post.config \in Configs /\ LayoutOf(post.space, post.config) \in made
  BY <1>0 DEF WorkspaceTypeOK, HomeInv
<1>4. \/ saved' = saved
      \/ post.space \in Known(saved) /\ saved' = [saved EXCEPT ![post.space] = post.config]
  BY DEF SaveServed, SaveLost
<1>5. saved' \in Lists /\ Home(saved', made) /\ Known(saved') # {}
  <2>1. CASE saved' = saved
    BY <1>0, <2>1 DEF WorkspaceTypeOK, HomeInv
  <2>2. CASE saved' = [saved EXCEPT ![post.space] = post.config]
    BY <1>0, <1>3, <2>2, WorkspaceAssumption DEF WorkspaceTypeOK, HomeInv, Home, Lists, Known
  <2> QED
    BY <1>4, <2>1, <2>2
<1>6. WorkspaceTypeOK'
  BY <1>0, <1>1, <1>2, <1>5 DEF WorkspaceTypeOK
<1>7. ActionInv'
  BY <1>0, <1>1 DEF ActionInv, Home, LayoutOf
<1>8. HomeInv'
  BY <1>0, <1>1, <1>5 DEF HomeInv, Home, LayoutOf, Known
<1> QED
  BY <1>6, <1>7, <1>8 DEF WorkspaceInv

LEMMA BySwitch ==
    ASSUME WorkspaceInv, NEW s \in Spaces, SwitchWorkspace(s)
    PROVE  WorkspaceInv'
<1>0. WorkspaceTypeOK /\ HomeInv
  BY DEF WorkspaceInv
<1>1. UNCHANGED <<saved, born, saves, saveCount, acting, warning, edits, made>>
  BY DEF SwitchWorkspace, spaceRows, traffic
<1>2. /\ page \in Layout /\ page \in made
      /\ list' = [list EXCEPT ![page.space] = page.config]
      /\ page' = LayoutOf(s, list[s]) /\ timer' = page' /\ local' = page'
  BY <1>0 DEF SwitchWorkspace, WorkspaceTypeOK, HomeInv, Shows, Switched
<1>3. page = LayoutOf(page.space, page.config) /\ page.space \in Spaces /\ page.config \in Configs
  BY <1>2 DEF Layout, LayoutOf
<1>4. page' \in made
  BY <1>0, <1>2 DEF SwitchWorkspace, HomeInv, Home, Known
<1>5. list' \in Lists /\ Home(list', made)
  BY <1>0, <1>2, <1>3 DEF WorkspaceTypeOK, HomeInv, Home, Lists
<1>6. WorkspaceTypeOK'
  BY <1>0, <1>1, <1>2, <1>4, <1>5, ServerStays DEF WorkspaceTypeOK
<1>7. HomeInv'
  BY <1>0, <1>1, <1>2, <1>4, <1>5, ServerStays DEF HomeInv, Home
<1> QED
  BY <1>1, <1>6, <1>7, ServerStays DEF WorkspaceInv

LEMMA ByStartAction ==
    ASSUME WorkspaceInv,
           NEW action \in {"create", "duplicate", "rename", "delete"}, StartAction(action)
    PROVE  WorkspaceInv'
<1>0. WorkspaceTypeOK /\ HomeInv
  BY DEF WorkspaceInv
<1>1. UNCHANGED <<saved, born, page, list, timer, saves, saveCount, warning, local, edits, made>>
  BY DEF StartAction, spaceRows, traffic
<1>2. page \in Layout /\ page \in made
  BY <1>0 DEF StartAction, WorkspaceTypeOK, HomeInv
<1>3. page = LayoutOf(page.space, page.config) /\ page.space \in Spaces /\ page.config \in Configs
  BY <1>2 DEF Layout, LayoutOf
<1> DEFINE c == IF action = "create" THEN 0 ELSE page.config
<1>4. acting' = [action |-> action, phase |-> "sent", space |-> page.space, list |-> list,
                 config |-> c, new |-> 0]
  BY DEF StartAction
<1>5. c \in Configs /\ (action = "rename" => LayoutOf(page.space, c) \in made)
  BY <1>2, <1>3, WorkspaceAssumption DEF Configs
<1> HIDE DEF c
<1>6. acting' \in WorkspaceAction
  BY <1>0, <1>3, <1>4, <1>5, WorkspaceAssumption DEF WorkspaceAction, WorkspaceTypeOK
<1>7. WorkspaceTypeOK'
  BY <1>0, <1>1, <1>6 DEF WorkspaceTypeOK
<1>8. ActionInv'
  BY <1>0, <1>1, <1>4, <1>5 DEF ActionInv, HomeInv, Home, StartAction, LayoutOf
<1>9. HomeInv'
  BY <1>0, <1>1 DEF HomeInv, Home, LayoutOf, Known
<1> QED
  BY <1>7, <1>8, <1>9 DEF WorkspaceInv

LEMMA ByActionServed == WorkspaceInv /\ ActionServed => WorkspaceInv'
<1> SUFFICES ASSUME WorkspaceInv, ActionServed PROVE WorkspaceInv'
  OBVIOUS
<1>0. WorkspaceTypeOK /\ HomeInv /\ ActionInv
  BY DEF WorkspaceInv
<1>1. /\ UNCHANGED <<page, list, timer, saves, saveCount, warning, local, edits>>
      /\ acting # None /\ acting.phase = "sent" /\ Serves
  BY DEF ActionServed, traffic
<1>2. /\ saved' \in Lists /\ born' \in Spaces
      /\ made \subseteq made' /\ made' \subseteq Layout
      /\ Home(saved', made') /\ Known(saved') # {}
      /\ acting.action \in {"create", "duplicate"} => LayoutOf(born', acting.config) \in made'
  BY <1>1, ServedHome
<1>3. acting \in WorkspaceAction
  BY <1>0, <1>1 DEF WorkspaceTypeOK
<1> DEFINE phase == IF Refused THEN "refused" ELSE "served"
<1>4. acting' = [acting EXCEPT !.phase = phase, !.new = born']
  BY DEF ActionServed
<1>5. phase \in {"refused", "served"}
  OBVIOUS
<1>6. born' \in 0 .. MaxSpaces
  BY <1>2 DEF Spaces
<1> HIDE DEF phase
<1>7. /\ acting' \in WorkspaceAction
      /\ acting'.phase = phase /\ acting'.new = born' /\ acting'.list = acting.list
      /\ acting'.action = acting.action /\ acting'.space = acting.space
      /\ acting'.config = acting.config
  BY <1>3, <1>4, <1>5, <1>6 DEF WorkspaceAction
<1>8. WorkspaceTypeOK'
  <2>1. {page, timer, local}' \subseteq Layout \cup {None}
    BY <1>0, <1>1 DEF WorkspaceTypeOK
  <2> QED
    BY <1>0, <1>1, <1>2, <1>7, <2>1 DEF WorkspaceTypeOK
<1>9. ActionInv'
  BY <1>0, <1>1, <1>2, <1>5, <1>7 DEF ActionInv, Home, LayoutOf
<1>10. HomeInv'
  BY <1>0, <1>1, <1>2 DEF HomeInv, Home, LayoutOf, Known
<1> QED
  BY <1>8, <1>9, <1>10 DEF WorkspaceInv

LEMMA ByActionAnswered == WorkspaceInv /\ ActionAnswered => WorkspaceInv'
<1> SUFFICES ASSUME WorkspaceInv, ActionAnswered PROVE WorkspaceInv'
  OBVIOUS
<1>0. WorkspaceTypeOK /\ HomeInv /\ ActionInv
  BY DEF WorkspaceInv
<1>1. /\ UNCHANGED <<saved, born, saves, saveCount, edits, made>>
      /\ acting # None /\ acting.phase = "served" /\ acting' = None
      /\ list' = ListAfter /\ page' = ShownAfter /\ timer' = ShownAfter /\ local' = ShownAfter
      /\ warning' = (warning \/ NothingLeft)
  BY DEF ActionAnswered, spaceRows, traffic, Shows
<1>2. /\ acting \in WorkspaceAction /\ acting.space \in Spaces /\ acting.config \in Configs
      /\ acting.list \in Lists /\ list \in Lists
      /\ acting.action \in {"create", "duplicate", "rename", "delete"}
  BY <1>0, <1>1 DEF WorkspaceTypeOK, WorkspaceAction
<1>3. ListAfter \in Lists /\ Home(ListAfter, made)
  <2>1. CASE acting.action = "delete"
    <3>1. ListAfter = [acting.list EXCEPT ![acting.space] = None]
      BY <2>1 DEF ListAfter
    <3> QED
      BY <1>0, <1>1, <1>2, <3>1 DEF ActionInv, Home, Lists
  <2>2. CASE acting.action = "rename"
    <3>1. ListAfter = [s \in Spaces |-> IF s = acting.space /\ list[s] # None
                                        THEN acting.config ELSE list[s]]
      BY <2>2 DEF ListAfter
    <3> QED
      BY <1>0, <1>1, <1>2, <2>2, <3>1 DEF ActionInv, HomeInv, Home, Lists
  <2>3. CASE acting.action \in {"create", "duplicate"}
    <3>1. ListAfter = [list EXCEPT ![acting.new] = acting.config]
      BY <2>3 DEF ListAfter
    <3> QED
      BY <1>0, <1>1, <1>2, <2>3, <3>1 DEF ActionInv, HomeInv, Home, Lists
  <2> QED
    BY <1>2, <2>1, <2>2, <2>3
<1>4. ShownAfter \in made \cup {None}
  <2>1. CASE acting.action = "rename" \/ NothingLeft
    BY <1>0, <2>1 DEF ShownAfter, HomeInv
  <2>2. CASE acting.action = "delete" /\ ~NothingLeft
    <3>1. Known(ListAfter) \in SUBSET Spaces /\ Known(ListAfter) # {}
      BY <2>2 DEF Known, NothingLeft
    <3>2. Min(Known(ListAfter)) \in Known(ListAfter)
      BY <3>1, LeastSpace
    <3>3. ShownAfter = LayoutOf(Min(Known(ListAfter)), ListAfter[Min(Known(ListAfter))])
      BY <2>2 DEF ShownAfter
    <3> QED
      BY <1>3, <3>2, <3>3 DEF Home, Known
  <2>3. CASE acting.action \in {"create", "duplicate"} /\ ~NothingLeft
    BY <1>0, <1>1, <2>3 DEF ShownAfter, ActionInv
  <2> QED
    BY <1>2, <2>1, <2>2, <2>3
<1>5. WorkspaceTypeOK'
  <2>1. ShownAfter \in Layout \cup {None}
    BY <1>0, <1>4 DEF WorkspaceTypeOK
  <2>2. warning' \in BOOLEAN
    BY <1>1
  <2> QED
    BY <1>0, <1>1, <1>3, <2>1, <2>2 DEF WorkspaceTypeOK
<1>6. ActionInv'
  BY <1>1 DEF ActionInv
<1>7. HomeInv'
  BY <1>0, <1>1, <1>3, <1>4 DEF HomeInv, Home, LayoutOf, Known
<1> QED
  BY <1>5, <1>6, <1>7 DEF WorkspaceInv

\* A request is lost with its page or on its way; the service may have served it.
LEMMA Unanswered ==
    ASSUME WorkspaceInv, acting # None, acting' = None,
           IF acting.phase = "sent" THEN Serves \/ UNCHANGED <<saved, born, made>>
           ELSE UNCHANGED <<saved, born, made>>
    PROVE  /\ saved' \in Lists /\ born' \in Spaces /\ made' \subseteq Layout
           /\ made \subseteq made' /\ Home(saved', made') /\ Known(saved') # {}
<1>1. CASE acting.phase = "sent" /\ Serves
  BY <1>1, ServedHome
<1>2. CASE UNCHANGED <<saved, born, made>>
  BY <1>2 DEF WorkspaceInv, WorkspaceTypeOK, HomeInv
<1> QED
  BY <1>1, <1>2

LEMMA ByActionFailed == WorkspaceInv /\ ActionFailed => WorkspaceInv'
<1> SUFFICES ASSUME WorkspaceInv, ActionFailed PROVE WorkspaceInv'
  OBVIOUS
<1>0. WorkspaceTypeOK /\ HomeInv
  BY DEF WorkspaceInv
<1>1. UNCHANGED <<page, list, timer, saves, saveCount, local, edits>> /\ acting' = None /\ warning'
  BY DEF ActionFailed, traffic
<1>2. /\ saved' \in Lists /\ born' \in Spaces /\ made' \subseteq Layout
      /\ made \subseteq made' /\ Home(saved', made') /\ Known(saved') # {}
  BY Unanswered DEF ActionFailed
<1>3. WorkspaceTypeOK'
  <2>1. {page, timer, local}' \subseteq Layout \cup {None}
    BY <1>0, <1>1 DEF WorkspaceTypeOK
  <2>2. warning' = TRUE
    BY DEF ActionFailed
  <2> QED
    BY <1>0, <1>1, <1>2, <2>1, <2>2 DEF WorkspaceTypeOK
<1>4. ActionInv'
  BY <1>1 DEF ActionInv
<1>5. HomeInv'
  BY <1>0, <1>1, <1>2 DEF HomeInv, Home, LayoutOf, Known
<1> QED
  BY <1>3, <1>4, <1>5 DEF WorkspaceInv

LEMMA ByClosePage == WorkspaceInv /\ ClosePage => WorkspaceInv'
<1> SUFFICES ASSUME WorkspaceInv, ClosePage PROVE WorkspaceInv'
  OBVIOUS
<1>0. WorkspaceTypeOK /\ HomeInv
  BY DEF WorkspaceInv
<1>1. /\ UNCHANGED <<local, edits, saveCount>>
      /\ page' = None /\ timer' = None /\ acting' = None /\ warning' = FALSE
      /\ list' = [s \in Spaces |-> None]
      /\ saves' = {[post EXCEPT !.heard = FALSE] : post \in saves}
  BY DEF ClosePage
<1>2. /\ saved' \in Lists /\ born' \in Spaces /\ made' \subseteq Layout
      /\ made \subseteq made' /\ Home(saved', made') /\ Known(saved') # {}
  <2>1. CASE acting # None
    BY <2>1, Unanswered DEF ClosePage
  <2>2. CASE acting = None
    BY <1>0, <2>2 DEF ClosePage, WorkspaceTypeOK, HomeInv
  <2> QED
    BY <2>1, <2>2
<1>3. list' \in Lists
  BY <1>1 DEF Lists
<1>4. /\ saves' \subseteq [space: Spaces, config: Configs, number: 1 .. MaxSaves, heard: BOOLEAN]
      /\ \A post \in saves' : LayoutOf(post.space, post.config) \in made
  BY <1>0, <1>1 DEF WorkspaceTypeOK, HomeInv
<1>5. WorkspaceTypeOK'
  <2>1. {page, timer, local}' \subseteq Layout \cup {None}
    BY <1>0, <1>1 DEF WorkspaceTypeOK
  <2> QED
    BY <1>0, <1>1, <1>2, <1>3, <1>4, <2>1 DEF WorkspaceTypeOK
<1>6. ActionInv'
  BY <1>1 DEF ActionInv
<1>7. HomeInv'
  BY <1>0, <1>1, <1>2, <1>4 DEF HomeInv, Home, LayoutOf, Known
<1> QED
  BY <1>5, <1>6, <1>7 DEF WorkspaceInv

-----------------------------------------------------------------------------
LEMMA WorkspaceStep == WorkspaceInv /\ [WorkspaceNext]_workspaceVars => WorkspaceInv'
<1> SUFFICES ASSUME WorkspaceInv, [WorkspaceNext]_workspaceVars PROVE WorkspaceInv'
  OBVIOUS
<1>1. CASE UNCHANGED workspaceVars
  <2>1. UNCHANGED <<saved, born, page, list, timer, saves, saveCount, acting, warning, local,
                    edits, made>>
    BY <1>1 DEF workspaceVars
  <2> QED
    BY <2>1 DEF WorkspaceInv, WorkspaceTypeOK, ActionInv, HomeInv, Home, Known, LayoutOf
<1> QED
  BY <1>1, ByOpenPage, ByEditLayout, ByTimerFires, ByClosePage, BySave, BySwitch, ByStartAction,
     ByActionServed, ByActionAnswered, ByActionFailed DEF WorkspaceNext

LEMMA WorkspaceInvariant == WorkspaceSpec => []WorkspaceInv
BY WorkspaceInitially, WorkspaceStep, PTL DEF WorkspaceSpec

\* What the server and the page keep of the workspaces has its shape (shell.tsx:165-358).
THEOREM WorkspaceTypeCorrect == WorkspaceSpec => []WorkspaceTypeOK
<1>1. WorkspaceInv => WorkspaceTypeOK
  BY DEF WorkspaceInv
<1> QED
  BY <1>1, WorkspaceInvariant, PTL

(***************************************************************************)
(* A workspace is shown, cached, posted and stored with its own layouts    *)
(* only (shell.tsx 165-183, 292-358), for any number of workspaces, edits  *)
(* and posts, whatever is lost or overtaken.                               *)
(***************************************************************************)
THEOREM LayoutsAtHome == WorkspaceSpec => []LayoutsStayHome
<1>1. WorkspaceInv => LayoutsStayHome
  BY DEF WorkspaceInv, HomeInv, Home, LayoutsStayHome, Known
<1> QED
  BY <1>1, WorkspaceInvariant, PTL
=============================================================================
