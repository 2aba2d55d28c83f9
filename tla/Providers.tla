------------------------------- MODULE Providers -------------------------------
(***************************************************************************)
(* One external provider: the switch that enables or revokes it, imports   *)
(* of immutable dataset versions (provider_api.py, provider_data.py),      *)
(* refreshes of observations as jobs (main.py, services.py) and probes     *)
(* queued for the data dispatcher (queue_worker.py, provider_probe.py).    *)
(*                                                                         *)
(* Every session reads the connection row once and keeps it (the sessions  *)
(* do not expire on commit), waits for the provider, and commits later; a  *)
(* column whose value is unchanged since it was read is not written.  No   *)
(* row is locked: two administrators' controls may overlap as well.        *)
(***************************************************************************)
EXTENDS Null, Naturals, Sequences, FiniteSetsExt

CONSTANTS
    Sessions,     \* requests and dispatchers that may be at work
    Administrators, \* requests of administrators that may be at work
    Jobs,         \* IngestionJob rows
    Responses,    \* distinct response bodies, and points of a series
    MaxBegun      \* bound on the imports, jobs, claims and controls begun

VARIABLES
    access,       \* ProviderConnection: [enabled, state]
    decided,      \* enabled, as the last audited control had it, or left it when
                  \* another one had committed since it read the row
    controls,     \* what each administrator's request is doing
    versions,     \* DatasetVersion rows of the Datasets of one name, source and type, in
                  \* the order of their commits; a Dataset is known by its creator
    observed,     \* points of the macro series stored
    ingestions,   \* IngestionJob rows: [kind, status, received]
    work,         \* what each session is doing
    worked        \* imports, jobs, claims and controls begun so far

dataVars == <<versions, observed>>
connectionVars == <<access, decided, controls>>
providerVars == <<connectionVars, dataVars, ingestions, work, worked>>

States == {"NOT_TESTED", "CONNECTED", "FAILED", "DISABLED", "REVOKED"}
Access == [enabled: BOOLEAN, state: States]
Ingestion == [kind: {"refresh", "probe"}, received: SUBSET Responses,
              status: {"PENDING", "QUEUED", "RUNNING", "SUCCEEDED", "FAILED"}]
Replies == (SUBSET Responses) \cup {None}   \* None: an error
\* loaded: the row when the session read it; left: responses still to be asked for;
\* reply: the current one; dataset, number: the version an import will insert, or 0 when
\* nothing changed; fresh: the points a refresh will insert; ok: no error so far.
Work == [kind: {"import", "refresh", "probe"}, phase: {"load", "asked", "replied", "read", "end"},
         job: Jobs \cup {None}, loaded: Access \cup {None}, left: 0 .. 2,
         reply: Replies, dataset: Sessions \cup {None}, number: Nat,
         fresh: SUBSET Responses, ok: BOOLEAN]
Actions == {"ENABLE", "DISABLE", "REVOKE"}
\* crossed: another control has committed since this one read the row
Control == [action: Actions, loaded: Access, crossed: BOOLEAN]

ASSUME ProviderAssumption ==
    /\ None \notin Sessions \cup Jobs \cup Responses
    /\ None \notin Access /\ None \notin Ingestion /\ None \notin Work /\ None \notin Control
    /\ MaxBegun \in Nat

ProviderTypeOK ==
    /\ access \in Access
    /\ decided \in BOOLEAN
    /\ controls \in [Administrators -> Control \cup {None}]
    /\ versions \in [Sessions -> Seq([number: Nat \ {0}, body: SUBSET Responses])]
    /\ observed \subseteq Responses
    /\ ingestions \in [Jobs -> Ingestion \cup {None}]
    /\ work \in [Sessions -> Work \cup {None}]
    /\ worked \in Nat

\* Nothing has been imported before, or one version has.
Unimported == [d \in Sessions |-> <<>>]
ProviderInit ==
    /\ access = [enabled |-> TRUE, state |-> "NOT_TESTED"]
    /\ decided = TRUE
    /\ controls = [a \in Administrators |-> None]
    /\ \/ versions = Unimported
       \/ \E d \in Sessions :
             versions = [Unimported EXCEPT ![d] = <<[number |-> 1, body |-> {}]>>]
    /\ observed = {}
    /\ ingestions = [j \in Jobs |-> None]
    /\ work = [s \in Sessions |-> None]
    /\ worked = 0

Usable(row) == row.enabled /\ row.state # "REVOKED"

\* Session s begins a piece of work.
Open(s, kind, phase, job, loaded, left) ==
    /\ work[s] = None
    /\ worked < MaxBegun
    /\ worked' = worked + 1
    /\ work' = [work EXCEPT ![s] =
          [kind |-> kind, phase |-> phase, job |-> job, loaded |-> loaded, left |-> left,
           reply |-> None, dataset |-> None, number |-> 0, fresh |-> {}, ok |-> TRUE]]

InPhase(s, phase) == work[s] # None /\ work[s].phase = phase
Ingest(s, status) == [ingestions EXCEPT ![work[s].job].status = status]
Close(s) == work' = [work EXCEPT ![s] = None]

-----------------------------------------------------------------------------
(***************************************************************************)
(* Where work comes from                                                   *)
(***************************************************************************)
\* import_sec, map_figi, market_backfill: require_enabled first.
BeginImport(s) ==
    /\ Usable(access)
    /\ Open(s, "import", "asked", None, access, 1)
    /\ UNCHANGED <<connectionVars, dataVars, ingestions>>

\* macro_refresh (one series) and macro_backfill (several): the job is committed PENDING.
BeginRefresh(s, j, series) ==
    /\ ingestions[j] = None
    /\ Open(s, "refresh", "load", j, None, series)
    /\ ingestions' = [ingestions EXCEPT ![j] =
          [kind |-> "refresh", received |-> {}, status |-> "PENDING"]]
    /\ UNCHANGED <<connectionVars, dataVars>>

\* test_connection probes at once, in its own transaction.
BeginTest(s) ==
    /\ Usable(access)
    /\ Open(s, "probe", "asked", None, access, 1)
    /\ UNCHANGED <<connectionVars, dataVars, ingestions>>

\* provider_health_job
Enqueue(j) ==
    /\ ingestions[j] = None
    /\ ingestions' = [ingestions EXCEPT ![j] =
          [kind |-> "probe", received |-> {}, status |-> "QUEUED"]]
    /\ UNCHANGED <<connectionVars, dataVars, work, worked>>

\* run_once and the conditional UPDATE of execute_provider_job
ClaimProbe(s, j) ==
    /\ ingestions[j] # None
    /\ ingestions[j].status = "QUEUED"
    /\ Open(s, "probe", "load", j, None, 1)
    /\ ingestions' = [ingestions EXCEPT ![j].status = "RUNNING"]
    /\ UNCHANGED <<connectionVars, dataVars>>

-----------------------------------------------------------------------------
(***************************************************************************)
(* The provider is asked, answers, and the answer is stored                *)
(***************************************************************************)
\* connection(): a session that already holds the row goes on with it.  An unusable
\* provider ends a refresh as DISABLED, and a probe job as a success with no probes.
Loaded(s) == IF work[s].loaded = None THEN access ELSE work[s].loaded
LoadConnection(s) ==
    /\ InPhase(s, "load")
    /\ work' = [work EXCEPT ![s].loaded = Loaded(s),
                            ![s].phase = IF Usable(Loaded(s)) THEN "asked" ELSE "end",
                            ![s].ok = @ /\ (Usable(Loaded(s)) \/ work[s].kind = "probe")]
    /\ UNCHANGED <<connectionVars, dataVars, ingestions, worked>>

Reply(s, reply) ==
    /\ InPhase(s, "asked")
    /\ work[s].kind = "probe" => reply \in {{}, None}
    /\ work' = [work EXCEPT ![s].reply = reply, ![s].phase = "replied"]
    /\ UNCHANGED <<connectionVars, dataVars, ingestions, worked>>

\* persist_dataset: one of the Datasets of the name, source and type, or a new one when
\* none is committed; nothing makes the three unique.
Importing(s) == work[s].kind = "import" /\ work[s].reply # None
Datasets == {d \in Sessions : versions[d] # <<>>}
Found(s) == CASE ~Importing(s) -> {None}
              [] Importing(s) /\ Datasets = {} -> {s}
              [] Importing(s) /\ Datasets # {} -> Datasets
\* The next number, unless the latest version has the same body.
Unchanged(d, body) == versions[d] # <<>> /\ versions[d][Len(versions[d])].body = body
Numbers(d) == {versions[d][i].number : i \in DOMAIN versions[d]}
NextNumber(d, body) == IF Unchanged(d, body) THEN 0 ELSE Max({0} \cup Numbers(d)) + 1
\* insert_observation: the points not stored yet
Unseen(points) == points \ observed
ReadStored(s) ==
    /\ InPhase(s, "replied")
    /\ \E d \in Found(s) :
          work' = [work EXCEPT
             ![s].phase = "read",
             ![s].dataset = d,
             ![s].number = IF Importing(s) THEN NextNumber(d, work[s].reply) ELSE 0,
             ![s].fresh = IF work[s].kind = "refresh" /\ work[s].reply # None
                          THEN Unseen(work[s].reply) ELSE {}]
    /\ UNCHANGED <<connectionVars, dataVars, ingestions, worked>>

\* record_result changes connection_state only.  Mutant: the whole row is written back.
RowWritten(loaded, state) == [loaded EXCEPT !.state = state]
Recorded(loaded, state) ==
    IF loaded.state = state THEN access ELSE [access EXCEPT !.state = state]
\* uq_dataset_version.  Mutant: no constraint.
AnyNumber(w) == TRUE
NumberFree(w) == w.number # 0 => w.number \notin Numbers(w.dataset)
Admissible(w) == NumberFree(w) /\ w.fresh \cap observed = {}

\* The rows, record_result and the commit.  A refresh goes on with its next series.
CommitWork(s) ==
    /\ InPhase(s, "read")
    /\ Admissible(work[s])
    /\ LET w == work[s]
           ok == w.reply # None
           state == IF ok THEN "CONNECTED" ELSE "FAILED"
       IN /\ access' = Recorded(w.loaded, state)
          /\ versions' = IF w.number = 0 THEN versions
                         ELSE [versions EXCEPT ![w.dataset] =
                                 Append(@, [number |-> w.number, body |-> w.reply])]
          /\ observed' = observed \cup w.fresh
          /\ \/ /\ w.kind = "refresh"
                /\ work' = [work EXCEPT ![s].phase = IF w.left > 1 THEN "load" ELSE "end",
                                        ![s].left = w.left - 1,
                                        ![s].loaded = [w.loaded EXCEPT !.state = state],
                                        ![s].fresh = {},
                                        ![s].ok = @ /\ ok]
                /\ ingestions' = [ingestions EXCEPT ![w.job].received = @ \cup
                                                        (IF ok THEN w.reply ELSE {})]
             \/ /\ w.kind = "probe"
                /\ w.job # None
                /\ ingestions' = Ingest(s, IF ok THEN "SUCCEEDED" ELSE "FAILED")
                /\ Close(s)
             \/ /\ w.job = None
                /\ Close(s)
                /\ UNCHANGED ingestions
    /\ UNCHANGED <<decided, controls, worked>>

\* The job of a refresh, and of a probe with nothing to do, is finished on its own.
EndJob(s) ==
    /\ InPhase(s, "end")
    /\ ingestions' = Ingest(s, IF work[s].ok THEN "SUCCEEDED" ELSE "FAILED")
    /\ Close(s)
    /\ UNCHANGED <<connectionVars, dataVars, worked>>

\* The session fails or its process ends: its transaction is rolled back.  A probe job is
\* marked FAILED if the process lives; any other job stays as it is.
AbortWork(s) ==
    /\ work[s] # None
    /\ Close(s)
    /\ \/ UNCHANGED ingestions
       \/ /\ work[s].kind = "probe"
          /\ work[s].job # None
          /\ ingestions' = Ingest(s, "FAILED")
    /\ UNCHANGED <<connectionVars, dataVars, worked>>

\* control() reads the row, and writes the columns that differ from what it read.
BeginControl(a, action) ==
    /\ controls[a] = None
    /\ worked < MaxBegun
    /\ worked' = worked + 1
    /\ controls' = [controls EXCEPT ![a] =
          [action |-> action, loaded |-> access, crossed |-> FALSE]]
    /\ UNCHANGED <<access, decided, dataVars, ingestions, work>>

ControlledState(action) == CASE action = "ENABLE" -> "NOT_TESTED"
                             [] action = "DISABLE" -> "DISABLED"
                             [] action = "REVOKE" -> "REVOKED"
ColumnWritten(loaded, new, current) == IF new = loaded THEN current ELSE new
CommitControl(a) ==
    /\ controls[a] # None
    /\ LET c == controls[a]
           enabled == ColumnWritten(c.loaded.enabled, c.action = "ENABLE", access.enabled)
           state == ColumnWritten(c.loaded.state, ControlledState(c.action), access.state)
       IN /\ access' = [enabled |-> enabled, state |-> state]
          /\ decided' = IF c.crossed THEN enabled ELSE c.action = "ENABLE"
    /\ controls' = [b \in Administrators |->
          IF b = a \/ controls[b] = None THEN None ELSE [controls[b] EXCEPT !.crossed = TRUE]]
    /\ UNCHANGED <<dataVars, ingestions, work, worked>>

ProviderNext ==
    \/ \E s \in Sessions :
          \/ BeginImport(s) \/ BeginTest(s) \/ LoadConnection(s) \/ ReadStored(s)
          \/ CommitWork(s) \/ EndJob(s) \/ AbortWork(s)
          \/ \E j \in Jobs : ClaimProbe(s, j) \/ \E series \in 1 .. 2 : BeginRefresh(s, j, series)
          \/ \E reply \in Replies : Reply(s, reply)
    \/ \E j \in Jobs : Enqueue(j)
    \/ \E a \in Administrators :
          CommitControl(a) \/ \E action \in Actions : BeginControl(a, action)

ProviderSpec == ProviderInit /\ [][ProviderNext]_providerVars

-----------------------------------------------------------------------------
\* A probe or an import that was under way when an administrator disabled or revoked the
\* provider does not switch it on again by committing late (provider_data.py:178-181).  A
\* control is overruled only by another one that committed after it had read the row.
AccessAsDecided == access.enabled = decided

\* However many imports race, the versions of a dataset are numbered 1, 2, 3, ... in the
\* order of their commits (provider_data.py:258-265; uq_dataset_version).  Imports that race
\* to be the first may create a Dataset row each.
VersionsInOrder == \A d \in Sessions : \A i \in DOMAIN versions[d] : versions[d][i].number = i

\* A job is SUCCEEDED only when everything its provider returned is stored, though points
\* are read, committed and reported in separate transactions (main.py:681-699).
SuccessIsStored ==
    \A j \in Jobs : ingestions[j] # None /\ ingestions[j].status = "SUCCEEDED" =>
        ingestions[j].received \subseteq observed

\* One session works on a job; it is neither repeated nor finished twice.
OneSessionPerJob ==
    /\ \A s, t \in Sessions : s # t /\ work[s] # None /\ work[t] # None /\ work[s].job # None =>
          work[s].job # work[t].job
    /\ \A s \in Sessions : work[s] # None /\ work[s].job # None =>
          ingestions[work[s].job].status \in {"PENDING", "RUNNING"}

\* What provider sessions may do to each other.
ProvidersAreSound ==
    AccessAsDecided /\ VersionsInOrder /\ SuccessIsStored /\ OneSessionPerJob
=============================================================================
