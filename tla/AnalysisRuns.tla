---------------------------- MODULE AnalysisRuns ----------------------------
(***************************************************************************)
(* Analytical runs: services/api/app/{terminal_api,analysis_lifecycle,     *)
(* terminal_worker,queue_worker,model_runs}.py.                            *)
(*                                                                         *)
(* A run is one row of analysis_runs.  POST /terminal/runs inserts it and  *)
(* then launches a process for it; the SQL dispatcher picks up any run     *)
(* that is still QUEUED; both, the cancel handler and the launch-error     *)
(* handler change the row only through transition_run, which SELECTs the   *)
(* row and then UPDATEs it if its status is still the one selected.  The   *)
(* SELECT and the UPDATE are two steps here: any other session may commit  *)
(* between them (READ COMMITTED).  The UPDATE and the commit that follows  *)
(* it are one step, because the row lock makes a competing UPDATE wait for *)
(* the commit and then re-evaluate its WHERE clause.                       *)
(***************************************************************************)
EXTENDS Naturals, Sequences, FiniteSets

CONSTANTS
    Runs,         \* run identifiers, one per POST /terminal/runs
    ModelRuns,    \* the runs of kind "model", which store an artifact
    Dispatchers,  \* queue_worker daemons (--kind quant)
    Users,        \* sessions that may request a cancellation
    NoOne,        \* null
    MaxActive,    \* the admission limit of start_run (4 in the code)
    MaxCrashes    \* bound: worker and API process crashes per behaviour

ASSUME RunsAssumption ==
    /\ ModelRuns \subseteq Runs
    /\ Runs \cap Dispatchers = {}
    /\ Users \cap (Runs \cup Dispatchers) = {}
    /\ "start" \notin Runs \cup Dispatchers \cup Users
    /\ NoOne \notin Runs \cup Dispatchers
    /\ MaxActive \in Nat \ {0}
    /\ MaxCrashes \in Nat

(***************************************************************************)
(* The process launched for run r is identified by r itself; a request     *)
(* handler by "start" (the POST that created the run) or by its user.      *)
(***************************************************************************)
Workers == Runs \cup Dispatchers
Clients == Workers \cup Users \cup {"start"}

VARIABLES
    \* the columns of the table; status "NONE" means there is no row yet
    status, history, result, error,
    created,      \* the runs ordered by created_at
    artifact,     \* object storage: who last wrote research-models/<run>
    cancelAudits, \* committed ANALYSIS_RUN_CANCELLED audit rows per run
    \* the processes
    start,        \* phase of start_run for each run
    pc, job,      \* phase and current run of each worker
    open,         \* transition_run calls between their SELECT and UPDATE
    \* observation only
    orphaned,     \* runs whose executing process crashed
    crashes

rowVars == <<status, history, result, error>>
vars == <<status, history, result, error, created, artifact, cancelAudits,
          start, pc, job, open, orphaned, crashes>>

Terminal == {"SUCCEEDED", "FAILED", "CANCELLED"}
Status == {"NONE", "QUEUED", "RUNNING"} \cup Terminal

\* PREDECESSORS of analysis_lifecycle.py.  Mutants: a finished run may still be
\* cancelled; a run that is already RUNNING may be claimed again.
PredecessorsLateCancel == [s \in {"RUNNING"} \cup Terminal |->
    IF s = "RUNNING" THEN {"QUEUED"}
    ELSE IF s = "SUCCEEDED" THEN {"RUNNING"} ELSE {"QUEUED", "RUNNING", "SUCCEEDED"}]
PredecessorsReclaim == [s \in {"RUNNING"} \cup Terminal |->
    IF s = "SUCCEEDED" THEN {"RUNNING"} ELSE {"QUEUED", "RUNNING"}]
Predecessors == [s \in {"RUNNING"} \cup Terminal |->
    IF s = "RUNNING" THEN {"QUEUED"}
    ELSE IF s = "SUCCEEDED" THEN {"RUNNING"} ELSE {"QUEUED", "RUNNING"}]

StartPhase == {"none", "admitted", "inserted", "launchFailed", "failing", "done"}
\* claimed .. raised are the phases of _execute_run, after the claim committed
Executing == {"claimed", "computing", "computed", "publishing", "raised", "failing"}
Phase == {"off", "polling", "picked", "claiming"} \cup Executing

Transition == [by: Clients, run: Runs, to: DOMAIN Predecessors,
               seen: Status, seenHistory: Seq(Status)]

TypeOK ==
    /\ status \in [Runs -> Status]
    /\ history \in [Runs -> Seq(Status)]
    /\ result \in [Runs -> Workers \cup {NoOne}]
    /\ error \in [Runs -> BOOLEAN]
    /\ created \in Seq(Runs)
    /\ artifact \in [Runs -> Workers \cup {NoOne}]
    /\ cancelAudits \in [Runs -> Nat]
    /\ start \in [Runs -> StartPhase]
    /\ pc \in [Workers -> Phase]
    /\ job \in [Workers -> Runs \cup {NoOne}]
    /\ open \subseteq Transition
    /\ orphaned \subseteq Runs
    /\ crashes \in Nat

Init ==
    /\ status = [r \in Runs |-> "NONE"]
    /\ history = [r \in Runs |-> <<>>]
    /\ result = [r \in Runs |-> NoOne]
    /\ error = [r \in Runs |-> FALSE]
    /\ created = <<>>
    /\ artifact = [r \in Runs |-> NoOne]
    /\ cancelAudits = [r \in Runs |-> 0]
    /\ start = [r \in Runs |-> "none"]
    /\ pc = [w \in Workers |-> IF w \in Dispatchers THEN "polling" ELSE "off"]
    /\ job = [w \in Workers |-> IF w \in Runs THEN w ELSE NoOne]
    /\ open = {}
    /\ orphaned = {}
    /\ crashes = 0

-----------------------------------------------------------------------------
(***************************************************************************)
(* transition_run, in its two halves.                                      *)
(***************************************************************************)
Active == {r \in Runs : status[r] \in {"QUEUED", "RUNNING"}}

\* The early return False: no such row, or a status it may not leave.
Legal(r, to, expected) == status[r] \in Predecessors[to] \cap expected

\* The SELECT of status and history.
Observe(c, r, to) ==
    open' = open \cup {[by |-> c, run |-> r, to |-> to,
                        seen |-> status[r], seenHistory |-> history[r]]}

\* The WHERE clause of the UPDATE.  Mutant: match the row by id alone.
MatchesById(t) == status[t.run] # "NONE"
Matches(t) == status[t.run] = t.seen

\* The result column.  Mutant: it is written whoever finishes the run.
ResultAlways(t) == t.by
ResultOf(t) == IF t.to = "SUCCEEDED" THEN t.by ELSE NoOne

\* The VALUES of the UPDATE.
Write(t) ==
    /\ status' = [status EXCEPT ![t.run] = t.to]
    /\ history' = [history EXCEPT ![t.run] = Append(t.seenHistory, t.to)]
    /\ IF t.to = "RUNNING" THEN UNCHANGED <<result, error>>
       ELSE /\ result' = [result EXCEPT ![t.run] = ResultOf(t)]
            /\ error' = [error EXCEPT ![t.run] = t.to = "FAILED"]

-----------------------------------------------------------------------------
(***************************************************************************)
(* POST /terminal/runs.                                                    *)
(***************************************************************************)
\* The active runs are counted before the row is inserted, with no lock.
Admit(r) ==
    /\ start[r] = "none"
    /\ Cardinality(Active) < MaxActive
    /\ start' = [start EXCEPT ![r] = "admitted"]
    /\ UNCHANGED <<rowVars, created, artifact, cancelAudits, pc, job, open, orphaned, crashes>>

\* Insert the row as QUEUED with its audit and commit.
Insert(r) ==
    /\ start[r] = "admitted"
    /\ start' = [start EXCEPT ![r] = "inserted"]
    /\ status' = [status EXCEPT ![r] = "QUEUED"]
    /\ history' = [history EXCEPT ![r] = <<"QUEUED">>]
    /\ created' = Append(created, r)
    /\ UNCHANGED <<result, error, artifact, cancelAudits, pc, job, open, orphaned, crashes>>

\* launch_worker: subprocess.Popen returns, or raises OSError.
Launch(r) ==
    /\ start[r] = "inserted"
    /\ start' = [start EXCEPT ![r] = "done"]
    /\ pc' = [pc EXCEPT ![r] = "picked"]
    /\ UNCHANGED <<rowVars, created, artifact, cancelAudits, job, open, orphaned, crashes>>

LaunchFails(r) ==
    /\ start[r] = "inserted"
    /\ start' = [start EXCEPT ![r] = "launchFailed"]
    /\ UNCHANGED <<rowVars, created, artifact, cancelAudits, pc, job, open, orphaned, crashes>>

\* The handler of OSError: transition to FAILED, expected_status QUEUED.
LaunchErrorExpects == {"QUEUED"}

FailLaunchObserve(r) ==
    /\ start[r] = "launchFailed"
    /\ IF Legal(r, "FAILED", LaunchErrorExpects)
       THEN Observe("start", r, "FAILED") /\ start' = [start EXCEPT ![r] = "failing"]
       ELSE start' = [start EXCEPT ![r] = "done"] /\ UNCHANGED open
    /\ UNCHANGED <<rowVars, created, artifact, cancelAudits, pc, job, orphaned, crashes>>

FailLaunchUpdate(t) ==
    /\ t.by = "start"
    /\ IF Matches(t) THEN Write(t) ELSE UNCHANGED rowVars
    /\ open' = open \ {t}
    /\ start' = [start EXCEPT ![t.run] = "done"]
    /\ UNCHANGED <<created, artifact, cancelAudits, pc, job, orphaned, crashes>>

\* The API process dies between the insert and the launch.
StartCrash(r) ==
    /\ start[r] \in {"admitted", "inserted", "launchFailed", "failing"}
    /\ crashes < MaxCrashes
    /\ crashes' = crashes + 1
    /\ start' = [start EXCEPT ![r] = "done"]
    /\ open' = {t \in open : ~(t.by = "start" /\ t.run = r)}
    /\ UNCHANGED <<rowVars, created, artifact, cancelAudits, pc, job, orphaned>>

-----------------------------------------------------------------------------
(***************************************************************************)
(* POST /terminal/runs/{id}/cancel, by any user and at any time.           *)
(***************************************************************************)
CancelObserve(u, r) ==
    /\ \A t \in open : t.by # u
    /\ Legal(r, "CANCELLED", Status)
    /\ Observe(u, r, "CANCELLED")
    /\ UNCHANGED <<rowVars, created, artifact, cancelAudits, start, pc, job, orphaned, crashes>>

\* The audit row is part of the transaction: 409 rolls both back.
CancelUpdate(t) ==
    /\ t.by \in Users
    /\ IF Matches(t)
       THEN /\ Write(t)
            /\ cancelAudits' = [cancelAudits EXCEPT ![t.run] = @ + 1]
       ELSE UNCHANGED <<rowVars, cancelAudits>>
    /\ open' = open \ {t}
    /\ UNCHANGED <<created, artifact, start, pc, job, orphaned, crashes>>

-----------------------------------------------------------------------------
(***************************************************************************)
(* The workers: run_once of the dispatcher, execute_run, _execute_run.     *)
(***************************************************************************)
\* Where a worker goes when execute_run returns: a launched process exits, the
\* dispatcher polls again.  Mutant: one unlucky claim stops the daemon loop.
DoneStops(w) == "off"
Done(w) == IF w \in Dispatchers THEN "polling" ELSE "off"

Goto(w, phase) == pc' = [pc EXCEPT ![w] = phase]

\* The dispatcher selects the oldest QUEUED row.
OldestQueued(r) ==
    \E i \in DOMAIN created :
        /\ created[i] = r
        /\ status[r] = "QUEUED"
        /\ \A k \in 1 .. (i - 1) : status[created[k]] # "QUEUED"

Pick(d, r) ==
    /\ d \in Dispatchers
    /\ pc[d] = "polling"
    /\ OldestQueued(r)
    /\ Goto(d, "picked")
    /\ job' = [job EXCEPT ![d] = r]
    /\ UNCHANGED <<rowVars, created, artifact, cancelAudits, start, open, orphaned, crashes>>

\* The SELECT half of every transition_run of a worker, or its early return.
CallObserve(w, from, to, expected, next) ==
    /\ pc[w] = from
    /\ IF Legal(job[w], to, expected)
       THEN Observe(w, job[w], to) /\ Goto(w, next)
       ELSE Goto(w, Done(w)) /\ UNCHANGED open
    /\ UNCHANGED <<rowVars, created, artifact, cancelAudits, start, job, orphaned, crashes>>

ClaimObserve(w) == CallObserve(w, "picked", "RUNNING", Status, "claiming")

ClaimUpdate(t) ==
    /\ t.by \in Workers
    /\ pc[t.by] = "claiming"
    /\ IF Matches(t)
       THEN Write(t) /\ Goto(t.by, "claimed")
       ELSE Goto(t.by, Done(t.by)) /\ UNCHANGED rowVars
    /\ open' = open \ {t}
    /\ UNCHANGED <<created, artifact, cancelAudits, start, job, orphaned, crashes>>

\* _execute_run reads the row again in a new session.
Load(w) ==
    /\ pc[w] = "claimed"
    /\ Goto(w, IF status[job[w]] = "RUNNING" THEN "computing" ELSE Done(w))
    /\ UNCHANGED <<rowVars, created, artifact, cancelAudits, start, job, open, orphaned, crashes>>

\* The approved template runs; a model run stores its artifact on the way.
Compute(w) ==
    /\ pc[w] = "computing"
    /\ artifact' = IF job[w] \in ModelRuns THEN [artifact EXCEPT ![job[w]] = w] ELSE artifact
    /\ Goto(w, "computed")
    /\ UNCHANGED <<rowVars, created, cancelAudits, start, job, open, orphaned, crashes>>

\* Any exception of the try block, those of the UPDATE and of its commit included.
Raise(w) ==
    /\ pc[w] \in {"computing", "computed", "publishing"}
    /\ Goto(w, "raised")
    /\ open' = {t \in open : t.by # w}
    /\ UNCHANGED <<rowVars, created, artifact, cancelAudits, start, job, orphaned, crashes>>

\* transition_run(.., "SUCCEEDED", result) and transition_run(.., "FAILED", error).
PublishObserve(w) == CallObserve(w, "computed", "SUCCEEDED", Status, "publishing")

\* Mutant: the wrong expected_status.
FailExpectsQueued == {"QUEUED"}
FailExpects == {"RUNNING"}
FailObserve(w) == CallObserve(w, "raised", "FAILED", FailExpects, "failing")

FinishUpdate(t) ==
    /\ t.by \in Workers
    /\ pc[t.by] \in {"publishing", "failing"}
    /\ IF Matches(t) THEN Write(t) ELSE UNCHANGED rowVars
    /\ open' = open \ {t}
    /\ Goto(t.by, Done(t.by))
    /\ UNCHANGED <<created, artifact, cancelAudits, start, job, orphaned, crashes>>

\* A worker process dies and its session is rolled back; the container of a
\* dispatcher is restarted, a launched process is not.
Crash(w) ==
    /\ pc[w] \notin {"off", "polling"}
    /\ crashes < MaxCrashes
    /\ crashes' = crashes + 1
    /\ orphaned' = IF pc[w] \in Executing /\ status[job[w]] = "RUNNING"
                   THEN orphaned \cup {job[w]} ELSE orphaned
    /\ open' = {t \in open : t.by # w}
    /\ Goto(w, Done(w))
    /\ UNCHANGED <<rowVars, created, artifact, cancelAudits, start, job>>

-----------------------------------------------------------------------------
StartStep(r) ==
    \/ Insert(r) \/ Launch(r) \/ LaunchFails(r) \/ FailLaunchObserve(r)
    \/ \E t \in open : t.run = r /\ FailLaunchUpdate(t)

WorkerStep(w) ==
    \/ ClaimObserve(w) \/ Load(w) \/ Compute(w) \/ Raise(w)
    \/ PublishObserve(w) \/ FailObserve(w)
    \/ \E r \in Runs : Pick(w, r)
    \/ \E t \in open : t.by = w /\ (ClaimUpdate(t) \/ FinishUpdate(t))

UserStep(u) ==
    \/ \E r \in Runs : CancelObserve(u, r)
    \/ \E t \in open : t.by = u /\ CancelUpdate(t)

Next ==
    \/ \E r \in Runs : Admit(r) \/ StartStep(r) \/ StartCrash(r)
    \/ \E w \in Workers : WorkerStep(w) \/ Crash(w)
    \/ \E u \in Users : UserStep(u)

Spec == Init /\ [][Next]_vars

(***************************************************************************)
(* Fairness: main() of queue_worker loops for ever, swallowing exceptions, *)
(* and a launched process runs to its end; the templates terminate.        *)
(* Requests, users and crashes owe nothing.                                *)
(***************************************************************************)
Fairness == \A w \in Workers : WF_vars(WorkerStep(w))
FairSpec == Spec /\ Fairness

-----------------------------------------------------------------------------
(***************************************************************************)
(* Properties.                                                             *)
(***************************************************************************)

\* "Match the exact observed state so a competing claim cannot lose its
\* history" (analysis_lifecycle.py:54): whatever the sessions race, the stored
\* history only ever grows, by the status that the row takes in the same step.
HistoryKept ==
    [][\A r \in Runs :
          IF status'[r] = status[r] THEN history'[r] = history[r]
          ELSE history'[r] = Append(history[r], status'[r])]_vars

\* "Duplicate claims do not execute twice" (docs/OPERATIONS_VERIFICATION.md:10):
\* at most one worker is ever between the claim and the end of one run.
AtMostOneExecutor ==
    \A w1, w2 \in Workers :
        (pc[w1] \in Executing /\ pc[w2] \in Executing /\ job[w1] = job[w2]) => w1 = w2

\* A result is visible exactly on a succeeded run, an error exactly on a failed
\* one, and the artifact in storage is the one the published result describes,
\* so that model_artifact's hash check passes.
ResultMatchesStatus ==
    \A r \in Runs :
        /\ (result[r] # NoOne) <=> (status[r] = "SUCCEEDED")
        /\ error[r] <=> (status[r] = "FAILED")
        /\ (status[r] = "SUCCEEDED" /\ r \in ModelRuns) => artifact[r] = result[r]

\* Racing cancellations leave exactly one audit row, and only if one of them won.
CancelledOnce ==
    \A r \in Runs : cancelAudits[r] = IF status[r] = "CANCELLED" THEN 1 ELSE 0

\* A launch error never fails a run that a dispatcher has claimed meanwhile: a
\* run in execution stays RUNNING unless its worker or a user ends it.
LaunchErrorSparesClaimed ==
    [][\A r \in Runs : (status[r] = "RUNNING" /\ status'[r] = "FAILED")
          => \E w \in Workers : pc[w] = "failing" /\ job[w] = r]_vars

\* "No automatic stale-job retry is performed.  Cancel a failed analytical run"
\* (docs/OPERATIONS_VERIFICATION.md:28): once its process has crashed, a run is
\* never executed again and its row only ever changes by cancellation.
OrphanOnlyCancelled ==
    [][\A r \in orphaned :
          /\ status'[r] \in {status[r], "CANCELLED"}
          /\ \A w \in Workers : job'[w] = r => pc'[w] \notin Executing]_vars

\* The run rows implement the job lifecycle: cancellation discards the result of
\* the worker, a finished run never changes, nobody publishes without a claim.
Lifecycle == INSTANCE JobLifecycle WITH
    Jobs <- Runs, Producers <- Workers, NoOutput <- NoOne, Cancellable <- TRUE,
    status <- status, output <- result
ImplementsLifecycle == Lifecycle!JobSpec

\* A queued run is eventually claimed, failed or cancelled: an API that dies
\* before the launch and a launched process that dies before its claim leave it
\* to the dispatcher.
QueuedEventuallyLeaves == \A r \in Runs : status[r] = "QUEUED" ~> status[r] # "QUEUED"

\* A claimed run ends, unless its process crashed.
RunningEventuallyEnds ==
    \A r \in Runs : status[r] = "RUNNING" ~> (status[r] \in Terminal \/ r \in orphaned)

\* No run is left behind: neither launch failures, lost processes nor losing a claim keeps it
\* in the queue, and only the crash of its process keeps it from ending.
EveryRunProceeds == QueuedEventuallyLeaves /\ RunningEventuallyEnds
=============================================================================
