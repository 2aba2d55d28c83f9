----------------------------- MODULE ReportJobs -----------------------------
(***************************************************************************)
(* Private report jobs: services/api/app/{report_api,report_jobs,          *)
(* report_engine}.py and put_new_bytes of object_storage.py.               *)
(*                                                                         *)
(* A dispatcher thread loops over run_once: fail the RUNNING jobs whose    *)
(* lease of 15 minutes is over, select the oldest QUEUED job, claim it,    *)
(* render it, store the output under a key of its own with a create-only   *)
(* write, publish it.  The claim and the publication are conditional       *)
(* UPDATEs, each one step with its commit.  The expiry and the failure     *)
(* branch load the row first and write it back by its primary key later:   *)
(* two steps each.                                                         *)
(***************************************************************************)
EXTENDS Naturals, Sequences, FiniteSets

CONSTANTS
    Jobs,         \* report jobs, one per accepted POST /report-jobs
    Owners,       \* users
    OwnerOf,      \* [Jobs -> Owners]
    Dispatchers,  \* report-engine processes
    NoOne,        \* null
    MaxActive,    \* active jobs per owner (4 in the code)
    MaxCrashes    \* bound: dispatcher crashes per behaviour

ASSUME ReportAssumption ==
    /\ OwnerOf \in [Jobs -> Owners]
    /\ NoOne \notin Dispatchers
    /\ MaxActive \in Nat \ {0}
    /\ MaxCrashes \in Nat

VARIABLES
    \* columns of report_jobs; content stands for object_key, hash and size
    status, worker, content, category,
    created,   \* jobs ordered by created_at
    audits,    \* committed REPORT_* audit actions of each job, in order
    object,    \* object storage: who wrote private-reports/<job>
    delivered, \* <<job, producer of the bytes>> of the downloads served
    creating,  \* phase of the POST that creates each job
    pc, job,   \* phase and current job of each dispatcher
    loaded,    \* the expired jobs a dispatcher has loaded
    stale,     \* RUNNING jobs that started more than 15 minutes ago
    crashes

rowVars == <<status, worker, content, category, audits>>
vars == <<rowVars, created, object, delivered, creating, pc, job, loaded, stale, crashes>>

Status == {"NONE", "QUEUED", "RUNNING", "SUCCEEDED", "FAILED"}
Category == {"none", "error", "WorkerLeaseExpired"}
Action == {"REPORT_QUEUED", "REPORT_SUCCEEDED", "REPORT_FAILED"}
Executing == {"rendering", "stored", "raised", "failing"}
Phase == {"polling", "expiring", "selecting", "picked"} \cup Executing

TypeOK ==
    /\ status \in [Jobs -> Status]
    /\ worker \in [Jobs -> Dispatchers \cup {NoOne}]
    /\ content \in [Jobs -> Dispatchers \cup {NoOne}]
    /\ category \in [Jobs -> Category]
    /\ audits \in [Jobs -> Seq(Action)]
    /\ created \in Seq(Jobs)
    /\ object \in [Jobs -> Dispatchers \cup {NoOne}]
    /\ delivered \subseteq Jobs \X Dispatchers
    /\ creating \in [Jobs -> {"none", "locked", "counted", "done"}]
    /\ pc \in [Dispatchers -> Phase]
    /\ job \in [Dispatchers -> Jobs \cup {NoOne}]
    /\ loaded \in [Dispatchers -> SUBSET Jobs]
    /\ stale \subseteq Jobs
    /\ crashes \in Nat

Init ==
    /\ status = [j \in Jobs |-> "NONE"]
    /\ worker = [j \in Jobs |-> NoOne]
    /\ content = [j \in Jobs |-> NoOne]
    /\ category = [j \in Jobs |-> "none"]
    /\ audits = [j \in Jobs |-> <<>>]
    /\ created = <<>>
    /\ object = [j \in Jobs |-> NoOne]
    /\ delivered = {}
    /\ creating = [j \in Jobs |-> "none"]
    /\ pc = [d \in Dispatchers |-> "polling"]
    /\ job = [d \in Dispatchers |-> NoOne]
    /\ loaded = [d \in Dispatchers |-> {}]
    /\ stale = {}
    /\ crashes = 0

Goto(d, phase) == pc' = [pc EXCEPT ![d] = phase]
Audit(j, action) == audits' = [audits EXCEPT ![j] = Append(@, action)]
ActiveOf(u) == {j \in Jobs : OwnerOf[j] = u /\ status[j] \in {"QUEUED", "RUNNING"}}

-----------------------------------------------------------------------------
(***************************************************************************)
(* POST /report-jobs: SELECT the user FOR UPDATE, count, insert, commit.   *)
(***************************************************************************)
\* Mutant: the count is not serialised.
UserUnlocked(j) == TRUE
UserLockFree(j) ==
    \A k \in Jobs : OwnerOf[k] = OwnerOf[j] => creating[k] \notin {"locked", "counted"}

CreateLock(j) ==
    /\ creating[j] = "none"
    /\ UserLockFree(j)
    /\ creating' = [creating EXCEPT ![j] = "locked"]
    /\ UNCHANGED <<rowVars, created, object, delivered, pc, job, loaded, stale, crashes>>

\* 429 ends the request and releases the lock: it may be sent again.
CreateCount(j) ==
    /\ creating[j] = "locked"
    /\ creating' = [creating EXCEPT ![j] =
           IF Cardinality(ActiveOf(OwnerOf[j])) >= MaxActive THEN "none" ELSE "counted"]
    /\ UNCHANGED <<rowVars, created, object, delivered, pc, job, loaded, stale, crashes>>

Enqueue(j) ==
    /\ creating[j] = "counted"
    /\ creating' = [creating EXCEPT ![j] = "done"]
    /\ status' = [status EXCEPT ![j] = "QUEUED"]
    /\ created' = Append(created, j)
    /\ Audit(j, "REPORT_QUEUED")
    /\ UNCHANGED <<worker, content, category, object, delivered, pc, job, loaded, stale, crashes>>

\* The source snapshot is rejected (ValueError): 422.
CreateRejected(j) ==
    /\ creating[j] = "counted"
    /\ creating' = [creating EXCEPT ![j] = "none"]
    /\ UNCHANGED <<rowVars, created, object, delivered, pc, job, loaded, stale, crashes>>

-----------------------------------------------------------------------------
(***************************************************************************)
(* run_once: expire, select; execute: claim, render, store, publish.       *)
(***************************************************************************)
\* 15 minutes have passed since the claim.
LeaseRunsOut(j) ==
    /\ status[j] = "RUNNING"
    /\ j \notin stale
    /\ stale' = stale \cup {j}
    /\ UNCHANGED <<rowVars, created, object, delivered, creating, pc, job, loaded, crashes>>

\* The jobs the expiry query finds.  Mutants: their status is not looked at;
\* the status looked for is the wrong one.
OverdueByAge == stale
OverdueQueued == {j \in stale : status[j] = "QUEUED"}
Overdue == {j \in stale : status[j] = "RUNNING"}

ExpireSelect(d) ==
    /\ pc[d] = "polling"
    /\ loaded' = [loaded EXCEPT ![d] = Overdue]
    /\ Goto(d, "expiring")
    /\ UNCHANGED <<rowVars, created, object, delivered, creating, job, stale, crashes>>

\* Mutants: an expired job goes back into the queue; the status is not one of the
\* enumeration.
ExpiredStatusRetry == "QUEUED"
ExpiredStatusOwn == "EXPIRED"
ExpiredStatus == "FAILED"

\* The flush updates every loaded job by primary key, whatever its status is now.
ExpireCommit(d) ==
    /\ pc[d] = "expiring"
    /\ status' = [j \in Jobs |-> IF j \in loaded[d] THEN ExpiredStatus ELSE status[j]]
    /\ category' = [j \in Jobs |-> IF j \in loaded[d] THEN "WorkerLeaseExpired" ELSE category[j]]
    /\ audits' = [j \in Jobs |-> IF j \in loaded[d] THEN Append(audits[j], "REPORT_FAILED")
                                 ELSE audits[j]]
    /\ loaded' = [loaded EXCEPT ![d] = {}]
    /\ Goto(d, "selecting")
    /\ UNCHANGED <<worker, content, created, object, delivered, creating, job, stale, crashes>>

OldestQueued(j) ==
    \E i \in DOMAIN created :
        /\ created[i] = j
        /\ status[j] = "QUEUED"
        /\ \A k \in 1 .. (i - 1) : status[created[k]] # "QUEUED"

\* No queued job: the loop waits and polls again.
Select(d) ==
    /\ pc[d] = "selecting"
    /\ \/ \E j \in Jobs : OldestQueued(j) /\ job' = [job EXCEPT ![d] = j] /\ Goto(d, "picked")
       \/ (\A j \in Jobs : status[j] # "QUEUED") /\ Goto(d, "polling") /\ UNCHANGED job
    /\ UNCHANGED <<rowVars, created, object, delivered, creating, loaded, stale, crashes>>

\* The WHERE clause of the claim.
Claimable(j) == status[j] = "QUEUED"

Claim(d) ==
    /\ pc[d] = "picked"
    /\ IF Claimable(job[d])
       THEN /\ status' = [status EXCEPT ![job[d]] = "RUNNING"]
            /\ worker' = [worker EXCEPT ![job[d]] = d]
            /\ Goto(d, "rendering")
       ELSE Goto(d, "polling") /\ UNCHANGED <<status, worker>>
    /\ UNCHANGED <<content, category, audits, created, object, delivered, creating,
                   job, loaded, stale, crashes>>

\* Verify the snapshot, render, put_new_bytes: fails if the key exists.
\* Mutant: the outcome of the write is not looked at.
StoreUnchecked(d) ==
    /\ pc[d] = "rendering"
    /\ Goto(d, "stored")
    /\ UNCHANGED <<rowVars, created, object, delivered, creating, job, loaded, stale, crashes>>
Store(d) ==
    /\ pc[d] = "rendering"
    /\ IF object[job[d]] = NoOne
       THEN object' = [object EXCEPT ![job[d]] = d] /\ Goto(d, "stored")
       ELSE Goto(d, "raised") /\ UNCHANGED object
    /\ UNCHANGED <<rowVars, created, delivered, creating, job, loaded, stale, crashes>>

\* The WHERE clause of the publication.  Mutant: the claim is not checked again.
PublishableByWorker(j, d) == worker[j] = d
Publishable(j, d) == status[j] = "RUNNING" /\ worker[j] = d

\* The read-back matched: publish, or roll back if the job was taken away.
Publish(d) ==
    /\ pc[d] = "stored"
    /\ IF Publishable(job[d], d)
       THEN /\ status' = [status EXCEPT ![job[d]] = "SUCCEEDED"]
            /\ content' = [content EXCEPT ![job[d]] = d]
            /\ Audit(job[d], "REPORT_SUCCEEDED")
       ELSE UNCHANGED <<status, content, audits>>
    /\ Goto(d, "polling")
    /\ UNCHANGED <<worker, category, created, object, delivered, creating, job, loaded,
                   stale, crashes>>

\* Any exception of the try block, which ends at the conditional UPDATE.  A commit
\* of the publication that fails raises to the loop and leaves the job RUNNING,
\* as a crash of the process does.
Raise(d) ==
    /\ pc[d] \in {"rendering", "stored"}
    /\ Goto(d, "raised")
    /\ UNCHANGED <<rowVars, created, object, delivered, creating, job, loaded, stale, crashes>>

\* The handler loads the row again, then writes it back by primary key.
FailCheck(d) ==
    /\ pc[d] = "raised"
    /\ Goto(d, IF status[job[d]] = "RUNNING" /\ worker[job[d]] = d THEN "failing" ELSE "polling")
    /\ UNCHANGED <<rowVars, created, object, delivered, creating, job, loaded, stale, crashes>>

FailCommit(d) ==
    /\ pc[d] = "failing"
    /\ status' = [status EXCEPT ![job[d]] = "FAILED"]
    /\ category' = [category EXCEPT ![job[d]] = "error"]
    /\ Audit(job[d], "REPORT_FAILED")
    /\ Goto(d, "polling")
    /\ UNCHANGED <<worker, content, created, object, delivered, creating, job, loaded,
                   stale, crashes>>

\* The process dies; its container is restarted and polls again.
Crash(d) ==
    /\ pc[d] # "polling"
    /\ crashes < MaxCrashes
    /\ crashes' = crashes + 1
    /\ loaded' = [loaded EXCEPT ![d] = {}]
    /\ Goto(d, "polling")
    /\ UNCHANGED <<rowVars, created, object, delivered, creating, job, stale>>

-----------------------------------------------------------------------------
\* GET /report-jobs/{id}/download: the bytes must match the recorded hash.  (After
\* 30 days nothing is served any more: 410.)
\* Mutant: whatever is stored under the key is served.
ServableUnverified(j) == object[j] # NoOne
Servable(j) == status[j] = "SUCCEEDED" /\ object[j] # NoOne /\ object[j] = content[j]

Download(j) ==
    /\ Servable(j)
    /\ delivered' = delivered \cup {<<j, object[j]>>}
    /\ UNCHANGED <<rowVars, created, object, creating, pc, job, loaded, stale, crashes>>

Submission(j) == CreateLock(j) \/ CreateCount(j) \/ Enqueue(j) \/ CreateRejected(j)

Poll(d) ==
    \/ ExpireSelect(d) \/ ExpireCommit(d) \/ Select(d) \/ Claim(d) \/ Store(d)
    \/ Publish(d) \/ Raise(d) \/ FailCheck(d) \/ FailCommit(d)

Next ==
    \/ \E j \in Jobs : Submission(j) \/ LeaseRunsOut(j) \/ Download(j)
    \/ \E d \in Dispatchers : Poll(d) \/ Crash(d)

Spec == Init /\ [][Next]_vars

(***************************************************************************)
(* Fairness: dispatch() of report_engine never leaves its loop while the   *)
(* process lives, and time passes.  Users and crashes owe nothing.         *)
(***************************************************************************)
Fairness ==
    /\ \A d \in Dispatchers : WF_vars(Poll(d))
    /\ \A j \in Jobs : WF_vars(LeaseRunsOut(j))
FairSpec == Spec /\ Fairness

-----------------------------------------------------------------------------
(***************************************************************************)
(* Properties.                                                             *)
(***************************************************************************)

\* A succeeded report is downloadable: the object exists, it is the one whose
\* hash the row records, and it was written by the worker that holds the claim.
SucceededIsBacked ==
    \A j \in Jobs : status[j] = "SUCCEEDED" =>
        content[j] # NoOne /\ object[j] = content[j] /\ worker[j] = content[j]

\* "An expired worker cannot publish" (docs/REPORT_READINESS.md:9): a job that
\* was failed, by its worker or by the expiry of its lease, stays failed.
ExpiredCannotPublish ==
    [][\A j \in Jobs : status[j] = "FAILED" => status'[j] = "FAILED"]_vars

\* "A process crash never causes an unbounded retry" (report_jobs.py:126): a
\* job is claimed once, its claim never moves, and only its claimant runs it.
ClaimedOnce ==
    [][\A j \in Jobs :
          /\ worker[j] # NoOne => worker'[j] = worker[j]
          /\ \A d \in Dispatchers :
                 (pc'[d] \in Executing /\ job'[d] = j) => worker'[j] = d]_vars

\* "... or silently altered output" (report_jobs.py:126): two downloads of one
\* report never differ, and they are what the row's hash describes.
DeliveredUnaltered ==
    \A x \in delivered : content[x[1]] = x[2] /\ object[x[1]] = x[2]

\* "Report owners cannot flood the queue" (report_api.py:68): racing submissions
\* of one owner never exceed the limit.
QuotaHeld == \A u \in Owners : Cardinality(ActiveOf(u)) <= MaxActive

\* With the one dispatcher of docker-compose.yml a job has exactly one outcome,
\* and the audit trail names it exactly once.
OneAuditedOutcome ==
    \A j \in Jobs :
        audits[j] = CASE status[j] = "NONE" -> <<>>
                      [] status[j] \in {"QUEUED", "RUNNING"} -> <<"REPORT_QUEUED">>
                      [] status[j] = "SUCCEEDED" -> <<"REPORT_QUEUED", "REPORT_SUCCEEDED">>
                      [] status[j] = "FAILED" -> <<"REPORT_QUEUED", "REPORT_FAILED">>

\* With one dispatcher the report queue implements the job lifecycle.
Lifecycle == INSTANCE JobLifecycle WITH
    Producers <- Dispatchers, NoOutput <- NoOne, Cancellable <- FALSE,
    status <- status, output <- content
ImplementsLifecycle == Lifecycle!JobSpec

\* Every accepted report ends, crashes included: the lease makes up for them.
EveryReportEnds ==
    \A j \in Jobs : status[j] = "QUEUED" ~> status[j] \in {"SUCCEEDED", "FAILED"}
=============================================================================
