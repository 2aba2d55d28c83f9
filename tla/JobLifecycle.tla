---------------------------- MODULE JobLifecycle ----------------------------
(***************************************************************************)
(* What every persisted queue of the terminal promises about one job row:  *)
(* it is submitted once, claimed at most once, and reaches at most one     *)
(* outcome, whose output belongs to it and to nobody else.  The detailed   *)
(* queues (AnalysisRuns, ReportJobs) are compared with this module through *)
(* INSTANCE ... WITH.                                                      *)
(***************************************************************************)
CONSTANTS
    Jobs,        \* job identifiers
    Producers,   \* whoever may compute an output
    NoOutput,    \* the null of the output column, not a producer
    Cancellable  \* TRUE when the queue offers cancellation

VARIABLES
    status,  \* [Jobs -> JobStatus]
    output   \* [Jobs -> Producers \cup {NoOutput}]

jobVars == <<status, output>>

Terminal == {"SUCCEEDED", "FAILED", "CANCELLED"}
JobStatus == {"NONE", "QUEUED", "RUNNING"} \cup Terminal

JobTypeOK ==
    /\ status \in [Jobs -> JobStatus]
    /\ output \in [Jobs -> Producers \cup {NoOutput}]

JobInit ==
    /\ status = [j \in Jobs |-> "NONE"]
    /\ output = [j \in Jobs |-> NoOutput]

Move(j, from, to) ==
    /\ status[j] \in from
    /\ status' = [status EXCEPT ![j] = to]

Submit(j) == Move(j, {"NONE"}, "QUEUED") /\ UNCHANGED output

Claim(j) == Move(j, {"QUEUED"}, "RUNNING") /\ UNCHANGED output

Publish(j) ==
    /\ Move(j, {"RUNNING"}, "SUCCEEDED")
    /\ \E p \in Producers : output' = [output EXCEPT ![j] = p]

\* One transaction may fail several jobs, as the expiry of leases does.
Fail(failed) ==
    /\ \A j \in failed : status[j] \in {"QUEUED", "RUNNING"}
    /\ status' = [j \in Jobs |-> IF j \in failed THEN "FAILED" ELSE status[j]]
    /\ UNCHANGED output

Cancel(j) ==
    /\ Cancellable
    /\ Move(j, {"QUEUED", "RUNNING"}, "CANCELLED")
    /\ UNCHANGED output

JobNext ==
    \/ \E j \in Jobs : Submit(j) \/ Claim(j) \/ Publish(j) \/ Cancel(j)
    \/ \E failed \in SUBSET Jobs : Fail(failed)

JobSpec == JobInit /\ [][JobNext]_jobVars
=============================================================================
