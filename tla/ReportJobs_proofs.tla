------------------------- MODULE ReportJobs_proofs -------------------------
(***************************************************************************)
(* Proofs about ReportJobs, for any sets of jobs, owners and dispatchers,  *)
(* any quota and any number of crashes.                                    *)
(*                                                                         *)
(* What makes the properties inductive: a claim is the only writer of      *)
(* worker and finds it null (RowInv); whoever executes a job holds its     *)
(* claim, and a loaded job was claimed before (HolderInv); the user lock   *)
(* has one holder, whose count stays an upper bound until it enqueues      *)
(* (LockInv).                                                              *)
(***************************************************************************)
EXTENDS ReportJobs, FiniteSetTheorems, SequenceTheorems, TLAPS

RowInv ==
    \A j \in Jobs :
        /\ creating[j] # "done" => status[j] = "NONE"
        /\ status[j] \in {"NONE", "QUEUED"} => worker[j] = NoOne
        /\ object[j] # NoOne => object[j] = worker[j]
        /\ content[j] # NoOne => content[j] = object[j]
        /\ status[j] = "SUCCEEDED" => content[j] # NoOne

HolderInv ==
    \A d \in Dispatchers :
        /\ pc[d] \in Executing \cup {"picked"} => job[d] \in Jobs
        /\ pc[d] \in Executing =>
               worker[job[d]] = d /\ status[job[d]] \in {"RUNNING", "FAILED"}
        /\ pc[d] = "stored" => object[job[d]] = d
        /\ \A j \in loaded[d] : status[j] \notin {"NONE", "QUEUED"}

LockHeld(j) == creating[j] \in {"locked", "counted"}

LockInv ==
    \A j \in Jobs :
        /\ \A k \in Jobs :
               (LockHeld(j) /\ LockHeld(k) /\ OwnerOf[j] = OwnerOf[k]) => j = k
        /\ creating[j] = "counted" => Cardinality(ActiveOf(OwnerOf[j])) < MaxActive

QuotaInv == QuotaHeld /\ \A u \in Owners : IsFiniteSet(ActiveOf(u))

IInv ==
    /\ TypeOK
    /\ RowInv
    /\ HolderInv
    /\ DeliveredUnaltered
    /\ LockInv
    /\ QuotaInv

-----------------------------------------------------------------------------
(***************************************************************************)
(* Types.                                                                  *)
(***************************************************************************)
LEMMA InitTypeOK == Init => TypeOK
BY ReportAssumption DEF Init, TypeOK, Status, Category, Phase, Executing

LEMMA AuditType ==
    ASSUME TypeOK, NEW j \in Jobs, NEW a \in Action, Audit(j, a)
    PROVE  audits' \in [Jobs -> Seq(Action)]
BY DEF TypeOK, Audit

LEMMA GotoType ==
    ASSUME TypeOK, NEW d \in Dispatchers, NEW phase \in Phase, Goto(d, phase)
    PROVE  pc' \in [Dispatchers -> Phase]
BY DEF TypeOK, Goto

LEMMA SubmissionTypeOK ==
    ASSUME TypeOK, NEW j \in Jobs, Submission(j) \/ LeaseRunsOut(j) \/ Download(j)
    PROVE  TypeOK'
<1>1. CASE CreateLock(j) \/ CreateCount(j) \/ CreateRejected(j)
  BY <1>1 DEF CreateLock, CreateCount, CreateRejected, TypeOK, rowVars
<1>2. CASE Enqueue(j)
  <2>1. audits' \in [Jobs -> Seq(Action)]
    BY <1>2, AuditType DEF Enqueue, Action
  <2>2. created' \in Seq(Jobs)
    BY <1>2 DEF Enqueue, TypeOK
  <2>3. status' \in [Jobs -> Status]
    BY <1>2 DEF Enqueue, TypeOK, Status
  <2> QED
    BY <1>2, <2>1, <2>2, <2>3 DEF Enqueue, TypeOK
<1>3. CASE LeaseRunsOut(j)
  BY <1>3 DEF LeaseRunsOut, TypeOK, rowVars
<1>4. CASE Download(j)
  <2>1. object[j] \in Dispatchers
    BY <1>4 DEF Download, Servable, TypeOK
  <2> QED
    BY <1>4, <2>1 DEF Download, TypeOK, rowVars
<1> QED
  BY <1>1, <1>2, <1>3, <1>4 DEF Submission

\* The job a dispatcher holds is a job, while it has one.
LEMMA PollTypeOK ==
    ASSUME TypeOK, HolderInv, NEW d \in Dispatchers, Poll(d) \/ Crash(d)
    PROVE  TypeOK'
<1>1. CASE ExpireSelect(d)
  BY <1>1 DEF ExpireSelect, Overdue, Goto, TypeOK, rowVars, Phase
<1>2. CASE ExpireCommit(d)
  <2>1. audits' \in [Jobs -> Seq(Action)]
    BY <1>2 DEF ExpireCommit, TypeOK, Action
  <2> QED
    BY <1>2, <2>1 DEF ExpireCommit, Goto, TypeOK, Status, Category, Phase, ExpiredStatus
<1>3. CASE Select(d)
  BY <1>3 DEF Select, Goto, TypeOK, rowVars, Phase
<1>4. CASE Claim(d)
  <2>1. status' \in [Jobs -> Status] /\ worker' \in [Jobs -> Dispatchers \cup {NoOne}]
    BY <1>4 DEF Claim, TypeOK, Status
  <2>2. \E phase \in {"rendering", "polling"} : Goto(d, phase)
    BY <1>4 DEF Claim
  <2>3. pc' \in [Dispatchers -> Phase]
    BY <2>2, GotoType DEF Phase, Executing
  <2> QED
    BY <1>4, <2>1, <2>3 DEF Claim, TypeOK
<1>5. CASE Store(d)
  BY <1>5 DEF Store, Goto, TypeOK, rowVars, Phase, Executing
<1>6. CASE Publish(d)
  <2>1. job[d] \in Jobs
    BY <1>6 DEF Publish, HolderInv, Executing
  <2>2. audits' \in [Jobs -> Seq(Action)]
    BY <1>6, <2>1, AuditType DEF Publish, Action, TypeOK
  <2> QED
    BY <1>6, <2>2 DEF Publish, Goto, TypeOK, Status, Phase
<1>7. CASE Raise(d) \/ FailCheck(d)
  BY <1>7 DEF Raise, FailCheck, Goto, TypeOK, rowVars, Phase, Executing
<1>8. CASE FailCommit(d)
  <2>1. job[d] \in Jobs
    BY <1>8 DEF FailCommit, HolderInv, Executing
  <2>2. audits' \in [Jobs -> Seq(Action)]
    BY <1>8, <2>1, AuditType DEF FailCommit, Action
  <2> QED
    BY <1>8, <2>2 DEF FailCommit, Goto, TypeOK, Status, Category, Phase
<1>9. CASE Crash(d)
  BY <1>9, ReportAssumption DEF Crash, Goto, TypeOK, rowVars, Phase
<1> QED
  BY <1>1, <1>2, <1>3, <1>4, <1>5, <1>6, <1>7, <1>8, <1>9 DEF Poll

-----------------------------------------------------------------------------
(***************************************************************************)
(* Rows, claims and objects.                                               *)
(***************************************************************************)
\* What the steps of requests and of time leave of the rows.
LEMMA SubmissionKeeps ==
    ASSUME TypeOK, RowInv, HolderInv, DeliveredUnaltered,
           NEW j \in Jobs, Submission(j) \/ LeaseRunsOut(j) \/ Download(j)
    PROVE  RowInv' /\ HolderInv' /\ DeliveredUnaltered'
<1>1. CASE CreateLock(j) \/ CreateCount(j) \/ CreateRejected(j)
  <2>1. UNCHANGED <<rowVars, object, delivered, pc, job, loaded>>
    BY <1>1 DEF CreateLock, CreateCount, CreateRejected
  <2>2. RowInv'
    BY <1>1, <2>1 DEF CreateLock, CreateCount, CreateRejected, RowInv, rowVars, TypeOK
  <2> QED
    BY <2>1, <2>2 DEF rowVars, HolderInv, DeliveredUnaltered
<1>2. CASE Enqueue(j)
  <2>1. status[j] = "NONE" /\ worker[j] = NoOne
    BY <1>2 DEF Enqueue, RowInv
  <2>2. RowInv'
    BY <1>2, <2>1 DEF Enqueue, RowInv, TypeOK
  <2>3. HolderInv'
    BY <1>2, <2>1 DEF Enqueue, HolderInv, TypeOK, Executing
  <2> QED
    BY <1>2, <2>2, <2>3 DEF Enqueue, DeliveredUnaltered
<1>3. CASE LeaseRunsOut(j)
  BY <1>3 DEF LeaseRunsOut, rowVars, RowInv, HolderInv, DeliveredUnaltered
<1>4. CASE Download(j)
  BY <1>4 DEF Download, Servable, rowVars, RowInv, HolderInv, DeliveredUnaltered
<1> QED
  BY <1>1, <1>2, <1>3, <1>4 DEF Submission

\* The expiry, by primary key, touches only rows that were claimed before.
LEMMA ExpiryKeeps ==
    ASSUME TypeOK, RowInv, HolderInv, DeliveredUnaltered,
           NEW d \in Dispatchers, ExpireSelect(d) \/ ExpireCommit(d) \/ Select(d) \/ Crash(d)
    PROVE  RowInv' /\ HolderInv' /\ DeliveredUnaltered'
<1>1. CASE ExpireSelect(d)
  BY <1>1 DEF ExpireSelect, Overdue, Goto, rowVars, TypeOK, Executing,
              RowInv, HolderInv, DeliveredUnaltered
<1>2. CASE ExpireCommit(d)
  <2>1. \A j \in Jobs : status'[j] = IF j \in loaded[d] THEN "FAILED" ELSE status[j]
    BY <1>2 DEF ExpireCommit, ExpiredStatus
  <2>2. RowInv'
    BY <1>2, <2>1 DEF ExpireCommit, RowInv, HolderInv
  <2>3. HolderInv'
    BY <1>2, <2>1 DEF ExpireCommit, Goto, HolderInv, TypeOK, Executing
  <2> QED
    BY <1>2, <2>2, <2>3 DEF ExpireCommit, DeliveredUnaltered
<1>3. CASE Select(d)
  <2>1. UNCHANGED <<rowVars, object, delivered, creating, loaded>>
    BY <1>3 DEF Select
  <2>2. HolderInv'
    BY <1>3, <2>1 DEF Select, Goto, rowVars, HolderInv, TypeOK, Executing
  <2> QED
    BY <2>1, <2>2 DEF rowVars, RowInv, DeliveredUnaltered
<1>4. CASE Crash(d)
  BY <1>4 DEF Crash, Goto, rowVars, TypeOK, Executing, RowInv, HolderInv, DeliveredUnaltered
<1> QED
  BY <1>1, <1>2, <1>3, <1>4

\* A job is executed by the one dispatcher that claimed it.
LEMMA ExecutionKeeps ==
    ASSUME TypeOK, RowInv, HolderInv, DeliveredUnaltered, NEW d \in Dispatchers,
           \/ Claim(d) \/ Store(d) \/ Publish(d) \/ Raise(d) \/ FailCheck(d) \/ FailCommit(d)
    PROVE  RowInv' /\ HolderInv' /\ DeliveredUnaltered'
<1>0. job[d] \in Jobs
  BY DEF Claim, Store, Publish, Raise, FailCheck, FailCommit, HolderInv, Executing
<1>1. CASE Claim(d)
  <2>1. CASE Claimable(job[d])
    <3>1. RowInv'
      BY <1>0, <1>1, <2>1 DEF Claim, Claimable, RowInv, TypeOK
    <3>2. HolderInv'
      BY <1>0, <1>1, <2>1 DEF Claim, Claimable, Goto, HolderInv, RowInv, TypeOK, Executing
    <3> QED
      BY <1>1, <3>1, <3>2 DEF Claim, DeliveredUnaltered
  <2>2. CASE ~Claimable(job[d])
    BY <1>1, <2>2 DEF Claim, Goto, TypeOK, Executing, RowInv, HolderInv, DeliveredUnaltered
  <2> QED
    BY <2>1, <2>2
<1>2. CASE Store(d)
  <2>1. worker[job[d]] = d /\ d # NoOne
    BY <1>2, ReportAssumption DEF Store, HolderInv, Executing
  <2>2. CASE object[job[d]] = NoOne
    <3>1. object' = [object EXCEPT ![job[d]] = d] /\ content[job[d]] = NoOne
      BY <1>0, <1>2, <2>2 DEF Store, RowInv
    <3>2. RowInv'
      BY <1>0, <1>2, <2>1, <3>1 DEF Store, rowVars, RowInv, TypeOK
    <3>3. HolderInv'
      BY <1>0, <1>2, <2>1, <2>2, <3>1 DEF Store, rowVars, Goto, HolderInv, TypeOK, Executing
    <3>4. DeliveredUnaltered'
      BY <1>0, <1>2, <2>2, <3>1, ReportAssumption DEF Store, rowVars, DeliveredUnaltered, TypeOK
    <3> QED
      BY <3>2, <3>3, <3>4
  <2>3. CASE object[job[d]] # NoOne
    BY <1>2, <2>3 DEF Store, rowVars, Goto, TypeOK, Executing, RowInv, HolderInv, DeliveredUnaltered
  <2> QED
    BY <2>2, <2>3
<1>3. CASE Publish(d)
  <2>1. worker[job[d]] = d /\ object[job[d]] = d /\ d # NoOne
    BY <1>3, ReportAssumption DEF Publish, HolderInv, Executing
  <2>2. CASE Publishable(job[d], d)
    <3>1. RowInv'
      <4>1. status' = [status EXCEPT ![job[d]] = "SUCCEEDED"]
            /\ content' = [content EXCEPT ![job[d]] = d]
            /\ UNCHANGED <<worker, object, creating>>
        BY <1>3, <2>2 DEF Publish
      <4>2. status[job[d]] = "RUNNING"
        BY <2>2 DEF Publishable
      <4> QED
        BY <1>0, <2>1, <4>1, <4>2 DEF RowInv, TypeOK
    <3>2. HolderInv'
      <4>1. status' = [status EXCEPT ![job[d]] = "SUCCEEDED"]
            /\ UNCHANGED <<worker, object, job, loaded>>
        BY <1>3, <2>2 DEF Publish
      <4>2. pc' = [pc EXCEPT ![d] = "polling"]
        BY <1>3 DEF Publish, Goto
      <4> QED
        BY <1>0, <2>1, <2>2, <4>1, <4>2 DEF HolderInv, TypeOK, Executing
    <3>3. DeliveredUnaltered'
      BY <1>0, <1>3, <2>1, <2>2 DEF Publish, DeliveredUnaltered, TypeOK
    <3> QED
      BY <3>1, <3>2, <3>3
  <2>3. CASE ~Publishable(job[d], d)
    BY <1>3, <2>3 DEF Publish, Goto, TypeOK, Executing, RowInv, HolderInv, DeliveredUnaltered
  <2> QED
    BY <2>2, <2>3
<1>4. CASE Raise(d) \/ FailCheck(d)
  BY <1>4 DEF Raise, FailCheck, rowVars, Goto, TypeOK, Executing, RowInv, HolderInv,
              DeliveredUnaltered
<1>5. CASE FailCommit(d)
  <2>1. worker[job[d]] = d /\ status[job[d]] \in {"RUNNING", "FAILED"}
    BY <1>5 DEF FailCommit, HolderInv, Executing
  <2>2. RowInv'
    BY <1>0, <1>5, <2>1 DEF FailCommit, RowInv, TypeOK
  <2>3. HolderInv'
    BY <1>0, <1>5, <2>1 DEF FailCommit, Goto, HolderInv, TypeOK, Executing
  <2> QED
    BY <1>5, <2>2, <2>3 DEF FailCommit, DeliveredUnaltered
<1> QED
  BY <1>1, <1>2, <1>3, <1>4, <1>5

-----------------------------------------------------------------------------
(***************************************************************************)
(* The quota.                                                              *)
(***************************************************************************)
\* A step that makes no job active and takes no lock keeps lock and quota.
LEMMA QuotaShrinks ==
    ASSUME LockInv, QuotaInv,
           \A j \in Jobs : status'[j] \in {"QUEUED", "RUNNING"} => status[j] \in {"QUEUED", "RUNNING"},
           \A j \in Jobs : creating'[j] # creating[j] => creating'[j] \in {"none", "done"}
    PROVE  LockInv' /\ QuotaInv'
<1>1. ASSUME NEW u \in Owners
      PROVE  /\ IsFiniteSet(ActiveOf(u)') /\ Cardinality(ActiveOf(u)') \in Nat
             /\ Cardinality(ActiveOf(u)) \in Nat
             /\ Cardinality(ActiveOf(u)') <= Cardinality(ActiveOf(u))
  <2>1. ActiveOf(u)' \subseteq ActiveOf(u)
    BY DEF ActiveOf
  <2>2. IsFiniteSet(ActiveOf(u))
    BY DEF QuotaInv
  <2> QED
    BY <2>1, <2>2, FS_Subset, FS_CardinalityType
<1>2. QuotaInv'
  BY <1>1, ReportAssumption DEF QuotaInv, QuotaHeld
<1>3. LockInv'
  <2> SUFFICES ASSUME NEW j \in Jobs
               PROVE  /\ \A k \in Jobs :
                            (LockHeld(j)' /\ LockHeld(k)' /\ OwnerOf[j] = OwnerOf[k]) => j = k
                      /\ creating'[j] = "counted" => Cardinality(ActiveOf(OwnerOf[j])') < MaxActive
    BY DEF LockInv
  <2>1. \A k \in Jobs : LockHeld(k)' => LockHeld(k)
    BY DEF LockHeld
  <2>2. creating'[j] = "counted" => Cardinality(ActiveOf(OwnerOf[j])) < MaxActive
    BY DEF LockInv
  <2>3. OwnerOf[j] \in Owners
    BY ReportAssumption
  <2> QED
    BY <1>1, <2>1, <2>2, <2>3, ReportAssumption DEF LockInv
<1> QED
  BY <1>2, <1>3

\* The insert makes one job of the owner active, and the count allowed for it.
LEMMA EnqueueKeepsQuota ==
    ASSUME TypeOK, LockInv, QuotaInv, NEW j \in Jobs, Enqueue(j)
    PROVE  LockInv' /\ QuotaInv'
<1> DEFINE owner == OwnerOf[j]
<1>1. /\ owner \in Owners /\ creating[j] = "counted"
      /\ creating' = [creating EXCEPT ![j] = "done"]
      /\ status' = [status EXCEPT ![j] = "QUEUED"]
  BY ReportAssumption DEF Enqueue
<1>2. ActiveOf(owner)' = ActiveOf(owner) \cup {j}
  BY <1>1 DEF ActiveOf, TypeOK
<1>3. \A u \in Owners : u # owner => ActiveOf(u)' = ActiveOf(u)
  BY <1>1 DEF ActiveOf, TypeOK
<1>4. /\ IsFiniteSet(ActiveOf(owner)) /\ Cardinality(ActiveOf(owner)) \in Nat
      /\ Cardinality(ActiveOf(owner)) < MaxActive
  BY <1>1, FS_CardinalityType DEF QuotaInv, LockInv
<1>5. /\ IsFiniteSet(ActiveOf(owner)')
      /\ Cardinality(ActiveOf(owner)') <= Cardinality(ActiveOf(owner)) + 1
  <2>1. /\ IsFiniteSet(ActiveOf(owner) \cup {j})
        /\ Cardinality(ActiveOf(owner) \cup {j}) =
              IF j \in ActiveOf(owner) THEN Cardinality(ActiveOf(owner))
              ELSE Cardinality(ActiveOf(owner)) + 1
    BY <1>4, FS_AddElement
  <2>2. Cardinality(ActiveOf(owner) \cup {j}) <= Cardinality(ActiveOf(owner)) + 1
    BY <1>4, <2>1
  <2> QED
    BY <1>2, <2>1, <2>2
<1>6. Cardinality(ActiveOf(owner)') \in Nat
  BY <1>5, FS_CardinalityType
<1>7. QuotaInv'
  BY <1>3, <1>4, <1>5, <1>6, ReportAssumption DEF QuotaInv, QuotaHeld
<1>8. LockInv'
  <2> SUFFICES ASSUME NEW k \in Jobs
               PROVE  /\ \A i \in Jobs :
                            (LockHeld(k)' /\ LockHeld(i)' /\ OwnerOf[k] = OwnerOf[i]) => k = i
                      /\ creating'[k] = "counted" => Cardinality(ActiveOf(OwnerOf[k])') < MaxActive
    BY DEF LockInv
  <2>1. \A i \in Jobs : LockHeld(i)' => LockHeld(i) /\ i # j
    BY <1>1 DEF LockHeld, TypeOK
  <2>2. ASSUME creating'[k] = "counted"
        PROVE  /\ OwnerOf[k] # owner /\ OwnerOf[k] \in Owners
               /\ Cardinality(ActiveOf(OwnerOf[k])) < MaxActive
    BY <1>1, <2>1, <2>2, ReportAssumption DEF LockHeld, LockInv, TypeOK
  <2> QED
    BY <1>3, <2>1, <2>2 DEF LockInv
<1> QED
  BY <1>7, <1>8

\* The user row is locked by one request per owner; the count is taken under it.
LEMMA LockKeepsQuota ==
    ASSUME TypeOK, LockInv, QuotaInv, NEW j \in Jobs, CreateLock(j) \/ CreateCount(j)
    PROVE  LockInv' /\ QuotaInv'
<1>1. /\ UNCHANGED status
      /\ \A u \in Owners : ActiveOf(u)' = ActiveOf(u)
      /\ \A k \in Jobs : OwnerOf[k] \in Owners
  BY ReportAssumption DEF CreateLock, CreateCount, rowVars, ActiveOf
<1>2. QuotaInv'
  BY <1>1 DEF QuotaInv, QuotaHeld
<1>3. CASE CreateLock(j)
  <2>1. creating' = [creating EXCEPT ![j] = "locked"]
        /\ \A k \in Jobs : OwnerOf[k] = OwnerOf[j] => ~LockHeld(k)
    BY <1>3 DEF CreateLock, UserLockFree, LockHeld
  <2>2. \A k \in Jobs : LockHeld(k)' <=> (LockHeld(k) \/ k = j)
    BY <2>1 DEF LockHeld, TypeOK
  <2>3. \A k \in Jobs : creating'[k] = "counted" => creating[k] = "counted"
    BY <2>1 DEF TypeOK
  <2> QED
    BY <1>1, <1>2, <2>1, <2>2, <2>3 DEF LockInv
<1>4. CASE CreateCount(j)
  <2>1. /\ creating[j] = "locked"
        /\ creating' = [creating EXCEPT ![j] = IF Cardinality(ActiveOf(OwnerOf[j])) >= MaxActive
                                               THEN "none" ELSE "counted"]
    BY <1>4 DEF CreateCount
  <2>2. \A k \in Jobs : LockHeld(k)' => LockHeld(k)
    BY <2>1 DEF LockHeld, TypeOK
  <2>3. Cardinality(ActiveOf(OwnerOf[j])) \in Nat
    BY <1>1, FS_CardinalityType DEF QuotaInv
  <2>4. \A k \in Jobs : creating'[k] = "counted" => Cardinality(ActiveOf(OwnerOf[k])) < MaxActive
    BY <2>1, <2>3, ReportAssumption DEF LockInv, TypeOK
  <2> QED
    BY <1>1, <1>2, <2>2, <2>4 DEF LockInv
<1> QED
  BY <1>2, <1>3, <1>4

-----------------------------------------------------------------------------
(***************************************************************************)
(* The invariant.                                                          *)
(***************************************************************************)
LEMMA InitIInv == Init => IInv
<1> SUFFICES ASSUME Init PROVE IInv
  OBVIOUS
<1>1. TypeOK
  BY InitTypeOK
<1>2. RowInv /\ HolderInv /\ DeliveredUnaltered
  BY DEF Init, RowInv, HolderInv, DeliveredUnaltered, Executing
<1>3. LockInv
  BY DEF Init, LockInv, LockHeld
<1>4. \A u \in Owners : ActiveOf(u) = {}
  BY DEF Init, ActiveOf
<1>5. QuotaInv
  BY <1>4, FS_EmptySet, ReportAssumption DEF QuotaInv, QuotaHeld
<1> QED
  BY <1>1, <1>2, <1>3, <1>5 DEF IInv

LEMMA NextIInv == IInv /\ [Next]_vars => IInv'
<1> SUFFICES ASSUME IInv, [Next]_vars PROVE IInv'
  OBVIOUS
<1>1. ASSUME NEW j \in Jobs, Submission(j) \/ LeaseRunsOut(j) \/ Download(j)
      PROVE  IInv'
  <2>1. TypeOK' /\ RowInv' /\ HolderInv' /\ DeliveredUnaltered'
    BY <1>1, SubmissionTypeOK, SubmissionKeeps DEF IInv
  <2>2. CASE Enqueue(j)
    BY <2>1, <2>2, EnqueueKeepsQuota DEF IInv
  <2>3. CASE CreateLock(j) \/ CreateCount(j)
    BY <2>1, <2>3, LockKeepsQuota DEF IInv
  <2>4. CASE CreateRejected(j) \/ LeaseRunsOut(j) \/ Download(j)
    <3>1. status' = status
          /\ (creating' = creating \/ creating' = [creating EXCEPT ![j] = "none"])
      BY <2>4 DEF CreateRejected, LeaseRunsOut, Download, rowVars
    <3>2. LockInv' /\ QuotaInv'
      BY <3>1, QuotaShrinks DEF IInv, TypeOK
    <3> QED
      BY <2>1, <3>2 DEF IInv
  <2> QED
    BY <1>1, <2>2, <2>3, <2>4 DEF Submission
<1>2. ASSUME NEW d \in Dispatchers, Poll(d) \/ Crash(d)
      PROVE  IInv'
  <2>1. TypeOK'
    BY <1>2, PollTypeOK DEF IInv
  <2>2. RowInv' /\ HolderInv' /\ DeliveredUnaltered'
    BY <1>2, ExpiryKeeps, ExecutionKeeps DEF IInv, Poll
  <2>3. creating' = creating
    BY <1>2 DEF Poll, Crash, ExpireSelect, ExpireCommit, Select, Claim, Store, Publish, Raise,
                FailCheck, FailCommit
  <2>4. \A j \in Jobs : status'[j] \in {"QUEUED", "RUNNING"} => status[j] \in {"QUEUED", "RUNNING"}
    BY <1>2 DEF Poll, Crash, ExpireSelect, ExpireCommit, Select, Claim, Store, Publish, Raise,
                FailCheck, FailCommit, rowVars, ExpiredStatus, Claimable, IInv, TypeOK
  <2> QED
    BY <2>1, <2>2, <2>3, <2>4, QuotaShrinks DEF IInv
<1>3. CASE UNCHANGED vars
  <2>1. TypeOK' /\ RowInv' /\ HolderInv' /\ DeliveredUnaltered'
    BY <1>3 DEF vars, rowVars, IInv, TypeOK, RowInv, HolderInv, DeliveredUnaltered
  <2>2. LockInv' /\ QuotaInv'
    BY <1>3, QuotaShrinks DEF vars, rowVars, IInv
  <2> QED
    BY <2>1, <2>2 DEF IInv
<1> QED
  BY <1>1, <1>2, <1>3 DEF Next

LEMMA Invariance == Spec => []IInv
BY InitIInv, NextIInv, PTL DEF Spec

-----------------------------------------------------------------------------
(***************************************************************************)
(* The theorems.                                                           *)
(***************************************************************************)
\* Every variable keeps its type.
THEOREM TypeCorrect == Spec => []TypeOK
BY Invariance, PTL DEF IInv

\* A succeeded report is backed by the object its row describes, which its
\* claimant wrote (report_jobs.py:82-100): however many dispatchers overlap.
THEOREM SucceededBacked == Spec => []SucceededIsBacked
<1>1. IInv => SucceededIsBacked
  BY DEF IInv, RowInv, SucceededIsBacked
<1> QED
  BY <1>1, Invariance, PTL

\* No download ever differs from another or from the recorded hash
\* (report_jobs.py:126).
THEOREM DownloadsUnaltered == Spec => []DeliveredUnaltered
BY Invariance, PTL DEF IInv

\* Racing submissions never exceed the quota of an owner (report_api.py:66-70).
THEOREM QuotaCorrect == Spec => []QuotaHeld
BY Invariance, PTL DEF IInv, QuotaInv

\* A failed report stays failed: "An expired worker cannot publish"
\* (docs/REPORT_READINESS.md:9).
THEOREM FailedForEver == Spec => ExpiredCannotPublish
<1> DEFINE Stays == \A j \in Jobs : status[j] = "FAILED" => status'[j] = "FAILED"
<1>1. ASSUME IInv, [Next]_vars PROVE Stays
  <2>1. ASSUME NEW j \in Jobs, Submission(j) \/ LeaseRunsOut(j) \/ Download(j) PROVE Stays
    BY <1>1, <2>1
    DEF Submission, CreateLock, CreateCount, CreateRejected, Enqueue, LeaseRunsOut, Download,
        rowVars, IInv, TypeOK, RowInv
  <2>2. ASSUME NEW d \in Dispatchers, Poll(d) \/ Crash(d) PROVE Stays
    BY <1>1, <2>2
    DEF Poll, Crash, ExpireSelect, ExpireCommit, Select, Claim, Store, Publish, Raise, FailCheck,
        FailCommit, rowVars, ExpiredStatus, Claimable, Publishable, IInv, TypeOK
  <2> QED
    BY <1>1, <2>1, <2>2 DEF Next, vars, rowVars
<1>2. IInv /\ [Next]_vars => [Stays]_vars
  BY <1>1
<1> QED
  BY <1>2, Invariance, PTL DEF Spec, ExpiredCannotPublish

\* A job is claimed once and executed by its claimant only (report_jobs.py:46-60).
THEOREM OneClaim == Spec => ClaimedOnce
<1> DEFINE Held == \A j \in Jobs :
          /\ worker[j] # NoOne => worker'[j] = worker[j]
          /\ \A d \in Dispatchers :
                 (pc'[d] \in Executing /\ job'[d] = j) => worker'[j] = d
<1>1. ASSUME IInv, IInv', [Next]_vars PROVE Held
  <2>1. ASSUME NEW j \in Jobs, worker[j] # NoOne PROVE worker'[j] = worker[j]
    <3>1. ASSUME NEW d \in Dispatchers, Claim(d) PROVE worker'[j] = worker[j]
      BY <1>1, <2>1, <3>1 DEF Claim, Claimable, IInv, TypeOK, RowInv
    <3>2. CASE UNCHANGED worker
      BY <3>2
    <3> QED
      BY <1>1, <3>1, <3>2
      DEF Next, vars, rowVars, Submission, CreateLock, CreateCount, CreateRejected, Enqueue,
          LeaseRunsOut, Download, Poll, Crash, ExpireSelect, ExpireCommit, Select, Store,
          Publish, Raise, FailCheck, FailCommit
  <2>2. ASSUME NEW j \in Jobs, NEW d \in Dispatchers, pc'[d] \in Executing, job'[d] = j
        PROVE  worker'[j] = d
    BY <1>1, <2>2 DEF IInv, HolderInv, Executing
  <2> QED
    BY <2>1, <2>2
<1>2. IInv /\ IInv' /\ [Next]_vars => [Held]_vars
  BY <1>1
<1> QED
  BY <1>2, Invariance, PTL DEF Spec, ClaimedOnce

-----------------------------------------------------------------------------
(***************************************************************************)
(* One dispatcher, as docker-compose.yml starts it: nothing happens to a   *)
(* job between the step that loads it and the step that writes it back.    *)
(***************************************************************************)
SoleDispatcher == \A d, e \in Dispatchers : d = e

SoleInv ==
    \A d \in Dispatchers :
        /\ pc[d] \in Executing => status[job[d]] = "RUNNING"
        /\ \A j \in loaded[d] : pc[d] = "expiring" /\ status[j] = "RUNNING"

\* An audit trail of one action, extended.
LEMMA AuditPair ==
    \A first, second \in Action : Append(<<first>>, second) = <<first, second>>
<1> SUFFICES ASSUME NEW first \in Action, NEW second \in Action
             PROVE  Append(<<first>>, second) = <<first, second>>
  OBVIOUS
<1> DEFINE one == <<first>>
           two == <<first, second>>
           appended == Append(one, second)
<1>1. /\ one \in Seq(Action) /\ Len(one) = 1 /\ one[1] = first
      /\ two \in Seq(Action) /\ Len(two) = 2 /\ two[1] = first /\ two[2] = second
  OBVIOUS
<1>2. /\ appended \in Seq(Action) /\ Len(appended) = 2
      /\ appended[1] = first /\ appended[2] = second
  BY <1>1, AppendProperties
<1>3. \A i \in 1 .. Len(appended) : appended[i] = two[i]
  BY <1>1, <1>2
<1> HIDE DEF one, two, appended
<1>4. appended = two
  BY <1>1, <1>2, <1>3, SeqEqual
<1> QED
  BY <1>4 DEF one, two, appended

\* The steps of requests and of time touch no claimed row.
LEMMA SubmissionKeepsSole ==
    ASSUME IInv, SoleInv, OneAuditedOutcome,
           NEW j \in Jobs, Submission(j) \/ LeaseRunsOut(j) \/ Download(j)
    PROVE  SoleInv' /\ OneAuditedOutcome'
<1>1. CASE Enqueue(j)
  <2>1. status[j] = "NONE" /\ audits[j] = <<>>
    BY <1>1 DEF Enqueue, IInv, RowInv, OneAuditedOutcome
  <2>2. /\ status' = [status EXCEPT ![j] = "QUEUED"]
        /\ audits' = [audits EXCEPT ![j] = <<"REPORT_QUEUED">>]
        /\ UNCHANGED <<pc, job, loaded>>
    BY <1>1, <2>1 DEF Enqueue, Audit, IInv, TypeOK
  <2>3. SoleInv'
    BY <2>1, <2>2 DEF SoleInv, IInv, TypeOK, HolderInv
  <2>4. OneAuditedOutcome'
    BY <2>2 DEF OneAuditedOutcome, IInv, TypeOK
  <2> QED
    BY <2>3, <2>4
<1>2. CASE ~Enqueue(j)
  <2>1. UNCHANGED <<rowVars, pc, job, loaded>>
    BY <1>2 DEF Submission, CreateLock, CreateCount, CreateRejected, LeaseRunsOut, Download
  <2> QED
    BY <2>1 DEF rowVars, SoleInv, OneAuditedOutcome
<1> QED
  BY <1>1, <1>2

\* The expiry ends running jobs, each once.
LEMMA ExpiryKeepsSole ==
    ASSUME SoleDispatcher, IInv, SoleInv, OneAuditedOutcome, NEW d \in Dispatchers, ExpireCommit(d)
    PROVE  SoleInv' /\ OneAuditedOutcome'
<1>1. pc[d] = "expiring" /\ pc' = [pc EXCEPT ![d] = "selecting"]
      /\ loaded' = [loaded EXCEPT ![d] = {}]
  BY DEF ExpireCommit, Goto
<1>2. SoleInv'
  BY <1>1 DEF SoleDispatcher, SoleInv, IInv, TypeOK, Executing
<1>3. ASSUME NEW j \in loaded[d]
      PROVE  status[j] = "RUNNING" /\ audits[j] = <<"REPORT_QUEUED">>
  BY <1>3 DEF SoleInv, OneAuditedOutcome, IInv, TypeOK
<1>4. \A j \in loaded[d] : status'[j] = "FAILED" /\ audits'[j] = <<"REPORT_QUEUED", "REPORT_FAILED">>
  <2> SUFFICES ASSUME NEW j \in loaded[d]
               PROVE  /\ status'[j] = "FAILED"
                      /\ audits'[j] = <<"REPORT_QUEUED", "REPORT_FAILED">>
    OBVIOUS
  <2>1. j \in Jobs
    BY DEF IInv, TypeOK
  <2>2. status'[j] = "FAILED" /\ audits'[j] = Append(audits[j], "REPORT_FAILED")
    BY <2>1 DEF ExpireCommit, ExpiredStatus
  <2> QED
    BY <1>3, <2>2, AuditPair DEF Action
<1>5. \A j \in Jobs \ loaded[d] : status'[j] = status[j] /\ audits'[j] = audits[j]
  BY DEF ExpireCommit
<1>6. OneAuditedOutcome'
  BY <1>4, <1>5 DEF OneAuditedOutcome
<1> QED
  BY <1>2, <1>6

\* The outcome of a job is written by its executor while it is running.
LEMMA OutcomeKeepsSole ==
    ASSUME SoleDispatcher, IInv, SoleInv, OneAuditedOutcome, NEW d \in Dispatchers,
           Publish(d) \/ FailCommit(d)
    PROVE  /\ SoleInv' /\ OneAuditedOutcome'
           /\ job[d] \in Jobs /\ status[job[d]] = "RUNNING"
           /\ worker[job[d]] = d
<1>1. pc[d] \in Executing /\ pc' = [pc EXCEPT ![d] = "polling"] /\ UNCHANGED <<job, loaded>>
  BY DEF Publish, FailCommit, Goto, Executing
<1>2. job[d] \in Jobs /\ status[job[d]] = "RUNNING" /\ worker[job[d]] = d
  BY <1>1 DEF SoleInv, IInv, HolderInv
<1>3. audits[job[d]] = <<"REPORT_QUEUED">>
  BY <1>2 DEF OneAuditedOutcome
<1>4. \/ /\ status' = [status EXCEPT ![job[d]] = "SUCCEEDED"]
         /\ audits' = [audits EXCEPT ![job[d]] = <<"REPORT_QUEUED", "REPORT_SUCCEEDED">>]
      \/ /\ status' = [status EXCEPT ![job[d]] = "FAILED"]
         /\ audits' = [audits EXCEPT ![job[d]] = <<"REPORT_QUEUED", "REPORT_FAILED">>]
  BY <1>2, <1>3 DEF Publish, FailCommit, Publishable, Audit, IInv, TypeOK
<1>5. loaded[d] = {}
  BY <1>1 DEF SoleInv, Executing
<1>6. SoleInv'
  BY <1>1, <1>5 DEF SoleDispatcher, SoleInv, IInv, TypeOK, Executing
<1>7. OneAuditedOutcome'
  BY <1>2, <1>4 DEF OneAuditedOutcome, IInv, TypeOK
<1> QED
  BY <1>2, <1>6, <1>7

\* Every other step of the dispatcher writes no outcome.
LEMMA PollKeepsSole ==
    ASSUME SoleDispatcher, IInv, SoleInv, OneAuditedOutcome, NEW d \in Dispatchers,
           \/ ExpireSelect(d) \/ Select(d) \/ Claim(d) \/ Store(d) \/ Raise(d)
           \/ FailCheck(d) \/ Crash(d)
    PROVE  SoleInv' /\ OneAuditedOutcome'
<1>1. CASE Claim(d)
  <2>1. job[d] \in Jobs /\ loaded[d] = {}
    BY <1>1 DEF Claim, IInv, HolderInv, SoleInv
  <2>2. SoleInv'
    BY <1>1, <2>1 DEF SoleDispatcher, Claim, Goto, SoleInv, IInv, TypeOK, Executing
  <2>3. OneAuditedOutcome'
    BY <1>1, <2>1 DEF Claim, Claimable, OneAuditedOutcome, IInv, TypeOK
  <2> QED
    BY <2>2, <2>3
<1>2. CASE ExpireSelect(d)
  <2>1. SoleInv'
    BY <1>2 DEF SoleDispatcher, ExpireSelect, Overdue, Goto, rowVars, SoleInv, IInv, TypeOK, Executing
  <2> QED
    BY <1>2, <2>1 DEF ExpireSelect, rowVars, OneAuditedOutcome
<1>3. CASE Select(d) \/ Store(d) \/ Raise(d) \/ FailCheck(d) \/ Crash(d)
  <2>1. UNCHANGED rowVars
    BY <1>3 DEF Select, Store, Raise, FailCheck, Crash
  <2>2. SoleInv'
    BY <1>3, <2>1
    DEF SoleDispatcher, Select, Store, Raise, FailCheck, Crash, Goto, rowVars, SoleInv, IInv,
        TypeOK, Executing
  <2> QED
    BY <2>1, <2>2 DEF rowVars, OneAuditedOutcome
<1> QED
  BY <1>1, <1>2, <1>3

LEMMA SoleInvariance ==
    ASSUME SoleDispatcher
    PROVE  Spec => [](IInv /\ SoleInv /\ OneAuditedOutcome)
<1>1. Init => SoleInv /\ OneAuditedOutcome
  BY DEF Init, SoleInv, OneAuditedOutcome, Executing
<1>2. ASSUME IInv, SoleInv, OneAuditedOutcome, [Next]_vars
      PROVE  SoleInv' /\ OneAuditedOutcome'
  <2>1. CASE UNCHANGED vars
    BY <1>2, <2>1 DEF vars, rowVars, SoleInv, OneAuditedOutcome
  <2> QED
    BY <1>2, <2>1, SubmissionKeepsSole, ExpiryKeepsSole, OutcomeKeepsSole, PollKeepsSole
    DEF Next, Poll
<1>3. IInv /\ SoleInv /\ OneAuditedOutcome /\ [Next]_vars => (SoleInv /\ OneAuditedOutcome)'
  BY <1>2
<1> QED
  BY <1>1, <1>3, Invariance, PTL DEF Spec

\* With one dispatcher a job has one outcome and the audit trail names it once
\* (report_jobs.py:104, 123, 137).
THEOREM OutcomeAudited ==
    ASSUME SoleDispatcher
    PROVE  Spec => []OneAuditedOutcome
BY SoleInvariance, PTL

\* With one dispatcher the report queue implements the job lifecycle, however
\* often it crashes: an expiry is one Fail of all the overdue jobs.
THEOREM Refinement ==
    ASSUME SoleDispatcher
    PROVE  Spec => ImplementsLifecycle
<1>1. Init => Lifecycle!JobInit
  BY DEF Init, Lifecycle!JobInit
<1>2. ASSUME IInv, SoleInv, OneAuditedOutcome, [Next]_vars
      PROVE  [Lifecycle!JobNext]_(Lifecycle!jobVars)
  <2>1. ASSUME NEW j \in Jobs, Enqueue(j) PROVE Lifecycle!JobNext
    <3>1. Lifecycle!Submit(j)
      BY <1>2, <2>1 DEF Enqueue, Lifecycle!Submit, Lifecycle!Move, IInv, RowInv
    <3> QED
      BY <3>1 DEF Lifecycle!JobNext
  <2>2. ASSUME NEW d \in Dispatchers, ExpireCommit(d) PROVE Lifecycle!JobNext
    <3>1. loaded[d] \in SUBSET Jobs /\ \A j \in loaded[d] : status[j] = "RUNNING"
      BY <1>2 DEF IInv, TypeOK, SoleInv
    <3>2. Lifecycle!Fail(loaded[d])
      BY <2>2, <3>1 DEF ExpireCommit, ExpiredStatus, Lifecycle!Fail
    <3> QED
      BY <3>1, <3>2 DEF Lifecycle!JobNext
  <2>3. ASSUME NEW d \in Dispatchers, Claim(d), Claimable(job[d]) PROVE Lifecycle!JobNext
    <3>1. job[d] \in Jobs /\ Lifecycle!Claim(job[d])
      BY <1>2, <2>3 DEF Claim, Claimable, Lifecycle!Claim, Lifecycle!Move, IInv, HolderInv
    <3> QED
      BY <3>1 DEF Lifecycle!JobNext
  <2>4. ASSUME NEW d \in Dispatchers, Publish(d), Publishable(job[d], d) PROVE Lifecycle!JobNext
    <3>1. job[d] \in Jobs
      BY <1>2, <2>4, OutcomeKeepsSole
    <3>2. Lifecycle!Publish(job[d])
      BY <2>4 DEF Publish, Publishable, Lifecycle!Publish, Lifecycle!Move
    <3> QED
      BY <3>1, <3>2 DEF Lifecycle!JobNext
  <2>5. ASSUME NEW d \in Dispatchers, FailCommit(d) PROVE Lifecycle!JobNext
    <3>1. job[d] \in Jobs /\ status[job[d]] = "RUNNING"
      BY <1>2, <2>5, OutcomeKeepsSole
    <3>2. Lifecycle!Fail({job[d]})
      BY <1>2, <2>5, <3>1 DEF FailCommit, Lifecycle!Fail, IInv, TypeOK
    <3> QED
      BY <3>1, <3>2 DEF Lifecycle!JobNext
  <2>6. CASE UNCHANGED <<status, content>>
    BY <2>6 DEF Lifecycle!jobVars
  <2> QED
    BY <1>2, <2>1, <2>2, <2>3, <2>4, <2>5, <2>6
    DEF Next, vars, rowVars, Submission, CreateLock, CreateCount, CreateRejected, LeaseRunsOut,
        Download, Poll, Crash, ExpireSelect, Select, Claim, Store, Publish, Raise, FailCheck
<1>3. IInv /\ SoleInv /\ OneAuditedOutcome /\ [Next]_vars
      => [Lifecycle!JobNext]_(Lifecycle!jobVars)
  BY <1>2
<1> QED
  BY <1>1, <1>3, SoleInvariance, PTL DEF Spec, ImplementsLifecycle, Lifecycle!JobSpec
=============================================================================
