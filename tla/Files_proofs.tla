----------------------------- MODULE Files_proofs -----------------------------
(***************************************************************************)
(* Proofs about the two components that move files: Backups, for any sets  *)
(* of objects and bytes, and LocalAgent, for any folders, contents, stamps *)
(* and months.                                                             *)
(*                                                                         *)
(* An archive is one cut of both stores because every write of an object   *)
(* draws a new stamp: a bucket that equals the first listing has not been  *)
(* written since, so it was the same when the dump was taken (CutInv).     *)
(* What VERIFIED says rests on the order of the receipts: an attempt is    *)
(* later than the receipt from its start to its own receipt (ReceiptInv).  *)
(*                                                                         *)
(* The agent may die between a move and the commit that follows it, so its *)
(* invariant says what a committed row means wherever the process stands   *)
(* (RowSound): an archive is planned exactly while it is pending, and its  *)
(* file is at one of the two ends.  What the process itself holds between  *)
(* two steps is good as long as it lives (MovedInv, AnsweredInv,           *)
(* PlannedInv).  What others do to the server only makes its records more  *)
(* final (ServerGrows).                                                    *)
(***************************************************************************)
EXTENDS Backups, LocalAgent, FiniteSetTheorems, SequenceTheorems, TLAPS

(***************************************************************************)
(* Backups                                                                 *)
(***************************************************************************)
\* A bucket that still has the stamp of the listing has its bytes.
ListedInv ==
    job.phase \in {"listed", "dumped"} =>
        \A o \in Objects :
            /\ job.before[o].stamp <= bucket[o].stamp
            /\ bucket[o].stamp = job.before[o].stamp => bucket[o] = job.before[o]

CutInv ==
    /\ \A o \in Objects : bucket[o].stamp <= puts
    /\ ListedInv
    /\ job.phase = "dumped" => \A o \in Objects :
          /\ bucket[o].stamp = job.before[o].stamp => job.cut[o] = job.before[o].bytes
          /\ job.copied[o] # None => job.copied[o] = job.before[o].bytes
    /\ job.phase = "relisted" => job.copied = job.cut
    /\ job.phase \in {"none", "started", "listed"} => job.copied = NoCopy

ReceiptInv ==
    /\ job.phase # "none" \/ receipt # None => attempt # None
    /\ job.phase \in {"started", "listed", "dumped", "relisted", "linked"} => attempt.later
    /\ job.phase = "linked" =>
          Len(archives) > 0 /\ archives[Len(archives)].file = "intact"
    /\ job.phase = "receipted" => receipt # None /\ ~attempt.later
    /\ attempt # None /\ attempt.state = "VERIFIED" => receipt # None /\ ~attempt.later
    /\ attempt # None /\ ~attempt.later =>
          /\ receipt # None
          /\ receipt.archive = Len(archives)
          /\ job.phase \in {"none", "receipted"}

RestoreInv ==
    restored # None =>
        /\ restored.sha256 \in 1 .. Len(archives)
        /\ restored.refs = archives[restored.sha256].refs
        /\ restored.copied = archives[restored.sha256].copied

BackupInv ==
    /\ BackupTypeOK
    /\ CutInv
    /\ ReceiptInv
    /\ RestoreInv
    /\ ArchiveIsOneCut

-----------------------------------------------------------------------------
LEMMA BackupInvInit == BackupInit => BackupInv
<1> SUFFICES ASSUME BackupInit PROVE BackupInv
  OBVIOUS
<1>1. BackupTypeOK
  BY DEF BackupInit, BackupTypeOK, Job, NoJob, NoCopy, Stored, Copy, Phase
<1>2. CutInv
  BY DEF BackupInit, CutInv, ListedInv, NoJob
<1>3. ReceiptInv /\ RestoreInv /\ ArchiveIsOneCut
  BY DEF BackupInit, ReceiptInv, RestoreInv, ArchiveIsOneCut, NoJob
<1> QED
  BY <1>1, <1>2, <1>3 DEF BackupInv

(***************************************************************************)
(* The services write on.                                                  *)
(***************************************************************************)
LEMMA ByPutObject ==
    ASSUME BackupInv, NEW r \in Reference, PutObject(r)
    PROVE  BackupInv'
<1> USE DEF BackupInv
<1>1. /\ puts' = puts + 1 /\ puts \in Nat
      /\ bucket' = [bucket EXCEPT ![r.key] = [bytes |-> r.bytes, stamp |-> puts + 1]]
      /\ r.key \in Objects /\ r.bytes \in Bytes /\ bucket \in [Objects -> Stored]
      /\ UNCHANGED <<rows, job, started, attempt, receipt, archives, restored>>
      /\ writing' = writing \cup {r}
  BY DEF PutObject, BackupTypeOK, Reference, receipts
<1>2. BackupTypeOK'
  <2>1. bucket' \in [Objects -> Stored]
    BY <1>1 DEF Stored
  <2> QED
    BY <1>1, <2>1 DEF BackupTypeOK
<1>3. CutInv'
  <2>1. \A o \in Objects : bucket[o].stamp \in Nat /\ bucket[o].stamp <= puts
    BY <1>1 DEF CutInv, Stored
  <2>2. job \in Job
    BY DEF BackupTypeOK
  <2>3. \A o \in Objects : job.before[o].stamp \in Nat
    BY <2>2 DEF Job, Stored
  <2>4. \A o \in Objects : /\ bucket'[o].stamp = IF o = r.key THEN puts + 1 ELSE bucket[o].stamp
                           /\ o # r.key => bucket'[o] = bucket[o]
    BY <1>1
  <2>5. \A o \in Objects : bucket'[o].stamp <= puts'
    BY <1>1, <2>1, <2>4
  <2>6. ListedInv'
    BY <1>1, <2>1, <2>3, <2>4 DEF CutInv, ListedInv
  <2>7. ASSUME job.phase = "dumped", NEW o \in Objects, bucket'[o].stamp = job.before[o].stamp
        PROVE  bucket[o].stamp = job.before[o].stamp
    <3>1. job.before[o].stamp <= puts
      BY <1>1, <2>1, <2>3, <2>7 DEF CutInv, ListedInv
    <3>2. o # r.key
      BY <1>1, <2>3, <2>4, <2>7, <3>1
    <3> QED
      BY <2>4, <2>7, <3>2
  <2> QED
    BY <1>1, <2>5, <2>6, <2>7 DEF CutInv
<1>4. ReceiptInv' /\ RestoreInv' /\ ArchiveIsOneCut'
  BY <1>1 DEF ReceiptInv, RestoreInv, ArchiveIsOneCut
<1> QED
  BY <1>2, <1>3, <1>4

LEMMA ByEndWrite ==
    ASSUME BackupInv, NEW r \in Reference, EndWrite(r)
    PROVE  BackupInv'
<1> USE DEF BackupInv
<1>1. /\ UNCHANGED <<bucket, puts, job, started, attempt, receipt, archives, restored>>
      /\ writing' \subseteq writing
      /\ rows' \subseteq rows \cup {r}
  BY DEF EndWrite, receipts
<1>2. BackupTypeOK'
  BY <1>1 DEF BackupTypeOK
<1>3. CutInv' /\ ReceiptInv' /\ RestoreInv' /\ ArchiveIsOneCut'
  BY <1>1 DEF CutInv, ListedInv, ReceiptInv, RestoreInv, ArchiveIsOneCut
<1> QED
  BY <1>2, <1>3

(***************************************************************************)
(* The steps of a backup.                                                  *)
(***************************************************************************)
LEMMA ByBackupStart ==
    ASSUME BackupInv, BackupStart
    PROVE  BackupInv'
<1> USE DEF BackupInv
<1>1. /\ UNCHANGED <<bucket, puts, rows, writing, receipt, archives, restored>>
      /\ started' = started + 1
      /\ job.phase = "none" /\ job \in Job
      /\ job' = [job EXCEPT !.phase = "started"]
      /\ attempt' = [state |-> "RUNNING", later |-> TRUE]
  BY DEF BackupStart, Attempts, Goes, services, BackupTypeOK
<1>2. job' \in Job /\ job'.phase = "started" /\ job'.copied = job.copied
  BY <1>1 DEF Job, Phase
<1>3. attempt' \in Attempt /\ attempt'.later /\ attempt'.state = "RUNNING"
  BY <1>1 DEF Attempt
<1>4. attempt' # None
  BY <1>3, BackupAssumption
<1>5. BackupTypeOK'
  <2>1. started' \in Nat
    BY <1>1 DEF BackupTypeOK
  <2> QED
    BY <1>1, <1>2, <1>3, <2>1 DEF BackupTypeOK
<1>6. CutInv'
  BY <1>1, <1>2 DEF CutInv, ListedInv
<1>7. ReceiptInv' /\ RestoreInv' /\ ArchiveIsOneCut'
  BY <1>1, <1>2, <1>3, <1>4 DEF ReceiptInv, RestoreInv, ArchiveIsOneCut
<1> QED
  BY <1>5, <1>6, <1>7

\* Between the start and the receipts a step changes the job alone.
AtWork == {"started", "listed", "dumped", "relisted"}

LEMMA ByWork ==
    ASSUME BackupInv, job.phase \in AtWork, job'.phase \in AtWork, job' \in Job, CutInv',
           UNCHANGED <<bucket, puts, rows, writing, started, attempt, receipt, archives, restored>>
    PROVE  BackupInv'
<1> USE DEF BackupInv
<1>1. BackupTypeOK'
  BY DEF BackupTypeOK
<1>2. ReceiptInv' /\ RestoreInv' /\ ArchiveIsOneCut'
  BY DEF ReceiptInv, RestoreInv, ArchiveIsOneCut, AtWork
<1> QED
  BY <1>1, <1>2

LEMMA ByBackupList ==
    ASSUME BackupInv, BackupList
    PROVE  BackupInv'
<1>1. /\ UNCHANGED <<bucket, puts, rows, writing, started, attempt, receipt, archives, restored>>
      /\ job.phase = "started" /\ job \in Job /\ bucket \in [Objects -> Stored]
      /\ job' = [job EXCEPT !.phase = "listed", !.before = bucket]
  BY DEF BackupInv, BackupList, services, receipts, BackupTypeOK
<1>2. /\ job' \in Job /\ job'.phase = "listed"
      /\ job'.copied = job.copied /\ job'.before = bucket
  BY <1>1 DEF Job, Phase
<1>3. CutInv'
  <2>1. \A o \in Objects : bucket[o].stamp \in Nat
    BY <1>1 DEF Stored
  <2>2. ListedInv'
    BY <1>1, <1>2, <2>1 DEF ListedInv
  <2> QED
    BY <1>1, <1>2, <2>2 DEF BackupInv, CutInv
<1> QED
  BY <1>1, <1>2, <1>3, ByWork DEF AtWork

LEMMA ByBackupDump ==
    ASSUME BackupInv, BackupDump
    PROVE  BackupInv'
<1>1. /\ UNCHANGED <<bucket, puts, rows, writing, started, attempt, receipt, archives, restored>>
      /\ job.phase = "listed" /\ job \in Job /\ bucket \in [Objects -> Stored]
      /\ rows \subseteq Reference
      /\ job' = [job EXCEPT !.phase = "dumped", !.refs = rows, !.cut = BytesOf(bucket)]
  BY DEF BackupInv, BackupDump, services, receipts, BackupTypeOK
<1>2. BytesOf(bucket) \in Copy /\ \A o \in Objects : BytesOf(bucket)[o] = bucket[o].bytes
  BY <1>1 DEF BytesOf, Copy, Stored
<1>3. /\ job' \in Job /\ job'.phase = "dumped" /\ job'.copied = job.copied
      /\ job'.before = job.before /\ job'.cut = BytesOf(bucket)
  BY <1>1, <1>2 DEF Job, Phase
<1>4. CutInv'
  <2>1. ListedInv'
    BY <1>1, <1>3 DEF BackupInv, CutInv, ListedInv
  <2>2. \A o \in Objects : job.copied[o] = None
    BY <1>1 DEF BackupInv, CutInv, NoCopy
  <2>3. \A o \in Objects : bucket[o].stamp = job.before[o].stamp => bucket[o] = job.before[o]
    BY <1>1 DEF BackupInv, CutInv, ListedInv
  <2>4. \A o \in Objects : bucket[o].stamp <= puts
    BY DEF BackupInv, CutInv
  <2> QED
    BY <1>1, <1>2, <1>3, <2>1, <2>2, <2>3, <2>4 DEF CutInv
<1> QED
  BY <1>1, <1>3, <1>4, ByWork DEF AtWork

LEMMA ByBackupCopy ==
    ASSUME BackupInv, NEW o \in Objects, BackupCopy(o)
    PROVE  BackupInv'
<1>1. /\ UNCHANGED <<bucket, puts, rows, writing, started, attempt, receipt, archives, restored>>
      /\ job.phase = "dumped" /\ job \in Job /\ bucket \in [Objects -> Stored]
      /\ bucket[o].bytes = job.before[o].bytes
      /\ job' = [job EXCEPT !.copied[o] = bucket[o].bytes]
  BY DEF BackupInv, BackupCopy, SameVersion, services, receipts, BackupTypeOK
<1>2. bucket[o].bytes \in Bytes \cup {None} /\ job.copied \in [Objects -> Bytes \cup {None}]
  BY <1>1 DEF Stored, Job, Copy
<1>3. /\ job'.phase = "dumped" /\ job'.before = job.before
      /\ job'.cut = job.cut /\ job'.copied = [job.copied EXCEPT ![o] = bucket[o].bytes]
  BY <1>1 DEF Job
<1>4. job' \in Job
  <2>1. [job.copied EXCEPT ![o] = bucket[o].bytes] \in Copy
    BY <1>2 DEF Copy
  <2> QED
    BY <1>1, <2>1 DEF Job
<1>5. CutInv'
  <2>1. ListedInv'
    BY <1>1, <1>3 DEF BackupInv, CutInv, ListedInv
  <2>2. \A p \in Objects : job'.copied[p] # None => job'.copied[p] = job.before[p].bytes
    BY <1>1, <1>2, <1>3 DEF BackupInv, CutInv
  <2> QED
    BY <1>1, <1>3, <2>1, <2>2 DEF BackupInv, CutInv
<1> QED
  BY <1>1, <1>3, <1>4, <1>5, ByWork DEF AtWork

\* The bucket equals the first listing: it was not written when the dump was taken.
LEMMA ByBackupRelist ==
    ASSUME BackupInv, BackupRelist
    PROVE  BackupInv'
<1>1. /\ UNCHANGED <<bucket, puts, rows, writing, started, attempt, receipt, archives, restored>>
      /\ job.phase = "dumped" /\ job \in Job /\ bucket = job.before
      /\ Present(job.before) = {o \in Objects : job.copied[o] # None}
      /\ job' = [job EXCEPT !.phase = "relisted"]
  BY DEF BackupInv, BackupRelist, SameInventory, Goes, services, receipts, BackupTypeOK
<1>2. /\ job' \in Job /\ job'.phase = "relisted"
      /\ job'.copied = job.copied /\ job'.cut = job.cut
  BY <1>1 DEF Job, Phase
<1>3. job.copied = job.cut
  <2>1. job.copied \in Copy /\ job.cut \in Copy
    BY <1>1 DEF Job
  <2>2. ASSUME NEW o \in Objects PROVE job.copied[o] = job.cut[o]
    <3>1. job.cut[o] = job.before[o].bytes
      BY <1>1 DEF BackupInv, CutInv
    <3>2. CASE job.copied[o] # None
      BY <1>1, <3>1, <3>2 DEF BackupInv, CutInv
    <3>3. CASE job.copied[o] = None
      BY <1>1, <3>1, <3>3 DEF Present
    <3> QED
      BY <3>2, <3>3
  <2> QED
    BY <2>1, <2>2 DEF Copy
<1>4. CutInv'
  BY <1>1, <1>2, <1>3 DEF BackupInv, CutInv, ListedInv
<1> QED
  BY <1>1, <1>2, <1>4, ByWork DEF AtWork

-----------------------------------------------------------------------------
(***************************************************************************)
(* The end of a backup: its name, its receipts, or its failure.            *)
(***************************************************************************)
LEMMA ByBackupLink ==
    ASSUME BackupInv, BackupLink
    PROVE  BackupInv'
<1> DEFINE a == [refs |-> job.refs, cut |-> job.cut, copied |-> job.copied, file |-> "intact"]
<1>1. /\ UNCHANGED <<bucket, puts, rows, writing, started, attempt, receipt, restored>>
      /\ job.phase = "relisted" /\ job \in Job /\ archives \in Seq(Archive)
      /\ \A r \in job.refs : job.copied[r.key] = r.bytes
      /\ archives' = Append(archives, a)
      /\ job' = [job EXCEPT !.phase = "linked"]
  BY DEF BackupInv, BackupLink, ReferencesMatch, Goes, services, BackupTypeOK
<1>2. job' \in Job /\ job'.phase = "linked"
  BY <1>1 DEF Job, Phase
<1>3. /\ a \in Archive /\ a.copied = a.cut /\ a.file = "intact"
      /\ \A r \in a.refs : a.copied[r.key] = r.bytes
  BY <1>1 DEF Job, Archive, BackupInv, CutInv
<1> HIDE DEF a
<1>4. /\ archives' \in Seq(Archive) /\ Len(archives') = Len(archives) + 1
      /\ Len(archives) \in Nat
      /\ archives'[Len(archives')] = a
      /\ \A i \in 1 .. Len(archives) : archives'[i] = archives[i]
  BY <1>1, <1>3, AppendProperties
<1>5. BackupTypeOK'
  <2>1. receipt # None => receipt.archive \in 1 .. Len(archives')
    BY <1>4 DEF BackupInv, BackupTypeOK
  <2> QED
    BY <1>1, <1>2, <1>4, <2>1 DEF BackupInv, BackupTypeOK
<1>6. CutInv'
  BY <1>1, <1>2 DEF BackupInv, CutInv, ListedInv
<1>7. ReceiptInv'
  BY <1>1, <1>2, <1>3, <1>4 DEF BackupInv, ReceiptInv
<1>8. RestoreInv'
  BY <1>1, <1>4 DEF BackupInv, RestoreInv
<1>9. ArchiveIsOneCut'
  <2> SUFFICES ASSUME NEW i \in 1 .. Len(archives')
               PROVE  /\ archives'[i].copied = archives'[i].cut
                      /\ \A r \in archives'[i].refs : archives'[i].copied[r.key] = r.bytes
    BY DEF ArchiveIsOneCut
  <2>1. CASE i \in 1 .. Len(archives)
    BY <1>4, <2>1 DEF BackupInv, ArchiveIsOneCut
  <2>2. CASE i = Len(archives')
    BY <1>3, <1>4, <2>2
  <2> QED
    BY <1>4, <2>1, <2>2
<1> QED
  BY <1>5, <1>6, <1>7, <1>8, <1>9 DEF BackupInv

\* What the end of a backup leaves as it is.
LEMMA ByReceipts ==
    ASSUME BackupInv, UNCHANGED <<bucket, puts, rows, writing, started, archives, restored>>,
           job' \in Job, job'.phase \in {"none", "receipted"},
           job'.phase = "none" => job'.copied = NoCopy,
           attempt' \in Attempt \cup {None}, receipt' \in Receipt \cup {None},
           receipt' # None => receipt'.archive \in 1 .. Len(archives),
           ReceiptInv'
    PROVE  BackupInv'
<1>1. BackupTypeOK'
  BY DEF BackupInv, BackupTypeOK
<1>2. CutInv'
  BY DEF BackupInv, CutInv, ListedInv
<1>3. RestoreInv' /\ ArchiveIsOneCut'
  BY DEF BackupInv, RestoreInv, ArchiveIsOneCut
<1> QED
  BY <1>1, <1>2, <1>3 DEF BackupInv

LEMMA ByBackupReceipt ==
    ASSUME BackupInv, BackupReceipt
    PROVE  BackupInv'
<1>1. /\ UNCHANGED <<bucket, puts, rows, writing, started, archives, restored>>
      /\ job.phase = "linked" /\ job \in Job /\ archives \in Seq(Archive)
      /\ attempt \in Attempt \cup {None} /\ attempt # None
      /\ Len(archives) > 0
      /\ receipt' = [archive |-> Len(archives), stale |-> FALSE]
      /\ attempt' = [attempt EXCEPT !.later = FALSE]
      /\ job' = [job EXCEPT !.phase = "receipted"]
  BY DEF BackupInv, BackupReceipt, Goes, services, BackupTypeOK, ReceiptInv
<1>2. job' \in Job /\ job'.phase = "receipted"
  BY <1>1 DEF Job, Phase
<1>3. attempt' \in Attempt /\ ~attempt'.later
  BY <1>1 DEF Attempt
<1>4. /\ Len(archives) \in 1 .. Len(archives)
      /\ receipt' \in Receipt /\ receipt'.archive = Len(archives)
  BY <1>1, LenProperties DEF Receipt
<1>5. attempt' # None /\ receipt' # None
  BY <1>3, <1>4, BackupAssumption
<1>6. ReceiptInv'
  BY <1>1, <1>2, <1>3, <1>4, <1>5 DEF ReceiptInv
<1> QED
  BY <1>1, <1>2, <1>3, <1>4, <1>6, ByReceipts

LEMMA NoJobIsOne == NoJob \in Job /\ NoJob.phase = "none" /\ NoJob.copied = NoCopy
BY DEF NoJob, Job, NoCopy, Phase, Stored, Copy

LEMMA ByBackupDone ==
    ASSUME BackupInv, BackupDone
    PROVE  BackupInv'
<1>1. /\ UNCHANGED <<bucket, puts, rows, writing, started, receipt, archives, restored>>
      /\ job.phase = "receipted"
      /\ attempt \in Attempt \cup {None} /\ attempt # None
      /\ receipt \in Receipt \cup {None}
      /\ receipt # None => receipt.archive \in 1 .. Len(archives)
      /\ attempt' = [attempt EXCEPT !.state = "VERIFIED"]
      /\ job' = NoJob
  BY DEF BackupInv, BackupDone, services, BackupTypeOK, ReceiptInv
<1>2. attempt' \in Attempt /\ attempt'.later = attempt.later
  BY <1>1 DEF Attempt
<1>3. attempt' # None
  BY <1>2, BackupAssumption
<1>4. ReceiptInv'
  BY <1>1, <1>2, <1>3, NoJobIsOne DEF BackupInv, ReceiptInv
<1> QED
  BY <1>1, <1>2, <1>4, NoJobIsOne, ByReceipts

LEMMA ByBackupFail ==
    ASSUME BackupInv, BackupFail
    PROVE  BackupInv'
<1>1. /\ UNCHANGED <<bucket, puts, rows, writing, started, receipt, archives, restored>>
      /\ job \in Job /\ job.phase \notin {"none", "receipted"}
      /\ attempt \in Attempt \cup {None} /\ attempt # None
      /\ receipt \in Receipt \cup {None}
      /\ receipt # None => receipt.archive \in 1 .. Len(archives)
      /\ attempt' = [attempt EXCEPT !.state = "FAILED"]
      /\ job' = NoJob
  BY DEF BackupInv, BackupFail, services, BackupTypeOK, ReceiptInv
<1>2. attempt' \in Attempt /\ attempt'.later = attempt.later /\ attempt'.state = "FAILED"
  BY <1>1 DEF Attempt
<1>3. attempt.later
  BY <1>1 DEF BackupInv, ReceiptInv, Job, Phase
<1>4. attempt' # None
  BY <1>2, BackupAssumption
<1>5. ReceiptInv'
  BY <1>1, <1>2, <1>3, <1>4, NoJobIsOne DEF BackupInv, ReceiptInv
<1> QED
  BY <1>1, <1>2, <1>5, NoJobIsOne, ByReceipts

LEMMA ByBackupCrash ==
    ASSUME BackupInv, BackupCrash
    PROVE  BackupInv'
<1>1. /\ UNCHANGED <<bucket, puts, rows, writing, started, attempt, receipt, archives, restored>>
      /\ attempt \in Attempt \cup {None} /\ receipt \in Receipt \cup {None}
      /\ receipt # None => receipt.archive \in 1 .. Len(archives)
      /\ job' = NoJob
  BY DEF BackupInv, BackupCrash, services, receipts, BackupTypeOK
<1>2. ReceiptInv'
  BY <1>1, NoJobIsOne DEF BackupInv, ReceiptInv
<1> QED
  BY <1>1, <1>2, NoJobIsOne, ByReceipts

-----------------------------------------------------------------------------
(***************************************************************************)
(* Restores, the operator, the calendar.                                   *)
(***************************************************************************)
LEMMA ByRestoreTest ==
    ASSUME BackupInv, NEW a \in 1 .. Len(archives), NEW sha256 \in 1 .. Len(archives),
           RestoreTest(a, sha256)
    PROVE  BackupInv'
<1>1. /\ UNCHANGED <<bucket, puts, rows, writing, job, started, attempt, receipt, archives>>
      /\ archives \in Seq(Archive) /\ a = sha256
      /\ restored' = [refs |-> archives[a].refs, copied |-> archives[a].copied,
                      sha256 |-> sha256]
  BY DEF BackupInv, RestoreTest, HashAgrees, services, BackupTypeOK
<1>2. restored' \in Restored
  <2>1. archives[a] \in Archive /\ sha256 \in Nat
    BY <1>1, ElementOfSeq, LenProperties
  <2> QED
    BY <1>1, <2>1 DEF Archive, Restored
<1>3. BackupTypeOK'
  BY <1>1, <1>2 DEF BackupInv, BackupTypeOK
<1>4. RestoreInv'
  BY <1>1 DEF RestoreInv
<1>5. CutInv' /\ ReceiptInv' /\ ArchiveIsOneCut'
  BY <1>1 DEF BackupInv, CutInv, ListedInv, ReceiptInv, ArchiveIsOneCut
<1> QED
  BY <1>3, <1>4, <1>5 DEF BackupInv

LEMMA ByOperatorTouches ==
    ASSUME BackupInv, NEW a \in 1 .. Len(archives), OperatorTouches(a)
    PROVE  BackupInv'
<1>1. /\ UNCHANGED <<bucket, puts, rows, writing, job, started, attempt, receipt, restored>>
      /\ job.phase # "linked" /\ archives \in Seq(Archive)
  BY DEF BackupInv, OperatorTouches, services, BackupTypeOK
<1>2. PICK file \in {"edited", "removed"} : archives' = [archives EXCEPT ![a].file = file]
  BY DEF OperatorTouches
<1>3. \A i \in 1 .. Len(archives) : archives[i] \in Archive
  BY <1>1, ElementOfSeq
<1>4. [archives[a] EXCEPT !.file = file] \in Archive
  BY <1>3 DEF Archive
<1>5. archives' = [archives EXCEPT ![a] = [archives[a] EXCEPT !.file = file]]
  BY <1>2
<1>6. archives' \in Seq(Archive) /\ Len(archives') = Len(archives)
  BY <1>1, <1>4, <1>5, ExceptSeq
<1>7. \A i \in 1 .. Len(archives) :
          /\ archives'[i].refs = archives[i].refs
          /\ archives'[i].cut = archives[i].cut
          /\ archives'[i].copied = archives[i].copied
  <2>1. /\ archives'[a] = [archives[a] EXCEPT !.file = file]
        /\ \A i \in 1 .. Len(archives) : i # a => archives'[i] = archives[i]
    BY <1>1, <1>4, <1>5, ExceptSeq
  <2> QED
    BY <1>3, <2>1 DEF Archive
<1>8. BackupTypeOK'
  BY <1>1, <1>6 DEF BackupInv, BackupTypeOK
<1>9. CutInv' /\ ReceiptInv'
  BY <1>1, <1>6 DEF BackupInv, CutInv, ListedInv, ReceiptInv
<1>10. RestoreInv' /\ ArchiveIsOneCut'
  BY <1>1, <1>6, <1>7 DEF BackupInv, RestoreInv, ArchiveIsOneCut
<1> QED
  BY <1>8, <1>9, <1>10 DEF BackupInv

LEMMA ByDayPasses ==
    ASSUME BackupInv, DayPasses
    PROVE  BackupInv'
<1>1. /\ UNCHANGED <<bucket, puts, rows, writing, job, started, attempt, archives, restored>>
      /\ receipt # None /\ receipt \in Receipt \cup {None}
      /\ receipt' = [receipt EXCEPT !.stale = TRUE]
  BY DEF BackupInv, DayPasses, services, BackupTypeOK
<1>2. receipt' \in Receipt /\ receipt'.archive = receipt.archive
  BY <1>1 DEF Receipt
<1>3. receipt' # None
  BY <1>2, BackupAssumption
<1>4. BackupTypeOK'
  BY <1>1, <1>2 DEF BackupInv, BackupTypeOK
<1>5. ReceiptInv'
  BY <1>1, <1>2, <1>3 DEF BackupInv, ReceiptInv
<1>6. CutInv' /\ RestoreInv' /\ ArchiveIsOneCut'
  BY <1>1 DEF BackupInv, CutInv, ListedInv, RestoreInv, ArchiveIsOneCut
<1> QED
  BY <1>4, <1>5, <1>6 DEF BackupInv

LEMMA BackupUnchanged ==
    ASSUME BackupInv, UNCHANGED backupVars
    PROVE  BackupInv'
BY DEF BackupInv, backupVars, BackupTypeOK, CutInv, ListedInv, ReceiptInv, RestoreInv, ArchiveIsOneCut

LEMMA BackupInvStep == BackupInv /\ [BackupNext]_backupVars => BackupInv'
<1> SUFFICES ASSUME BackupInv, [BackupNext]_backupVars PROVE BackupInv'
  OBVIOUS
<1>1. CASE BackupNext
  BY <1>1, ByPutObject, ByEndWrite, ByBackupStart, ByBackupList, ByBackupDump, ByBackupCopy,
     ByBackupRelist, ByBackupLink, ByBackupReceipt, ByBackupDone, ByBackupFail, ByBackupCrash,
     ByRestoreTest, ByOperatorTouches, ByDayPasses
     DEF BackupNext
<1>2. CASE UNCHANGED backupVars
  BY <1>2, BackupUnchanged
<1> QED
  BY <1>1, <1>2

-----------------------------------------------------------------------------
LEMMA BackupInvariant == BackupSpec => []BackupInv
BY BackupInvInit, BackupInvStep, PTL DEF BackupSpec

LEMMA BackupInvImplies == BackupInv => BackupsAreTrue
<1> SUFFICES ASSUME BackupInv PROVE BackupsAreTrue
  OBVIOUS
<1>1. ArchiveIsOneCut
  BY DEF BackupInv
<1>2. RestoredIsTheCut
  BY DEF BackupInv, RestoreInv, RestoredIsTheCut, ArchiveIsOneCut
<1>3. VerifiedIsLatest
  <2> SUFFICES ASSUME BackupHealth = "VERIFIED"
               PROVE  /\ archives[receipt.archive].file = "intact"
                      /\ receipt.archive = Len(archives)
                      /\ job.phase \in {"none", "receipted"}
    BY DEF VerifiedIsLatest
  <2>1. /\ receipt # None
        /\ archives[receipt.archive].file = "intact"
        /\ ~(attempt.state # "VERIFIED" /\ attempt.later)
    BY DEF BackupHealth, BackupInv, ReceiptInv
  <2>2. attempt # None /\ attempt \in Attempt \cup {None}
    BY <2>1 DEF BackupInv, ReceiptInv, BackupTypeOK
  <2>3. ~attempt.later
    BY <2>1, <2>2 DEF BackupInv, ReceiptInv
  <2> QED
    BY <2>1, <2>2, <2>3 DEF BackupInv, ReceiptInv
<1> QED
  BY <1>1, <1>2, <1>3 DEF BackupsAreTrue

(***************************************************************************)
(* However the services, the backup, its failures and the operator         *)
(* interleave, the stores and the receipts hold what they may hold         *)
(* (managed_backup.py).                                                    *)
(***************************************************************************)
THEOREM BackupTypeCorrect == BackupSpec => []BackupTypeOK
<1>1. BackupInv => BackupTypeOK
  BY DEF BackupInv
<1> QED
  BY <1>1, BackupInvariant, PTL

(***************************************************************************)
(* Archives are one cut of both stores, VERIFIED is the latest of them as  *)
(* it was written, and a restore brings back the cut that was trusted      *)
(* (managed_backup.py create_backup and restore_test, backup_health.py).   *)
(***************************************************************************)
THEOREM BackupsTruthful == BackupSpec => []BackupsAreTrue
BY BackupInvariant, BackupInvImplies, PTL

-----------------------------------------------------------------------------
(***************************************************************************)
(* LocalAgent                                                              *)
(***************************************************************************)
\* A duplicate has an original, which is no failed upload of this agent.
Duplicated(c) == server[c] # None /\ (server[c] = "UPLOAD_FAILED" => c \notin ours)
\* What became of a file that is archived in a folder, or shall be.
Fits(dir, s) ==
    /\ dir = "processed" => s \in {"IMPORTED", "ARCHIVED"}
    /\ dir = "rejected" => s = "REJECTED"
    /\ dir \notin {"processed", "rejected"} => s \in {"QUARANTINED", "REJECTED"}

RowSound(p) ==
    LET row == queue[p] IN
    /\ p \notin Inbox
    /\ p \in ArchivedPaths <=> row.state = "LOCAL_ARCHIVED"
    /\ row.archive \in ArchivedPaths \cup {None}
    /\ row.archive # None <=> row.state = "ARCHIVE_PENDING"
    /\ row.state \in {"ARCHIVE_PENDING", "LOCAL_ARCHIVED"} => row.file # None
    /\ row.file = "duplicate" => Duplicated(row.hash)
    /\ row.archive # None =>
          /\ row.hash \in {disk[p], disk[row.archive]}
          /\ row.file = "original" => Fits(row.archive.dir, server[row.hash])
    /\ row.state = "LOCAL_ARCHIVED" =>
          /\ disk[p] = row.hash
          /\ row.file = "original" => Fits(p.dir, server[row.hash]) /\ server[row.hash] # "IMPORTED"

RowsInv == \A p \in Path : Tracked(p) => RowSound(p)

AnsweredInv ==
    agent \in {"answered", "reviewed"} =>
        /\ step.path \in Path /\ Tracked(step.path)
        /\ queue[step.path].state = "QUEUED"
        /\ step.item \in Terminal \cup {"MAPPING_REQUIRED"}
        /\ step.file \in {"original", "duplicate"}
        /\ step.file = "duplicate" => Duplicated(queue[step.path].hash)
        /\ agent = "answered" => disk[step.path] = queue[step.path].hash
        /\ agent = "reviewed" => step.target \in Review /\ step.item = "MAPPING_REQUIRED"

PlannedInv ==
    agent \in {"planned", "placed", "acknowledged"} =>
        /\ step.path \in Path /\ Tracked(step.path)
        /\ queue[step.path].archive = step.target /\ step.target # None
        /\ step.item = "IMPORTED" =>
              server[queue[step.path].hash] \in {"IMPORTED", "ARCHIVED"}
        /\ queue[step.path].file = "original" /\ step.item # "IMPORTED" =>
              server[queue[step.path].hash] # "IMPORTED"
        /\ agent \in {"placed", "acknowledged"} => disk[step.target] = queue[step.path].hash
        /\ agent = "acknowledged" /\ queue[step.path].file = "original" =>
              server[queue[step.path].hash] # "IMPORTED"

MovedInv == agent = "moved" => step.path \in Processing /\ Here(step.path)

AgentInv == AgentTypeOK /\ RowsInv /\ MovedInv /\ AnsweredInv /\ PlannedInv

-----------------------------------------------------------------------------
\* The folders of the inbox, and the paths in each.
LEMMA Folder ==
    /\ Processing \subseteq Path /\ Review \subseteq Path /\ ArchivedPaths \subseteq Path
    /\ Inbox \subseteq Path
    /\ \A p \in Inbox : p.dir = "inbox"
    /\ \A p \in Processing : p.dir = "processing"
    /\ \A p \in Review : p.dir = "review"
    /\ \A p \in ArchivedPaths : p.dir \in {"processed", "rejected", "quarantine"}
    /\ \A p \in Path \ Inbox : p.key \in Keys
    /\ \A k \in Keys : At("processing", 0, k) \in Processing /\ At("review", 0, k) \in Review
<1>1. /\ Processing \subseteq Path /\ Review \subseteq Path /\ ArchivedPaths \subseteq Path
      /\ Inbox \subseteq Path
  BY DEF Path
<1>2. \A p \in Inbox : p.dir = "inbox"
  BY DEF Inbox, At
<1>3. \A p \in Processing : p.dir = "processing" /\ p.key \in Keys
  BY DEF Processing, At
<1>4. \A p \in Review : p.dir = "review" /\ p.key \in Keys
  BY DEF Review, At
<1>5. \A p \in ArchivedPaths : p.dir \in {"processed", "rejected", "quarantine"} /\ p.key \in Keys
  BY DEF ArchivedPaths, At
<1>6. \A k \in Keys : At("processing", 0, k) \in Processing /\ At("review", 0, k) \in Review
  BY DEF Processing, Review
<1> QED
  BY <1>1, <1>2, <1>3, <1>4, <1>5, <1>6 DEF Path

\* No path is in two of the folders.
LEMMA Apart ==
    /\ Inbox \cap Processing = {} /\ Inbox \cap Review = {} /\ Inbox \cap ArchivedPaths = {}
    /\ Processing \cap ArchivedPaths = {} /\ Review \cap ArchivedPaths = {}
BY Folder

\* Where an archive is planned.
LEMMA Planned ==
    ASSUME NEW item, NEW k \in Keys, month \in 1 .. Months
    PROVE  /\ ArchiveDir(item, k) \in ArchivedPaths
           /\ ArchiveDir(item, k).dir = CASE item = "QUARANTINED" -> "quarantine"
                                         [] item = "REJECTED" -> "rejected"
                                         [] OTHER -> "processed"
<1>1. /\ At("quarantine", 0, k) \in ArchivedPaths /\ At("rejected", 0, k) \in ArchivedPaths
      /\ At("processed", month, k) \in ArchivedPaths
  BY DEF ArchivedPaths
<1>2. CASE item = "QUARANTINED"
  BY <1>1, <1>2 DEF ArchiveDir, At
<1>3. CASE item = "REJECTED"
  BY <1>1, <1>3 DEF ArchiveDir, At
<1>4. CASE item \notin {"QUARANTINED", "REJECTED"}
  BY <1>1, <1>4 DEF ArchiveDir, At
<1> QED
  BY <1>2, <1>3, <1>4

\* What the server knows of a content only becomes more final.
ServerGrows ==
    \A c \in Contents :
        /\ Duplicated(c) => Duplicated(c)'
        /\ server[c] \in {"IMPORTED", "ARCHIVED"} => server'[c] \in {"IMPORTED", "ARCHIVED"}
        /\ server[c] = "ARCHIVED" => server'[c] = "ARCHIVED"
        /\ server[c] = "REJECTED" => server'[c] = "REJECTED"
        /\ server[c] \in {"QUARANTINED", "REJECTED"} => server'[c] \in {"QUARANTINED", "REJECTED"}

\* Archived files stay where they are.
ArchivedStay == \A q \in ArchivedPaths : Here(q) => disk'[q] = disk[q]

\* A row of the queue.
LEMMA RowType ==
    ASSUME AgentTypeOK, NEW p \in Path, Tracked(p)
    PROVE  /\ queue[p] \in Row /\ queue[p].hash \in Contents /\ queue[p].hash # None
           /\ queue[p].archive \in Path \cup {None}
BY AgentAssumption DEF AgentTypeOK, Tracked, Row

\* A row that did not change is as sound as before.
LEMMA RowStays ==
    ASSUME AgentTypeOK, NEW p \in Path, Tracked(p), RowSound(p), queue'[p] = queue[p],
           ServerGrows, ArchivedStay,
           queue[p].archive # None /\ disk[p] = queue[p].hash
              => queue[p].hash \in {disk'[p], disk'[queue[p].archive]}
    PROVE  RowSound(p)'
<1> DEFINE row == queue[p]
<1>1. row.hash \in Contents /\ row.hash # None
  BY RowType
<1>2. row.file = "duplicate" => Duplicated(row.hash)'
  BY <1>1 DEF RowSound, ServerGrows
<1>3. \A dir : Fits(dir, server[row.hash]) => Fits(dir, server'[row.hash])
  BY <1>1 DEF ServerGrows, Fits
<1>4. \A dir : Fits(dir, server[row.hash]) /\ server[row.hash] # "IMPORTED"
                  => server'[row.hash] # "IMPORTED"
  BY <1>1 DEF ServerGrows, Fits
<1>5. row.archive # None => row.hash \in {disk'[p], disk'[row.archive]}
  BY <1>1 DEF RowSound, ArchivedStay, Here
<1>6. row.state = "LOCAL_ARCHIVED" => disk'[p] = row.hash
  BY <1>1 DEF RowSound, ArchivedStay, Here
<1> QED
  BY <1>2, <1>3, <1>4, <1>5, <1>6 DEF RowSound

-----------------------------------------------------------------------------
\* A step that leaves the table and the files as they are, or adds to the inbox only.
LEMMA QuietRows ==
    ASSUME AgentInv, queue' = queue, ServerGrows, \A q \in Path \ Inbox : disk'[q] = disk[q]
    PROVE  RowsInv'
<1> SUFFICES ASSUME NEW p \in Path, Tracked(p) PROVE RowSound(p)'
  BY DEF RowsInv, Tracked
<1>1. RowSound(p) /\ p \notin Inbox
  BY DEF AgentInv, RowsInv, RowSound
<1>2. ArchivedStay
  BY Folder, Apart DEF ArchivedStay
<1> QED
  BY <1>1, <1>2, RowStays DEF AgentInv

\* The server and the table as they are: what the process holds stays as good as it was.
LEMMA SameServer == UNCHANGED <<server, ours>> => ServerGrows
BY DEF ServerGrows, Duplicated

\* The process dies, or starts again.
LEMMA ByDown == AgentInv /\ (AgentCrash \/ AgentRestart) => AgentInv'
<1> SUFFICES ASSUME AgentInv, AgentCrash \/ AgentRestart PROVE AgentInv'
  OBVIOUS
<1>1. /\ agent' \in {"idle", "down"} /\ step' = NoStep /\ crashes' \in Nat
      /\ UNCHANGED <<disk, queue, server, ours, month, dropped>>
  BY DEF AgentCrash, AgentRestart, Dies, Idle, Goto, AgentInv, AgentTypeOK
<1>2. RowsInv'
  BY <1>1, SameServer, QuietRows
<1>3. AgentTypeOK'
  BY <1>1 DEF AgentInv, AgentTypeOK, Phases
<1> QED
  BY <1>1, <1>2, <1>3 DEF AgentInv, MovedInv, AnsweredInv, PlannedInv

\* The environment: nothing it does touches what the process relies on.
LEMMA Environment ==
    ASSUME AgentInv, UNCHANGED <<queue, agent, step, ours, crashes>>, ServerGrows,
           \A q \in Path \ Inbox : disk'[q] = disk[q], AgentTypeOK'
    PROVE  AgentInv'
<1>1. RowsInv'
  BY QuietRows
<1>2. MovedInv'
  BY Folder, Apart DEF AgentInv, MovedInv, Here
<1>3. ASSUME Tracked(step.path), step.path \in Path
      PROVE  /\ queue[step.path].hash \in Contents
             /\ step.path \in Path \ Inbox
  BY <1>3, RowType DEF AgentInv, RowsInv, RowSound
<1>4. AnsweredInv'
  BY <1>3 DEF AgentInv, AnsweredInv, ServerGrows, Tracked
<1>5. PlannedInv'
  <2> SUFFICES ASSUME agent \in {"planned", "placed", "acknowledged"} PROVE PlannedInv'
    BY DEF PlannedInv
  <2> DEFINE row == queue[step.path]
  <2>1. /\ step.path \in Path /\ Tracked(step.path) /\ row.archive = step.target
        /\ step.target # None /\ RowSound(step.path)
    BY DEF AgentInv, PlannedInv, RowsInv
  <2>2. step.target \in Path \ Inbox
    BY <2>1, Folder, Apart DEF RowSound
  <2>3. disk'[step.target] = disk[step.target]
    BY <2>2
  <2>4. row.file = "original" /\ server[row.hash] # "IMPORTED" => server'[row.hash] # "IMPORTED"
    BY <1>3, <2>1 DEF RowSound, Fits, ServerGrows
  <2>5. server[row.hash] \in {"IMPORTED", "ARCHIVED"} => server'[row.hash] \in {"IMPORTED", "ARCHIVED"}
    BY <1>3, <2>1 DEF ServerGrows
  <2> QED
    BY <2>1, <2>3, <2>4, <2>5 DEF AgentInv, PlannedInv, Tracked
<1> QED
  BY <1>1, <1>2, <1>4, <1>5 DEF AgentInv

\* The user drops a file.
LEMMA ByDropFile == \A p \in Inbox, c \in Contents : AgentInv /\ DropFile(p, c) => AgentInv'
<1> SUFFICES ASSUME NEW p \in Inbox, NEW c \in Contents, AgentInv, DropFile(p, c) PROVE AgentInv'
  OBVIOUS
<1>1. /\ UNCHANGED <<queue, server, ours, month, agent, step, crashes>>
      /\ disk' = [disk EXCEPT ![p] = c] /\ dropped' = [dropped EXCEPT ![c] = @ + 1]
  BY DEF DropFile
<1>2. \A q \in Path \ Inbox : disk'[q] = disk[q]
  BY <1>1 DEF AgentInv, AgentTypeOK
<1>3. AgentTypeOK'
  <2>1. p \in Path /\ dropped[c] + 1 \in Nat
    BY Folder DEF AgentInv, AgentTypeOK
  <2> QED
    BY <1>1, <2>1 DEF AgentInv, AgentTypeOK
<1> QED
  BY <1>1, <1>2, <1>3, SameServer, Environment

\* The reviewers decide, or somebody else uploads.
LEMMA ByServerMoves == \A c \in Contents : AgentInv /\ ServerMoves(c) => AgentInv'
<1> SUFFICES ASSUME NEW c \in Contents, AgentInv, ServerMoves(c) PROVE AgentInv'
  OBVIOUS
<1>1. UNCHANGED <<disk, queue, ours, month, agent, step, dropped, crashes>>
  BY DEF ServerMoves
<1>2. PICK s \in ServerState :
         /\ server' = [server EXCEPT ![c] = s]
         /\ \/ server[c] = "MAPPING_REQUIRED" /\ s \in {"IMPORTED", "REJECTED"}
            \/ server[c] \in {"UPLOAD_FAILED", "QUARANTINED"} /\ s = "REJECTED"
            \/ server[c] = None
  BY DEF ServerMoves, ServerState
<1>3. None \notin ServerState
  BY AgentAssumption
<1>4. AgentTypeOK'
  BY <1>1, <1>2 DEF AgentInv, AgentTypeOK
<1>5. ServerGrows
  <2> SUFFICES ASSUME NEW d \in Contents
               PROVE  /\ Duplicated(d) => Duplicated(d)'
                      /\ server[d] \in {"IMPORTED", "ARCHIVED"} => server'[d] \in {"IMPORTED", "ARCHIVED"}
                      /\ server[d] = "ARCHIVED" => server'[d] = "ARCHIVED"
                      /\ server[d] = "REJECTED" => server'[d] = "REJECTED"
                      /\ server[d] \in {"QUARANTINED", "REJECTED"} => server'[d] \in {"QUARANTINED", "REJECTED"}
    BY DEF ServerGrows
  <2>1. CASE d = c
    <3>1. server'[d] = s /\ s # None /\ (server[d] # None => s # "UPLOAD_FAILED")
      BY <1>2, <1>3, <2>1 DEF AgentInv, AgentTypeOK
    <3>2. server[d] \notin {"IMPORTED", "ARCHIVED", "REJECTED"}
      BY <1>2, <1>3, <2>1 DEF ServerState
    <3> QED
      BY <1>1, <1>2, <1>3, <2>1, <3>1, <3>2 DEF Duplicated, ServerState
  <2>2. CASE d # c
    BY <1>1, <1>2, <2>2 DEF AgentInv, AgentTypeOK, Duplicated
  <2> QED
    BY <2>1, <2>2
<1> QED
  BY <1>1, <1>4, <1>5, Environment

\* The folder of the archive changes.
LEMMA ByMonthEnds == AgentInv /\ MonthEnds => AgentInv'
<1> SUFFICES ASSUME AgentInv, MonthEnds PROVE AgentInv'
  OBVIOUS
<1>1. /\ UNCHANGED <<disk, queue, server, ours, agent, step, dropped, crashes>>
      /\ month' \in 1 .. Months
  BY AgentAssumption DEF MonthEnds, AgentInv, AgentTypeOK
<1>2. AgentTypeOK'
  BY <1>1 DEF AgentInv, AgentTypeOK
<1> QED
  BY <1>1, <1>2, SameServer, Environment

-----------------------------------------------------------------------------
\* A file moves from a path that is no archive to one that was free.
LEMMA MoveRows ==
    ASSUME AgentInv, UNCHANGED <<queue, server, ours>>,
           NEW from \in Path \ ArchivedPaths, NEW to \in Path, Here(from), ~Here(to),
           Move(from, to),
           Tracked(from) /\ queue[from].archive # None => queue[from].archive = to
    PROVE  RowsInv' /\ disk' \in [Path -> Contents \cup {None}]
<1>1. from # to /\ disk'[to] = disk[from]
      /\ \A q \in Path \ {from, to} : disk'[q] = disk[q]
  BY DEF Move, AgentInv, AgentTypeOK, Here
<1>2. ArchivedStay /\ ServerGrows
  <2>1. ArchivedStay
    BY <1>1, Folder DEF ArchivedStay
  <2> QED
    BY <2>1, SameServer
<1>3. ASSUME NEW p \in Path, Tracked(p) PROVE RowSound(p)'
  <2>1. RowSound(p) /\ queue[p].hash # None /\ queue[p].archive \in Path \cup {None}
    BY <1>3, RowType DEF AgentInv, RowsInv
  <2>2. queue[p].archive # None /\ disk[p] = queue[p].hash
           => queue[p].hash \in {disk'[p], disk'[queue[p].archive]}
    <3>1. CASE p = from
      BY <1>1, <1>3, <2>1, <3>1
    <3>2. CASE p = to
      BY <2>1, <3>2 DEF Here
    <3>3. CASE p \notin {from, to}
      BY <1>1, <3>3
    <3> QED
      BY <3>1, <3>2, <3>3
  <2> QED
    BY <1>2, <1>3, <2>1, <2>2, RowStays DEF AgentInv
<1>4. disk' \in [Path -> Contents \cup {None}]
  BY DEF Move, AgentInv, AgentTypeOK
<1> QED
  BY <1>3, <1>4 DEF RowsInv, Tracked

\* The table changes and nothing else: the rows that changed must be sound.
LEMMA TableRows ==
    ASSUME AgentInv, UNCHANGED <<disk, server, ours>>,
           \A p \in Path : Tracked(p)' => RowSound(p)' \/ queue'[p] = queue[p]
    PROVE  RowsInv'
<1>1. ArchivedStay /\ ServerGrows
  BY SameServer DEF ArchivedStay
<1>2. ASSUME NEW p \in Path, Tracked(p)', queue'[p] = queue[p] PROVE RowSound(p)'
  <2>1. Tracked(p) /\ RowSound(p)
    BY <1>2 DEF Tracked, AgentInv, RowsInv
  <2> QED
    BY <1>1, <1>2, <2>1, RowStays DEF AgentInv
<1> QED
  BY <1>2 DEF RowsInv

\* A row newly queued.
LEMMA NewRow ==
    ASSUME NEW c \in Contents
    PROVE  Queued(c) \in Row /\ Queued(c) # NoRow
<1>1. Queued(c) \in Row
  BY DEF Queued, Row
<1>2. Queued(c) # NoRow
  BY AgentAssumption DEF Queued, NoRow
<1> QED
  BY <1>1, <1>2

\* A row newly queued is sound in processing.
LEMMA NewRowSound ==
    ASSUME NEW p \in Processing, NEW c \in Contents, queue'[p] = Queued(c)
    PROVE  RowSound(p)'
<1>1. p \notin Inbox /\ p \notin ArchivedPaths
  BY Apart
<1> QED
  BY <1>1, AgentAssumption DEF RowSound, Queued

\* A file is moved to a path that is free.
LEMMA FreeInProcessing ==
    ASSUME NEW c \in Contents, NEW target \in ScanTargets(c)
    PROVE  target \in Processing /\ target \in Path /\ ~Here(target)
<1>1. \A k \in Keys : At("processing", 0, k).key = k
  BY DEF At
<1>2. CASE Here(At("processing", 0, c))
  BY <1>1, <1>2, Folder DEF ScanTargets, Unused, Keys
<1>3. CASE ~Here(At("processing", 0, c))
  BY <1>3, Folder DEF ScanTargets, Keys
<1> QED
  BY <1>2, <1>3

\* scan moves a file to processing ...
LEMMA ByScanMove == \A p \in Inbox : AgentInv /\ ScanMove(p) => AgentInv'
<1> SUFFICES ASSUME NEW p \in Inbox, AgentInv, ScanMove(p) PROVE AgentInv'
  OBVIOUS
<1>1. PICK target \in ScanTargets(disk[p]) :
         /\ Move(p, target)
         /\ Goto("moved", [path |-> target, target |-> None, item |-> None, file |-> None])
  BY DEF ScanMove
<1>2. Here(p) /\ UNCHANGED <<queue, server, ours, month, dropped, crashes>>
  BY DEF ScanMove
<1>3. p \in Path \ ArchivedPaths /\ disk[p] \in Contents /\ ~Tracked(p)
  BY <1>2, Folder, Apart DEF AgentInv, AgentTypeOK, Here, RowsInv, RowSound
<1>4. target \in Processing /\ ~Here(target)
  BY <1>3, FreeInProcessing
<1>5. target \in Path
  BY <1>4, Folder
<1>6. RowsInv' /\ disk' \in [Path -> Contents \cup {None}]
  BY <1>1, <1>2, <1>3, <1>4, <1>5, MoveRows
<1>7. Here(target)'
  BY <1>1, <1>2, <1>3, <1>5 DEF Move, AgentInv, AgentTypeOK, Here
<1>8. /\ agent' = "moved" /\ step'.path = target
      /\ step' \in Step
  BY <1>1, <1>5 DEF Goto, Step
<1>9. AgentTypeOK'
  BY <1>2, <1>6, <1>8 DEF AgentInv, AgentTypeOK, Phases
<1> QED
  BY <1>4, <1>6, <1>7, <1>8, <1>9 DEF AgentInv, MovedInv, AnsweredInv, PlannedInv

\* ... and inserts its row.
LEMMA ByScanInsert == AgentInv /\ ScanInsert => AgentInv'
<1> SUFFICES ASSUME AgentInv, ScanInsert PROVE AgentInv'
  OBVIOUS
<1>1. /\ step.path \in Processing /\ step.path \in Path /\ disk[step.path] \in Contents
      /\ UNCHANGED <<disk, server, ours, month, dropped, crashes>>
  BY Folder DEF ScanInsert, AgentInv, AgentTypeOK, MovedInv, Here
<1>2. agent' \in {"idle", "down"} /\ step' = NoStep
  BY DEF ScanInsert, Dies, Idle, Goto
<1>3. \/ queue' = queue
      \/ queue' = [queue EXCEPT ![step.path] = Queued(disk[step.path])]
  BY DEF ScanInsert
<1>4. queue' \in [Path -> Row \cup {NoRow}]
  BY <1>1, <1>3, NewRow DEF AgentInv, AgentTypeOK
<1>5. \A p \in Path : Tracked(p)' => RowSound(p)' \/ queue'[p] = queue[p]
  <2> SUFFICES ASSUME NEW p \in Path, queue'[p] # queue[p] PROVE RowSound(p)'
    OBVIOUS
  <2>1. p = step.path /\ queue'[p] = Queued(disk[p])
    BY <1>3 DEF AgentInv, AgentTypeOK
  <2> QED
    BY <1>1, <2>1, NewRowSound
<1>6. RowsInv'
  BY <1>1, <1>5, TableRows
<1>7. AgentTypeOK'
  BY <1>1, <1>2, <1>4 DEF AgentInv, AgentTypeOK, Phases
<1> QED
  BY <1>2, <1>6, <1>7 DEF AgentInv, MovedInv, AnsweredInv, PlannedInv

\* scan queues what it finds in processing.
LEMMA ByScanRecover == AgentInv /\ ScanRecover => AgentInv'
<1> SUFFICES ASSUME AgentInv, ScanRecover PROVE AgentInv'
  OBVIOUS
<1>1. /\ agent' = "idle"
      /\ UNCHANGED <<disk, server, ours, month, step, dropped, crashes>>
      /\ queue' = [p \in Path |-> IF Recovered(p) THEN Queued(disk[p]) ELSE queue[p]]
  BY DEF ScanRecover
<1>2. \A p \in Path : Recovered(p) => p \in Processing /\ disk[p] \in Contents
  BY DEF Recovered, Here, AgentInv, AgentTypeOK
<1>3. queue' \in [Path -> Row \cup {NoRow}]
  BY <1>1, <1>2, NewRow DEF AgentInv, AgentTypeOK
<1>4. \A p \in Path : Tracked(p)' => RowSound(p)' \/ queue'[p] = queue[p]
  BY <1>1, <1>2, NewRowSound
<1>5. RowsInv'
  BY <1>1, <1>4, TableRows
<1>6. AgentTypeOK'
  BY <1>1, <1>3 DEF AgentInv, AgentTypeOK, Phases
<1> QED
  BY <1>1, <1>5, <1>6 DEF AgentInv, MovedInv, AnsweredInv, PlannedInv

-----------------------------------------------------------------------------
\* upload posts a file: what it holds afterwards is what the server answered.
LEMMA ByUploadPost == \A p \in Path : AgentInv /\ UploadPost(p) => AgentInv'
<1> SUFFICES ASSUME NEW p \in Path, AgentInv, UploadPost(p) PROVE AgentInv'
  OBVIOUS
<1> DEFINE c == queue[p].hash
<1>1. /\ Tracked(p) /\ queue[p].state = "QUEUED" /\ disk[p] = c
      /\ UNCHANGED <<disk, queue, month, dropped, crashes>>
  BY DEF UploadPost
<1>2. c \in Contents
  BY <1>1, RowType DEF AgentInv
<1>3. \/ agent' = "idle" /\ step' = NoStep
      \/ \E item \in {"DUPLICATE", "MAPPING_REQUIRED", "QUARANTINED"}, file \in {"duplicate", "original"} :
            /\ file = "duplicate" => Duplicates(c)
            /\ agent' = "answered"
            /\ step' = [path |-> p, target |-> None, item |-> item, file |-> file]
  BY DEF UploadPost, Idle, Goto
<1>4. \/ UNCHANGED <<server, ours>>
      \/ /\ ~Duplicates(c)
         /\ \E item \in {"MAPPING_REQUIRED", "QUARANTINED", "UPLOAD_FAILED"} :
               server' = [server EXCEPT ![c] = item]
         /\ ours' = ours \cup {c}
  BY DEF UploadPost
<1>5. \A d \in Contents : Duplicated(d) = Duplicates(d)
  BY DEF Duplicated, Duplicates
<1>6. ServerGrows
  <2>1. CASE UNCHANGED <<server, ours>>
    BY <2>1, SameServer
  <2>2. CASE ~Duplicates(c) /\ ours' = ours \cup {c}
             /\ \E item \in {"MAPPING_REQUIRED", "QUARANTINED", "UPLOAD_FAILED"} :
                   server' = [server EXCEPT ![c] = item]
    <3>1. server[c] \notin {"IMPORTED", "ARCHIVED", "REJECTED", "QUARANTINED"}
      BY <2>2, AgentAssumption DEF Duplicates, ServerState
    <3>2. \A d \in Contents \ {c} : server'[d] = server[d] /\ (d \in ours' <=> d \in ours)
      BY <2>2 DEF AgentInv, AgentTypeOK
    <3>3. ~Duplicated(c)
      BY <1>2, <1>5, <2>2
    <3>4. \A d \in Contents \ {c} : Duplicated(d) => Duplicated(d)'
      BY <3>2 DEF Duplicated
    <3> HIDE DEF c
    <3> QED
      BY <3>1, <3>2, <3>3, <3>4 DEF ServerGrows
  <2> QED
    BY <1>4, <2>1, <2>2
<1>7. RowsInv'
  BY <1>1, <1>6, QuietRows
<1>8. AgentTypeOK'
  <2>1. server' \in [Contents -> ServerState \cup {None}] /\ ours' \subseteq Contents
    BY <1>2, <1>4 DEF AgentInv, AgentTypeOK, ServerState
  <2>2. step' \in Step \cup {NoStep} /\ agent' \in Phases
    BY <1>3 DEF Step, Phases, Terminal
  <2> QED
    BY <1>1, <2>1, <2>2 DEF AgentInv, AgentTypeOK
<1>9. AnsweredInv'
  <2> SUFFICES ASSUME agent' \in {"answered", "reviewed"} PROVE AnsweredInv'
    BY DEF AnsweredInv
  <2>1. /\ agent' = "answered" /\ step'.path = p
        /\ step'.item \in Terminal \cup {"MAPPING_REQUIRED"}
        /\ step'.file \in {"duplicate", "original"}
        /\ step'.file = "duplicate" => Duplicated(c)
    BY <1>2, <1>3, <1>5 DEF Terminal
  <2>2. step'.file = "duplicate" => Duplicated(c)'
    BY <1>1, <1>2, <1>6, <2>1 DEF ServerGrows, Duplicated
  <2>3. Duplicated(c)' <=> Duplicated(queue[step.path].hash)'
    BY <1>1, <2>1 DEF Duplicated
  <2> QED
    BY <1>1, <2>1, <2>2, <2>3 DEF AnsweredInv, Tracked
<1> QED
  BY <1>3, <1>7, <1>8, <1>9 DEF AgentInv, MovedInv, PlannedInv

\* The row as the reply leaves it.
LEMMA AnsweredRow ==
    ASSUME AgentInv, agent \in {"answered", "reviewed"}
    PROVE  LET row == Answered(step.path) IN
           /\ row \in Row /\ row # NoRow
           /\ row.hash = queue[step.path].hash /\ row.archive = None
           /\ row.file = step.file /\ row.state = step.item
<1>1. /\ step.path \in Path /\ Tracked(step.path) /\ queue[step.path].state = "QUEUED"
      /\ step.item \in Terminal \cup {"MAPPING_REQUIRED"}
      /\ step.file \in {"original", "duplicate"}
  BY DEF AgentInv, AnsweredInv
<1>2. queue[step.path] \in Row /\ queue[step.path].hash # None /\ queue[step.path].archive = None
  BY <1>1, RowType DEF AgentInv, RowsInv, RowSound
<1> QED
  BY <1>1, <1>2 DEF Answered, Row, NoRow

\* The row the reply leaves is sound wherever no archive is.
LEMMA AnsweredSound ==
    ASSUME AgentInv, agent \in {"answered", "reviewed"}, UNCHANGED <<server, ours>>,
           NEW p \in Path \ (Inbox \cup ArchivedPaths), queue'[p] = Answered(step.path)
    PROVE  RowSound(p)'
<1>1. step.file = "duplicate" => Duplicated(queue[step.path].hash)
  BY DEF AgentInv, AnsweredInv
<1>2. step.file \in {"original", "duplicate"} /\ step.item \notin {"ARCHIVE_PENDING", "LOCAL_ARCHIVED"}
  BY DEF AgentInv, AnsweredInv, Terminal
<1> QED
  BY <1>1, <1>2, AnsweredRow, AgentAssumption DEF RowSound, Duplicated

\* upload commits the answer where the file is.
LEMMA ByUploadCommit == AgentInv /\ UploadCommit => AgentInv'
<1> SUFFICES ASSUME AgentInv, UploadCommit PROVE AgentInv'
  OBVIOUS
<1>1. /\ agent = "answered" /\ agent' = "idle" /\ step' = NoStep
      /\ queue' = [queue EXCEPT ![step.path] = Answered(step.path)]
      /\ UNCHANGED <<disk, server, ours, month, dropped, crashes>>
  BY DEF UploadCommit, Idle, Goto
<1>2. step.path \in Path \ (Inbox \cup ArchivedPaths)
  BY <1>1 DEF AgentInv, AnsweredInv, RowsInv, RowSound
<1>3. Answered(step.path) \in Row
  BY <1>1, AnsweredRow
<1>4. queue' \in [Path -> Row \cup {NoRow}]
  BY <1>1, <1>3 DEF AgentInv, AgentTypeOK
<1>5. \A p \in Path : Tracked(p)' => RowSound(p)' \/ queue'[p] = queue[p]
  <2> SUFFICES ASSUME NEW p \in Path, queue'[p] # queue[p] PROVE RowSound(p)'
    OBVIOUS
  <2>1. p = step.path /\ queue'[p] = Answered(step.path)
    BY <1>1 DEF AgentInv, AgentTypeOK
  <2> QED
    BY <1>1, <1>2, <2>1, AnsweredSound
<1>6. RowsInv'
  BY <1>1, <1>5, TableRows
<1>7. AgentTypeOK'
  BY <1>1, <1>4 DEF AgentInv, AgentTypeOK, Phases
<1> QED
  BY <1>1, <1>6, <1>7 DEF AgentInv, MovedInv, AnsweredInv, PlannedInv

\* upload moves the file to review ...
LEMMA ByUploadMove == AgentInv /\ UploadMove => AgentInv'
<1> SUFFICES ASSUME AgentInv, UploadMove PROVE AgentInv'
  OBVIOUS
<1> DEFINE target == At("review", 0, step.path.key)
<1>1. /\ agent = "answered" /\ step.item \notin Terminal /\ ~Here(target)
      /\ Move(step.path, target)
      /\ agent' = "reviewed" /\ step' = [step EXCEPT !.target = target]
      /\ UNCHANGED <<queue, server, ours, month, dropped, crashes>>
  BY DEF UploadMove, Goto
<1>2. /\ step.path \in Path \ (Inbox \cup ArchivedPaths) /\ Tracked(step.path)
      /\ queue[step.path].state = "QUEUED" /\ queue[step.path].archive = None
      /\ disk[step.path] = queue[step.path].hash
      /\ step.item = "MAPPING_REQUIRED" /\ step.file \in {"original", "duplicate"}
      /\ step.file = "duplicate" => Duplicated(queue[step.path].hash)
  BY <1>1 DEF AgentInv, AnsweredInv, RowsInv, RowSound
<1>3. target \in Review /\ target \in Path /\ Here(step.path)
  BY <1>2, Folder, RowType DEF Here, AgentInv
<1> HIDE DEF target
<1>4. RowsInv' /\ disk' \in [Path -> Contents \cup {None}]
  BY <1>1, <1>2, <1>3, MoveRows
<1>5. step \in Step
  BY <1>2, AgentAssumption DEF AgentInv, AgentTypeOK, NoStep
<1>6. /\ step' \in Step /\ step'.path = step.path /\ step'.target = target
      /\ step'.item = step.item /\ step'.file = step.file
  BY <1>1, <1>3, <1>5 DEF Step
<1>7. AgentTypeOK'
  BY <1>1, <1>4, <1>6 DEF AgentInv, AgentTypeOK, Phases
<1>8. AnsweredInv'
  BY <1>1, <1>2, <1>3, <1>6 DEF AnsweredInv, Tracked, Duplicated
<1> QED
  BY <1>1, <1>4, <1>7, <1>8 DEF AgentInv, MovedInv, PlannedInv

\* ... and the row follows.
LEMMA ByUploadFollow == AgentInv /\ UploadFollow => AgentInv'
<1> SUFFICES ASSUME AgentInv, UploadFollow PROVE AgentInv'
  OBVIOUS
<1>1. /\ agent = "reviewed" /\ agent' \in {"idle", "down"} /\ step' = NoStep
      /\ UNCHANGED <<disk, server, ours, month, dropped, crashes>>
      /\ \/ queue' = queue
         \/ queue' = [queue EXCEPT ![step.path] = NoRow, ![step.target] = Answered(step.path)]
  BY DEF UploadFollow, Idle, Dies, Goto, Follow
<1>2. step.path \in Path /\ step.target \in Path \ (Inbox \cup ArchivedPaths)
  BY <1>1, Folder, Apart DEF AgentInv, AnsweredInv
<1>3. Answered(step.path) \in Row
  BY <1>1, AnsweredRow
<1>4. queue' \in [Path -> Row \cup {NoRow}]
  BY <1>1, <1>3 DEF AgentInv, AgentTypeOK
<1>5. \A p \in Path : Tracked(p)' => RowSound(p)' \/ queue'[p] = queue[p]
  <2> SUFFICES ASSUME NEW p \in Path, queue'[p] # queue[p], queue'[p] # NoRow PROVE RowSound(p)'
    BY DEF Tracked
  <2>1. p = step.target /\ queue'[p] = Answered(step.path)
    BY <1>1, <1>2 DEF AgentInv, AgentTypeOK
  <2> QED
    BY <1>1, <1>2, <2>1, AnsweredSound
<1>6. RowsInv'
  BY <1>1, <1>5, TableRows
<1>7. AgentTypeOK'
  BY <1>1, <1>4 DEF AgentInv, AgentTypeOK, Phases
<1> QED
  BY <1>1, <1>6, <1>7 DEF AgentInv, MovedInv, AnsweredInv, PlannedInv

-----------------------------------------------------------------------------
\* _archive commits the intent: a plan that fits what the server says.
LEMMA ByArchivePlan == \A p \in Path : AgentInv /\ ArchivePlan(p) => AgentInv'
<1> SUFFICES ASSUME NEW p \in Path, AgentInv, ArchivePlan(p) PROVE AgentInv'
  OBVIOUS
<1> DEFINE row == queue[p]
           item == Status(row)
<1>1. /\ Tracked(p) /\ row.file # None /\ row.state # "LOCAL_ARCHIVED" /\ item \in Terminal
      /\ row.archive = None => disk[p] = row.hash
      /\ UNCHANGED <<disk, server, ours, month, dropped, crashes>>
  BY DEF ArchivePlan
<1>2. PICK target \in ArchiveTargets(p, item) :
         /\ queue' = [queue EXCEPT ![p].archive = target, ![p].state = "ARCHIVE_PENDING"]
         /\ agent' = "planned"
         /\ step' = [path |-> p, target |-> target, item |-> item, file |-> row.file]
  BY DEF ArchivePlan, Goto
<1>3. RowSound(p) /\ row \in Row /\ row.hash \in Contents /\ row.hash # None
      /\ row.file \in {"original", "duplicate"}
  BY <1>1, RowType DEF AgentInv, RowsInv, Row
<1>4. p \in Path \ (Inbox \cup ArchivedPaths) /\ p.key \in Keys /\ month \in 1 .. Months
  BY <1>1, <1>3, Folder DEF RowSound, AgentInv, AgentTypeOK
<1>5. row.file = "original" => item = server[row.hash]
  BY DEF Status
<1>6. /\ target \in ArchivedPaths
      /\ row.file = "original" => Fits(target.dir, server[row.hash])
  <2>1. CASE row.archive # None
    BY <1>2, <1>3, <2>1 DEF RowSound, ArchiveTargets
  <2>2. CASE row.archive = None
    <3>1. PICK k \in Keys : target = ArchiveDir(item, k)
      <4>1. target \in ReplannedTargets(p, item)
        BY <1>2, <2>2 DEF ArchiveTargets
      <4> HIDE DEF item
      <4> QED
        BY <1>4, <4>1 DEF ReplannedTargets, Keys
    <3>2. /\ target \in ArchivedPaths
          /\ target.dir = CASE item = "QUARANTINED" -> "quarantine"
                            [] item = "REJECTED" -> "rejected"
                            [] OTHER -> "processed"
      BY <1>4, <3>1, Planned
    <3>3. row.file = "original" => item \in {"QUARANTINED", "REJECTED", "IMPORTED", "ARCHIVED"}
      <4>1. server[row.hash] \in ServerState \cup {None}
        BY <1>3 DEF AgentInv, AgentTypeOK
      <4>2. None \notin Terminal
        BY AgentAssumption
      <4>3. item \in Terminal
        BY <1>1
      <4> HIDE DEF item
      <4> QED
        BY <1>5, <4>1, <4>2, <4>3 DEF Terminal, ServerState
    <3> HIDE DEF item
    <3>4. CASE item = "QUARANTINED"
      BY <1>5, <3>2, <3>4 DEF Fits
    <3>5. CASE item = "REJECTED"
      BY <1>5, <3>2, <3>5 DEF Fits
    <3>6. CASE item \notin {"QUARANTINED", "REJECTED"}
      BY <1>5, <3>2, <3>3, <3>6 DEF Fits
    <3> QED
      BY <3>2, <3>4, <3>5, <3>6
  <2> QED
    BY <2>1, <2>2
<1>7. target \in Path /\ target # None
  BY <1>6, Folder, AgentAssumption
<1>8. row.hash \in {disk[p], disk[target]}
  BY <1>1, <1>2, <1>3 DEF RowSound, ArchiveTargets
<1>9. /\ queue'[p] \in Row /\ queue'[p].hash = row.hash /\ queue'[p].file = row.file
      /\ queue'[p].archive = target /\ queue'[p].state = "ARCHIVE_PENDING" /\ queue'[p] # NoRow
      /\ \A q \in Path \ {p} : queue'[q] = queue[q]
  <2>1. queue'[p] = [row EXCEPT !.archive = target, !.state = "ARCHIVE_PENDING"]
        /\ \A q \in Path \ {p} : queue'[q] = queue[q]
    BY <1>2 DEF AgentInv, AgentTypeOK
  <2> HIDE DEF row
  <2> QED
    BY <1>3, <1>7, <2>1 DEF Row, NoRow
<1>10. RowSound(p)'
  BY <1>1, <1>3, <1>4, <1>6, <1>7, <1>8, <1>9, AgentAssumption DEF RowSound, Duplicated, Fits
<1>11. RowsInv'
  BY <1>1, <1>9, <1>10, TableRows
<1>12. AgentTypeOK'
  <2>1. queue' \in [Path -> Row \cup {NoRow}]
    BY <1>2, <1>9 DEF AgentInv, AgentTypeOK
  <2>2. step' \in Step /\ agent' \in Phases
    BY <1>1, <1>2, <1>3, <1>7 DEF Step, Phases
  <2> QED
    BY <1>1, <2>1, <2>2 DEF AgentInv, AgentTypeOK
<1>13. PlannedInv'
  <2>1. item = "IMPORTED" => server[row.hash] = "IMPORTED"
    BY DEF Status
  <2>2. step'.path = p /\ step'.target = target /\ step'.item = item
    BY <1>2
  <2> HIDE DEF item
  <2> QED
    BY <1>1, <1>2, <1>5, <1>7, <1>9, <2>1, <2>2 DEF PlannedInv, Tracked
<1> QED
  BY <1>2, <1>11, <1>12, <1>13 DEF AgentInv, MovedInv, AnsweredInv

\* What the process knows while it archives.
LEMMA Archiving ==
    ASSUME AgentInv, agent \in {"planned", "placed", "acknowledged"}
    PROVE  /\ step \in Step /\ step.path \in Path \ (Inbox \cup ArchivedPaths)
           /\ Tracked(step.path) /\ RowSound(step.path)
           /\ queue[step.path].archive = step.target /\ queue[step.path].state = "ARCHIVE_PENDING"
           /\ step.target \in ArchivedPaths /\ step.target \in Path /\ step.target # step.path
           /\ queue[step.path] \in Row
           /\ queue[step.path].hash \in Contents /\ queue[step.path].hash # None
           /\ queue[step.path].file \in {"original", "duplicate"}
<1>1. /\ step.path \in Path /\ Tracked(step.path)
      /\ queue[step.path].archive = step.target /\ step.target # None
  BY DEF AgentInv, PlannedInv
<1>2. RowSound(step.path) /\ queue[step.path] \in Row
      /\ queue[step.path].hash \in Contents /\ queue[step.path].hash # None
  BY <1>1, RowType DEF AgentInv, RowsInv
<1>3. /\ queue[step.path].state = "ARCHIVE_PENDING" /\ step.target \in ArchivedPaths
      /\ step.path \notin Inbox \cup ArchivedPaths
      /\ queue[step.path].file \in {"original", "duplicate"}
  BY <1>1, <1>2 DEF RowSound, Row
<1>4. step \in Step
  BY <1>1, AgentAssumption DEF AgentInv, AgentTypeOK, NoStep
<1> QED
  BY <1>1, <1>2, <1>3, <1>4, Folder

\* _archive moves the file, or finds it moved.
LEMMA ByArchivePlace == AgentInv /\ ArchivePlace => AgentInv'
<1> SUFFICES ASSUME AgentInv, ArchivePlace PROVE AgentInv'
  OBVIOUS
<1>1. agent = "planned" /\ UNCHANGED <<queue, server, ours, month, dropped, crashes>>
  BY DEF ArchivePlace
<1>2. CASE Idle /\ UNCHANGED disk
  <2>1. RowsInv'
    BY <1>1, <1>2, SameServer, QuietRows
  <2>2. AgentTypeOK'
    BY <1>1, <1>2 DEF Idle, Goto, AgentInv, AgentTypeOK, Phases
  <2> QED
    BY <1>2, <2>1, <2>2 DEF Idle, Goto, AgentInv, MovedInv, AnsweredInv, PlannedInv
<1>3. ASSUME RowsInv', disk' \in [Path -> Contents \cup {None}], Goto("placed", step),
             disk'[step.target] = queue[step.path].hash
      PROVE  AgentInv'
  <2>1. AgentTypeOK'
    BY <1>1, <1>3 DEF Goto, AgentInv, AgentTypeOK, Phases
  <2>2. PlannedInv'
    BY <1>1, <1>3 DEF Goto, AgentInv, PlannedInv, Tracked
  <2> QED
    BY <1>3, <2>1, <2>2 DEF Goto, AgentInv, MovedInv, AnsweredInv
<1>4. CASE /\ disk[step.target] = queue[step.path].hash
           /\ Goto("placed", step) /\ UNCHANGED disk
  <2>1. RowsInv' /\ disk' \in [Path -> Contents \cup {None}]
    BY <1>1, <1>4, SameServer, QuietRows DEF AgentInv, AgentTypeOK
  <2> QED
    BY <1>3, <1>4, <2>1
<1>5. CASE /\ ~Here(step.target) /\ disk[step.path] = queue[step.path].hash
           /\ Move(step.path, step.target) /\ Goto("placed", step)
  <2>1. Here(step.path)
    BY <1>1, <1>5, Archiving DEF Here
  <2>2. RowsInv' /\ disk' \in [Path -> Contents \cup {None}]
    BY <1>1, <1>5, <2>1, Archiving, MoveRows
  <2>3. disk'[step.target] = queue[step.path].hash
    BY <1>1, <1>5, Archiving DEF Move, AgentInv, AgentTypeOK
  <2> QED
    BY <1>3, <1>5, <2>2, <2>3
<1> QED
  BY <1>2, <1>4, <1>5 DEF ArchivePlace

\* _archive tells the server of an imported file.
LEMMA ByArchiveAcknowledge == AgentInv /\ ArchiveAcknowledge => AgentInv'
<1> SUFFICES ASSUME AgentInv, ArchiveAcknowledge PROVE AgentInv'
  OBVIOUS
<1> DEFINE c == queue[step.path].hash
<1>1. agent = "placed" /\ UNCHANGED <<disk, queue, ours, month, dropped, crashes>>
  BY DEF ArchiveAcknowledge
<1>2. c \in Contents
  BY <1>1, Archiving
<1>3. \/ agent' = "acknowledged" /\ step' = step
      \/ agent' = "idle" /\ step' = NoStep
  BY DEF ArchiveAcknowledge, Goto, Idle
<1>4. \/ server' = server
      \/ step.item = "IMPORTED" /\ server' = [server EXCEPT ![c] = "ARCHIVED"]
  BY DEF ArchiveAcknowledge, AgentInv, AgentTypeOK
<1>5. agent' = "acknowledged" => \/ step.item # "IMPORTED" /\ server' = server
                                 \/ server'[c] = "ARCHIVED"
  BY <1>2 DEF ArchiveAcknowledge, Goto, Idle, ReplySeen, AgentInv, AgentTypeOK
<1>6. ServerGrows
  <2>1. CASE server' = server
    BY <1>1, <2>1, SameServer
  <2>2. CASE step.item = "IMPORTED" /\ server' = [server EXCEPT ![c] = "ARCHIVED"]
    <3>1. server[c] \in {"IMPORTED", "ARCHIVED"} /\ server'[c] = "ARCHIVED"
      BY <1>1, <1>2, <2>2 DEF AgentInv, PlannedInv, AgentTypeOK
    <3>2. \A d \in Contents \ {c} : server'[d] = server[d]
      BY <2>2 DEF AgentInv, AgentTypeOK
    <3>3. \A d \in Contents : Duplicated(d) => Duplicated(d)'
      BY <1>1, <3>1, <3>2, AgentAssumption DEF Duplicated, ServerState
    <3> HIDE DEF c
    <3> QED
      BY <3>1, <3>2, <3>3 DEF ServerGrows
  <2> QED
    BY <1>4, <2>1, <2>2
<1>7. RowsInv'
  BY <1>1, <1>6, QuietRows
<1>8. AgentTypeOK'
  <2>1. server' \in [Contents -> ServerState \cup {None}]
    BY <1>4 DEF AgentInv, AgentTypeOK, ServerState
  <2> QED
    BY <1>1, <1>3, <2>1 DEF AgentInv, AgentTypeOK, Phases
<1>9. PlannedInv'
  <2> SUFFICES ASSUME agent' = "acknowledged", step' = step PROVE PlannedInv'
    BY <1>3 DEF PlannedInv
  <2>1. /\ step.item = "IMPORTED" => server[c] \in {"IMPORTED", "ARCHIVED"}
        /\ queue[step.path].file = "original" /\ step.item # "IMPORTED" => server[c] # "IMPORTED"
        /\ disk[step.target] = c
    BY <1>1 DEF AgentInv, PlannedInv
  <2>2. step.item = "IMPORTED" => server'[c] \in {"IMPORTED", "ARCHIVED"}
    BY <1>2, <1>6, <2>1 DEF ServerGrows
  <2>3. queue[step.path].file = "original" => server'[c] # "IMPORTED"
    BY <1>5, <2>1
  <2>4. /\ step.path \in Path /\ Tracked(step.path) /\ queue[step.path].archive = step.target
        /\ step.target # None
    BY <1>1 DEF AgentInv, PlannedInv
  <2> QED
    BY <1>1, <2>1, <2>2, <2>3, <2>4 DEF PlannedInv, Tracked
<1> QED
  BY <1>3, <1>7, <1>8, <1>9 DEF AgentInv, MovedInv, AnsweredInv

\* _archive commits LOCAL_ARCHIVED.
LEMMA ByArchiveCommit == AgentInv /\ ArchiveCommit => AgentInv'
<1> SUFFICES ASSUME AgentInv, ArchiveCommit PROVE AgentInv'
  OBVIOUS
<1> DEFINE row == [queue[step.path] EXCEPT !.state = "LOCAL_ARCHIVED", !.archive = None]
<1>1. /\ agent = "acknowledged" /\ agent' \in {"idle", "down"} /\ step' = NoStep
      /\ UNCHANGED <<disk, server, ours, month, dropped, crashes>>
      /\ queue' = queue \/ queue' = [queue EXCEPT ![step.path] = NoRow, ![step.target] = row]
  BY DEF ArchiveCommit, Idle, Dies, Goto, Follow
<1>2. /\ row \in Row /\ row.state = "LOCAL_ARCHIVED" /\ row.archive = None
      /\ row.hash = queue[step.path].hash /\ row.file = queue[step.path].file
  BY <1>1, Archiving DEF Row
<1> HIDE DEF row
<1>3. queue' \in [Path -> Row \cup {NoRow}]
  BY <1>1, <1>2 DEF AgentInv, AgentTypeOK
<1>4. \A p \in Path : Tracked(p)' => RowSound(p)' \/ queue'[p] = queue[p]
  <2> SUFFICES ASSUME NEW p \in Path, queue'[p] # queue[p], queue'[p] # NoRow PROVE RowSound(p)'
    BY DEF Tracked
  <2>1. p = step.target /\ queue'[p] = row
    BY <1>1, Archiving DEF AgentInv, AgentTypeOK
  <2>2. p \in ArchivedPaths /\ p \notin Inbox /\ disk[p] = row.hash
    BY <1>1, <1>2, <2>1, Archiving, Apart DEF AgentInv, PlannedInv
  <2>3. row.file = "original" => Fits(p.dir, server[row.hash]) /\ server[row.hash] # "IMPORTED"
    BY <1>1, <1>2, <2>1, Archiving, AgentAssumption DEF RowSound, AgentInv, PlannedInv
  <2>4. row.file # None /\ (row.file = "duplicate" => Duplicated(row.hash))
    BY <1>1, <1>2, Archiving, AgentAssumption DEF RowSound
  <2> QED
    BY <1>1, <1>2, <2>1, <2>2, <2>3, <2>4 DEF RowSound, Duplicated
<1>5. RowsInv'
  BY <1>1, <1>4, TableRows
<1>6. AgentTypeOK'
  BY <1>1, <1>3 DEF AgentInv, AgentTypeOK, Phases
<1> QED
  BY <1>1, <1>5, <1>6 DEF AgentInv, MovedInv, AnsweredInv, PlannedInv

-----------------------------------------------------------------------------
\* The invariant holds at first, and every step keeps it.
LEMMA AgentInvInit == AgentInit => AgentInv
<1> SUFFICES ASSUME AgentInit PROVE AgentInv
  OBVIOUS
<1>1. AgentTypeOK
  BY AgentAssumption DEF AgentInit, AgentTypeOK, Phases
<1>2. \A p \in Path : ~Tracked(p)
  BY DEF AgentInit, Tracked
<1> QED
  BY <1>1, <1>2 DEF AgentInit, AgentInv, RowsInv, MovedInv, AnsweredInv, PlannedInv

LEMMA AgentInvStep == AgentInv /\ [AgentNext]_agentVars => AgentInv'
<1> SUFFICES ASSUME AgentInv, [AgentNext]_agentVars PROVE AgentInv'
  OBVIOUS
<1>1. CASE \E p \in Inbox : ScanMove(p) \/ \E c \in Contents : DropFile(p, c)
  BY <1>1, ByScanMove, ByDropFile
<1>2. CASE ScanInsert \/ ScanRecover
  BY <1>2, ByScanInsert, ByScanRecover
<1>3. CASE \E p \in Path : UploadPost(p) \/ ArchivePlan(p)
  BY <1>3, ByUploadPost, ByArchivePlan
<1>4. CASE UploadCommit \/ UploadMove \/ UploadFollow
  BY <1>4, ByUploadCommit, ByUploadMove, ByUploadFollow
<1>5. CASE ArchivePlace \/ ArchiveAcknowledge \/ ArchiveCommit
  BY <1>5, ByArchivePlace, ByArchiveAcknowledge, ByArchiveCommit
<1>6. CASE AgentCrash \/ AgentRestart \/ MonthEnds \/ \E c \in Contents : ServerMoves(c)
  BY <1>6, ByDown, ByMonthEnds, ByServerMoves
<1>7. CASE UNCHANGED agentVars
  <2>1. AgentTypeOK'
    BY <1>7 DEF AgentInv, AgentTypeOK, agentVars
  <2> QED
    BY <1>7, <2>1, SameServer, Environment DEF agentVars
<1> QED
  BY <1>1, <1>2, <1>3, <1>4, <1>5, <1>6, <1>7 DEF AgentNext

(***************************************************************************)
(* The files, the queue and what the process holds in a tick have their    *)
(* shape through crashes and restarts (agent.py).                          *)
(***************************************************************************)
THEOREM AgentTyped == AgentSpec => []AgentTypeOK
<1>1. AgentInv => AgentTypeOK
  BY DEF AgentInv
<1> QED
  BY <1>1, AgentInvInit, AgentInvStep, PTL DEF AgentSpec

(***************************************************************************)
(* Whatever dies or is lost on the way, a row marked LOCAL_ARCHIVED has    *)
(* its file, unchanged, in the folder of what became of it, and the server *)
(* knows (agent.py _archive).                                              *)
(***************************************************************************)
THEOREM ArchivedFilesSettled == AgentSpec => []ArchivedIsSettled
<1>1. AgentInv => ArchivedIsSettled
  <2> SUFFICES ASSUME AgentInv, NEW p \in Path, Tracked(p), queue[p].state = "LOCAL_ARCHIVED"
               PROVE  LET c == queue[p].hash IN
                      /\ p \in ArchivedPaths
                      /\ disk[p] = c
                      /\ queue[p].file = "original" =>
                            CASE p.dir = "processed" -> server[c] = "ARCHIVED"
                              [] p.dir = "rejected" -> server[c] = "REJECTED"
                              [] OTHER -> server[c] \in {"QUARANTINED", "REJECTED"}
                      /\ queue[p].file = "duplicate" =>
                            server[c] # None /\ (server[c] = "UPLOAD_FAILED" => c \notin ours)
    BY DEF ArchivedIsSettled
  <2>1. RowSound(p)
    BY DEF AgentInv, RowsInv
  <2>2. CASE p.dir = "processed"
    BY <2>1, <2>2 DEF RowSound, Fits, Duplicated
  <2>3. CASE p.dir = "rejected"
    BY <2>1, <2>3 DEF RowSound, Fits, Duplicated
  <2>4. CASE p.dir \notin {"processed", "rejected"}
    BY <2>1, <2>4 DEF RowSound, Fits, Duplicated
  <2> QED
    BY <2>2, <2>3, <2>4
<1> QED
  BY <1>1, AgentInvInit, AgentInvStep, PTL DEF AgentSpec

(***************************************************************************)
(* While an archive is pending its plan stands, whatever month it is now,  *)
(* and its file is at one of the two ends (agent.py _archive).             *)
(***************************************************************************)
THEOREM JournalStands == AgentSpec => JournalHolds
<1> DEFINE Holds ==
       \A p \in Path : Tracked(p) /\ queue[p].state = "ARCHIVE_PENDING" =>
          LET plan == queue[p].archive IN
          /\ queue[p].hash \in {disk[p], disk[plan]}
          /\ \/ queue'[p] = queue[p]
             \/ ~Tracked(p)' /\ queue'[plan].state = "LOCAL_ARCHIVED"
<1>1. AgentInv /\ [AgentNext]_agentVars => [Holds]_agentVars
  <2> SUFFICES ASSUME AgentInv, AgentNext, NEW p \in Path, Tracked(p),
                      queue[p].state = "ARCHIVE_PENDING"
               PROVE  /\ queue[p].hash \in {disk[p], disk[queue[p].archive]}
                      /\ \/ queue'[p] = queue[p]
                         \/ ~Tracked(p)' /\ queue'[queue[p].archive].state = "LOCAL_ARCHIVED"
    OBVIOUS
  <2>1. /\ RowSound(p) /\ queue[p] \in Row /\ queue[p].hash \in {disk[p], disk[queue[p].archive]}
        /\ queue[p].archive # None
    BY RowType DEF AgentInv, RowsInv, RowSound
  <2>2. CASE queue' = queue
    BY <2>1, <2>2
  <2>3. CASE ScanInsert \/ ScanRecover
    BY <2>1, <2>3 DEF ScanInsert, ScanRecover, Recovered, AgentInv, AgentTypeOK
  <2>4. CASE UploadCommit \/ UploadFollow
    <3>1. agent \in {"answered", "reviewed"} /\ step.path # p
      BY <2>4 DEF UploadCommit, UploadFollow, AgentInv, AnsweredInv
    <3>2. queue' = queue \/ queue'[p] = queue[p]
      BY <2>4, <3>1 DEF UploadCommit, UploadFollow, Follow, AgentInv, AgentTypeOK
    <3> QED
      BY <2>1, <3>2
  <2>5. ASSUME NEW q \in Path, ArchivePlan(q) PROVE queue'[p] = queue[p]
    <3>1. PICK target \in ArchiveTargets(q, Status(queue[q])) :
             queue' = [queue EXCEPT ![q].archive = target, ![q].state = "ARCHIVE_PENDING"]
      BY <2>5 DEF ArchivePlan
    <3>2. CASE q = p
      <4>1. target = queue[p].archive
        BY <2>1, <3>1, <3>2 DEF ArchiveTargets
      <4>2. queue'[p] = [queue[p] EXCEPT !.archive = target, !.state = "ARCHIVE_PENDING"]
        BY <3>1, <3>2 DEF AgentInv, AgentTypeOK
      <4> QED
        BY <2>1, <4>1, <4>2 DEF Row
    <3>3. CASE q # p
      BY <3>1, <3>3 DEF AgentInv, AgentTypeOK
    <3> QED
      BY <3>2, <3>3
  <2>6. ASSUME ArchiveCommit
        PROVE  \/ queue'[p] = queue[p]
               \/ ~Tracked(p)' /\ queue'[queue[p].archive].state = "LOCAL_ARCHIVED"
    <3> DEFINE row == [queue[step.path] EXCEPT !.state = "LOCAL_ARCHIVED", !.archive = None]
    <3>1. \/ queue' = queue
          \/ /\ ~Tracked(step.target)
             /\ queue' = [queue EXCEPT ![step.path] = NoRow, ![step.target] = row]
      BY <2>6 DEF ArchiveCommit, Follow
    <3>2. /\ row.state = "LOCAL_ARCHIVED" /\ step.path \in Path /\ step.target \in Path
          /\ step.target # step.path /\ queue[step.path].archive = step.target
      BY <2>6, Archiving DEF ArchiveCommit, Row
    <3> HIDE DEF row
    <3>3. CASE p = step.path
      BY <3>1, <3>2, <3>3 DEF Tracked, AgentInv, AgentTypeOK
    <3>4. CASE p # step.path
      BY <3>1, <3>2, <3>4 DEF AgentInv, AgentTypeOK
    <3> QED
      BY <3>3, <3>4
  <2>7. CASE \/ \E q \in Inbox : ScanMove(q) \/ \E c \in Contents : DropFile(q, c)
             \/ \E q \in Path : UploadPost(q)
             \/ UploadMove \/ ArchivePlace \/ ArchiveAcknowledge
             \/ AgentCrash \/ AgentRestart \/ MonthEnds \/ \E c \in Contents : ServerMoves(c)
    <3>1. queue' = queue
      BY <2>7 DEF ScanMove, DropFile, UploadPost, UploadMove, ArchivePlace, ArchiveAcknowledge,
                  AgentCrash, AgentRestart, MonthEnds, ServerMoves
    <3> QED
      BY <2>2, <3>1
  <2> QED
    BY <2>1, <2>3, <2>4, <2>5, <2>6, <2>7 DEF AgentNext
<1> QED
  BY <1>1, AgentInvInit, AgentInvStep, PTL DEF AgentSpec, JournalHolds

-----------------------------------------------------------------------------
\* Where a content is on disk, and that it is there as often as it was dropped.
Copies(c) == {p \in Path : disk[p] = c}
Kept == \A c \in Contents : IsFiniteSet(Copies(c)) /\ Cardinality(Copies(c)) = dropped[c]

\* A move to a free path neither loses nor doubles a file ...
LEMMA MoveKeeps ==
    ASSUME AgentInv, Kept, UNCHANGED dropped,
           NEW from \in Path, NEW to \in Path, Here(from), ~Here(to), Move(from, to)
    PROVE  Kept'
<1> SUFFICES ASSUME NEW c \in Contents
             PROVE  IsFiniteSet(Copies(c)') /\ Cardinality(Copies(c)') = Cardinality(Copies(c))
  BY DEF Kept
<1>1. from # to /\ c # None
      /\ \A q \in Path : disk'[q] = IF q = from THEN None ELSE IF q = to THEN disk[from] ELSE disk[q]
  BY AgentAssumption DEF Move, AgentInv, AgentTypeOK, Here
<1>2. IsFiniteSet(Copies(c))
  BY DEF Kept
<1>3. CASE disk[from] = c
  <2>1. Copies(c)' = (Copies(c) \ {from}) \cup {to} /\ from \in Copies(c) /\ to \notin Copies(c)
    BY <1>1, <1>3 DEF Copies, Here
  <2>2. IsFiniteSet(Copies(c) \ {from}) /\ Cardinality(Copies(c) \ {from}) = Cardinality(Copies(c)) - 1
    BY <1>2, <2>1, FS_RemoveElement
  <2>3. /\ IsFiniteSet(Copies(c)')
        /\ Cardinality(Copies(c)') = Cardinality(Copies(c) \ {from}) + 1
    BY <2>1, <2>2, FS_AddElement
  <2>4. Cardinality(Copies(c)) \in Nat
    BY <1>2, FS_CardinalityType
  <2> QED
    BY <2>2, <2>3, <2>4
<1>4. CASE disk[from] # c
  <2>1. Copies(c)' = Copies(c)
    BY <1>1, <1>4 DEF Copies, Here
  <2> QED
    BY <1>2, <2>1
<1> QED
  BY <1>3, <1>4

\* ... and a dropped file is one more.
LEMMA DropKeeps ==
    ASSUME AgentInv, Kept, NEW p \in Inbox, NEW d \in Contents, DropFile(p, d)
    PROVE  Kept'
<1> SUFFICES ASSUME NEW c \in Contents
             PROVE  IsFiniteSet(Copies(c)') /\ Cardinality(Copies(c)') = dropped'[c]
  BY DEF Kept
<1>1. /\ p \in Path /\ disk[p] = None /\ c # None
      /\ \A q \in Path : disk'[q] = IF q = p THEN d ELSE disk[q]
      /\ \A e \in Contents : dropped'[e] = IF e = d THEN dropped[e] + 1 ELSE dropped[e]
  BY Folder, AgentAssumption DEF DropFile, Here, AgentInv, AgentTypeOK
<1>2. IsFiniteSet(Copies(c)) /\ Cardinality(Copies(c)) = dropped[c]
  BY DEF Kept
<1>3. CASE c = d
  <2>1. Copies(c)' = Copies(c) \cup {p} /\ p \notin Copies(c)
    BY <1>1, <1>3 DEF Copies
  <2>2. IsFiniteSet(Copies(c)') /\ Cardinality(Copies(c)') = Cardinality(Copies(c)) + 1
    BY <1>2, <2>1, FS_AddElement
  <2> QED
    BY <1>1, <1>2, <1>3, <2>2
<1>4. CASE c # d
  <2>1. Copies(c)' = Copies(c)
    BY <1>1, <1>4 DEF Copies
  <2> QED
    BY <1>1, <1>2, <1>4, <2>1
<1> QED
  BY <1>3, <1>4

(***************************************************************************)
(* No move of scan, upload or _archive overwrites or loses a file: each    *)
(* content is on disk as often as it was dropped (agent.py).               *)
(***************************************************************************)
THEOREM NoFileLost == AgentSpec => []FilesKept
<1>1. AgentInit => Kept
  <2> SUFFICES ASSUME AgentInit, NEW c \in Contents
               PROVE  IsFiniteSet(Copies(c)) /\ Cardinality(Copies(c)) = dropped[c]
    BY DEF Kept
  <2>1. Copies(c) = {} /\ dropped[c] = 0
    BY AgentAssumption DEF AgentInit, Copies
  <2> QED
    BY <2>1, FS_EmptySet
<1>2. AgentInv /\ Kept /\ [AgentNext]_agentVars => Kept'
  <2> SUFFICES ASSUME AgentInv, Kept, [AgentNext]_agentVars PROVE Kept'
    OBVIOUS
  <2>1. CASE UNCHANGED <<disk, dropped>>
    BY <2>1 DEF Kept, Copies
  <2>2. ASSUME NEW p \in Inbox, ScanMove(p) PROVE Kept'
    <3>1. PICK target \in ScanTargets(disk[p]) : Move(p, target)
      BY <2>2 DEF ScanMove
    <3>2. Here(p) /\ p \in Path /\ disk[p] \in Contents /\ UNCHANGED dropped
      BY <2>2, Folder DEF ScanMove, Here, AgentInv, AgentTypeOK
    <3>3. target \in Path /\ ~Here(target)
      BY <3>2, FreeInProcessing
    <3> QED
      BY <3>1, <3>2, <3>3, MoveKeeps
  <2>3. ASSUME UploadMove PROVE Kept'
    <3>1. /\ step.path \in Path /\ Here(step.path) /\ step.path.key \in Keys
      BY <2>3, RowType, Folder DEF UploadMove, Here, AgentInv, AnsweredInv, RowsInv, RowSound
    <3>2. At("review", 0, step.path.key) \in Path
      BY <3>1, Folder
    <3> QED
      BY <2>3, <3>1, <3>2, MoveKeeps DEF UploadMove
  <2>4. ASSUME ArchivePlace PROVE Kept'
    <3>1. CASE UNCHANGED <<disk, dropped>>
      BY <2>1, <3>1
    <3>2. CASE ~Here(step.target) /\ disk[step.path] = queue[step.path].hash
               /\ Move(step.path, step.target) /\ UNCHANGED dropped
      <4>1. step.path \in Path /\ step.target \in Path /\ Here(step.path)
        BY <2>4, <3>2, Archiving DEF ArchivePlace, Here
      <4> QED
        BY <3>2, <4>1, MoveKeeps
    <3> QED
      BY <2>4, <3>1, <3>2 DEF ArchivePlace
  <2>5. ASSUME NEW p \in Inbox, NEW c \in Contents, DropFile(p, c) PROVE Kept'
    BY <2>5, DropKeeps
  <2>6. CASE \/ ScanInsert \/ ScanRecover \/ \E p \in Path : UploadPost(p) \/ ArchivePlan(p)
             \/ UploadCommit \/ UploadFollow \/ ArchiveAcknowledge \/ ArchiveCommit
             \/ AgentCrash \/ AgentRestart \/ MonthEnds \/ \E c \in Contents : ServerMoves(c)
             \/ UNCHANGED agentVars
    <3>1. UNCHANGED <<disk, dropped>>
      BY <2>6 DEF ScanInsert, ScanRecover, UploadPost, ArchivePlan, UploadCommit, UploadFollow,
                  ArchiveAcknowledge, ArchiveCommit, AgentCrash, AgentRestart, MonthEnds,
                  ServerMoves, agentVars
    <3> QED
      BY <2>1, <3>1
  <2> QED
    BY <2>2, <2>3, <2>4, <2>5, <2>6 DEF AgentNext
<1>3. Kept => FilesKept
  BY DEF Kept, Copies, FilesKept
<1> QED
  BY <1>1, <1>2, <1>3, AgentInvInit, AgentInvStep, PTL DEF AgentSpec
===============================================================================
