------------------------------- MODULE Backups -------------------------------
(***************************************************************************)
(* Private backups of PostgreSQL and the object store, while the services  *)
(* keep writing: infrastructure/scripts/managed_backup.py with its         *)
(* contracts and managed_postgres.py, and what the terminal says of them   *)
(* (backup_health.py).                                                     *)
(*                                                                         *)
(* A backup lists the bucket, dumps an exported snapshot, copies the       *)
(* objects one by one, lists the bucket again, verifies the archive and    *)
(* only then links it to its name; receipts are replaced atomically.  Any  *)
(* step may raise, and the process may die between two of them.  One       *)
(* backup or restore test runs at a time: the code takes no lock, and the  *)
(* operator's schedule is taken to start the next when the last is over.   *)
(*                                                                         *)
(* Bytes stand for their SHA-256 and their ETag, a stamp for the time a    *)
(* listing shows.  Of the database only the rows that name an object are   *)
(* modelled.  Left out: the health probes, which inventory() skips, the    *)
(* size limits, and bits that rot without a new modification time.         *)
(***************************************************************************)
EXTENDS Null, Naturals, Sequences

CONSTANTS
    Objects,     \* keys of the bucket
    Bytes,       \* contents of objects
    MaxPuts,     \* bound on the writes of objects
    MaxBackups   \* bound on the backups started

Reference == [key: Objects, bytes: Bytes]
Stored == [bytes: Bytes \cup {None}, stamp: Nat]
Copy == [Objects -> Bytes \cup {None}]
NoCopy == [o \in Objects |-> None]

VARIABLES
    bucket,      \* the object store
    puts,        \* writes of objects so far: the clock of its listings
    rows,        \* committed rows that name an object with its hash
    writing,     \* rows of open transactions, which have stored their object
    job,         \* the running backup: its phase and what it holds
    started,     \* backups started so far
    attempt,     \* latest-backup-attempt.json: its state, and whether it is later than the receipt
    receipt,     \* latest-backup.json: the archive it names, and whether 24 hours have passed
    archives,    \* archives linked to their names, in order
    restored     \* latest-restore.json: what was restored, and the hash that was expected

backupVars == <<bucket, puts, rows, writing, job, started, attempt, receipt, archives, restored>>

Phase == {"none", "started", "listed", "dumped", "relisted", "linked", "receipted"}
Job == [phase: Phase,
        before: [Objects -> Stored],  \* the first inventory
        refs: SUBSET Reference,       \* rows in the dump
        cut: Copy,                    \* history: the bucket when the dump was taken
        copied: Copy]                 \* members of the archive
NoJob == [phase |-> "none", before |-> [o \in Objects |-> [bytes |-> None, stamp |-> 0]],
          refs |-> {}, cut |-> NoCopy, copied |-> NoCopy]
Archive == [refs: SUBSET Reference, cut: Copy, copied: Copy,
            file: {"intact", "edited", "removed"}]
Restored == [refs: SUBSET Reference, copied: Copy, sha256: Nat]
Attempt == [state: {"RUNNING", "FAILED", "VERIFIED"}, later: BOOLEAN]
Receipt == [archive: Nat, stale: BOOLEAN]

ASSUME BackupAssumption ==
    /\ None \notin Bytes
    /\ None \notin Attempt /\ None \notin Receipt /\ None \notin Restored
    /\ MaxPuts \in Nat
    /\ MaxBackups \in Nat

BackupTypeOK ==
    /\ bucket \in [Objects -> Stored]
    /\ puts \in Nat
    /\ rows \subseteq Reference
    /\ writing \subseteq Reference
    /\ job \in Job
    /\ started \in Nat
    /\ attempt \in Attempt \cup {None}
    /\ receipt \in Receipt \cup {None}
    /\ receipt # None => receipt.archive \in 1 .. Len(archives)
    /\ archives \in Seq(Archive)
    /\ restored \in Restored \cup {None}

BackupInit ==
    /\ bucket = NoJob.before
    /\ puts = 0
    /\ rows = {}
    /\ writing = {}
    /\ job = NoJob
    /\ started = 0
    /\ attempt = None
    /\ receipt = None
    /\ archives = <<>>
    /\ restored = None

BytesOf(store) == [o \in Objects |-> store[o].bytes]
Present(store) == {o \in Objects : store[o].bytes # None}
services == <<bucket, puts, rows, writing>>
receipts == <<attempt, receipt, archives, restored>>

-----------------------------------------------------------------------------
(***************************************************************************)
(* The services: an object is stored first, its row committed after.  Keys *)
(* carry a digest or a fresh id, so an object that a row names is written  *)
(* again with the same bytes only.  No object is deleted.                  *)
(***************************************************************************)
PutObject(r) ==
    /\ puts < MaxPuts
    /\ \A other \in rows \cup writing : other.key = r.key => other = r
    /\ puts' = puts + 1
    /\ bucket' = [bucket EXCEPT ![r.key] = [bytes |-> r.bytes, stamp |-> puts + 1]]
    /\ writing' = writing \cup {r}
    /\ UNCHANGED <<rows, job, started>> /\ UNCHANGED receipts

\* The transaction commits, or is rolled back and leaves its object behind.
EndWrite(r) ==
    /\ r \in writing
    /\ writing' = writing \ {r}
    /\ rows' \in {rows, rows \cup {r}}
    /\ UNCHANGED <<bucket, puts, job, started>> /\ UNCHANGED receipts

-----------------------------------------------------------------------------
(***************************************************************************)
(* create_backup                                                           *)
(***************************************************************************)
Goes(phase) == job' = [job EXCEPT !.phase = phase]
\* The attempt is written after the last receipt: later than it until the next one.
Attempts(state) == attempt' = [state |-> state, later |-> TRUE]

BackupStart ==
    /\ job.phase = "none"
    /\ started < MaxBackups
    /\ started' = started + 1
    /\ Attempts("RUNNING")
    /\ Goes("started")
    /\ UNCHANGED services /\ UNCHANGED <<receipt, archives, restored>>

BackupList ==
    /\ job.phase = "started"
    /\ job' = [job EXCEPT !.phase = "listed", !.before = bucket]
    /\ UNCHANGED services /\ UNCHANGED <<started>> /\ UNCHANGED receipts

\* One snapshot serves the table hashes, the references and pg_dump.
BackupDump ==
    /\ job.phase = "listed"
    /\ job' = [job EXCEPT !.phase = "dumped", !.refs = rows, !.cut = BytesOf(bucket)]
    /\ UNCHANGED services /\ UNCHANGED <<started>> /\ UNCHANGED receipts

\* GET with If-Match.  Last-Modified is compared to the second, so the
\* same bytes written again may pass.
SameVersion(o) == bucket[o].bytes = job.before[o].bytes
BackupCopy(o) ==
    /\ job.phase = "dumped"
    /\ o \in Present(job.before)
    /\ job.copied[o] = None
    /\ SameVersion(o)
    /\ job' = [job EXCEPT !.copied[o] = bucket[o].bytes]
    /\ UNCHANGED services /\ UNCHANGED <<started>> /\ UNCHANGED receipts

\* The second inventory equals the first.  Mutant: it is not taken.
NotRelisted(store) == TRUE
SameInventory(store) == store = job.before
BackupRelist ==
    /\ job.phase = "dumped"
    /\ Present(job.before) = {o \in Objects : job.copied[o] # None}
    /\ SameInventory(bucket)
    /\ Goes("relisted")
    /\ UNCHANGED services /\ UNCHANGED <<started>> /\ UNCHANGED receipts

\* Manifest.inventory_matches: every reference has its file, with its hash.
ReferencesMatch(refs, copied) == \A r \in refs : copied[r.key] = r.bytes

\* The archive is verified, the pending file included, and linked to a name that
\* is new.
BackupLink ==
    /\ job.phase = "relisted"
    /\ ReferencesMatch(job.refs, job.copied)
    /\ archives' = Append(archives, [refs |-> job.refs, cut |-> job.cut, copied |-> job.copied,
                                     file |-> "intact"])
    /\ Goes("linked")
    /\ UNCHANGED services /\ UNCHANGED <<started, attempt, receipt, restored>>

\* Mutant: the receipt is written before the archive has its name.
ReceiptBeforeLink ==
    /\ job.phase = "relisted"
    /\ receipt' = [archive |-> Len(archives) + 1, stale |-> FALSE]
    /\ UNCHANGED services /\ UNCHANGED <<job, started, attempt, archives, restored>>
\* latest-backup.json; its verified_at is later than the attempt.
BackupReceipt ==
    /\ job.phase = "linked"
    /\ receipt' = [archive |-> Len(archives), stale |-> FALSE]
    /\ attempt' = [attempt EXCEPT !.later = FALSE]
    /\ Goes("receipted")
    /\ UNCHANGED services /\ UNCHANGED <<started, archives, restored>>

BackupDone ==
    /\ job.phase = "receipted"
    /\ attempt' = [attempt EXCEPT !.state = "VERIFIED"]
    /\ job' = NoJob
    /\ UNCHANGED services /\ UNCHANGED <<started, receipt, archives, restored>>

\* Any exception before the last receipt: the attempt failed.
BackupFail ==
    /\ job.phase \notin {"none", "receipted"}
    /\ attempt' = [attempt EXCEPT !.state = "FAILED"]
    /\ job' = NoJob
    /\ UNCHANGED services /\ UNCHANGED <<started, receipt, archives, restored>>

\* The process dies, its receipts as they are; a later one is a new attempt.
BackupCrash ==
    /\ job.phase # "none"
    /\ job' = NoJob
    /\ UNCHANGED services /\ UNCHANGED <<started>> /\ UNCHANGED receipts

-----------------------------------------------------------------------------
(***************************************************************************)
(* restore_test into an isolated database and bucket, the operator and the *)
(* calendar                                                                *)
(***************************************************************************)
\* A private copy is verified, its hash compared with the one of a trusted receipt
\* (an archive's number stands for it), and what was restored with its manifest.
HashAgrees(a, sha256) == archives[a].file = "intact" /\ a = sha256
RestoreTest(a, sha256) ==
    /\ archives[a].file # "removed"
    /\ HashAgrees(a, sha256)
    /\ restored' = [refs |-> archives[a].refs, copied |-> archives[a].copied, sha256 |-> sha256]
    /\ UNCHANGED services /\ UNCHANGED <<job, started, attempt, receipt, archives>>

\* (An edit in the second before the receipt, which no modification time shows, is
\* left out.)
OperatorTouches(a) ==
    /\ job.phase # "linked"
    /\ archives[a].file = "intact"
    /\ \E file \in {"edited", "removed"} : archives' = [archives EXCEPT ![a].file = file]
    /\ UNCHANGED services /\ UNCHANGED <<job, started, attempt, receipt, restored>>

DayPasses ==
    /\ receipt # None
    /\ ~receipt.stale
    /\ receipt' = [receipt EXCEPT !.stale = TRUE]
    /\ UNCHANGED services /\ UNCHANGED <<job, started, attempt, archives, restored>>

BackupNext ==
    \/ \E r \in Reference : PutObject(r) \/ EndWrite(r)
    \/ BackupStart \/ BackupList \/ BackupDump
    \/ \E o \in Objects : BackupCopy(o)
    \/ BackupRelist \/ BackupLink \/ BackupReceipt \/ BackupDone \/ BackupFail \/ BackupCrash
    \/ \E a \in 1 .. Len(archives) :
          OperatorTouches(a) \/ \E sha256 \in 1 .. Len(archives) : RestoreTest(a, sha256)
    \/ DayPasses

BackupSpec == BackupInit /\ [][BackupNext]_backupVars

\* backup_state: what the terminal shows.
BackupHealth ==
    IF attempt # None /\ attempt.state # "VERIFIED" /\ (receipt = None \/ attempt.later)
    THEN IF attempt.state = "FAILED" THEN "FAILED" ELSE "NOT_VERIFIED"
    ELSE IF receipt = None THEN "NOT_VERIFIED"
    ELSE IF archives[receipt.archive].file # "intact" THEN "FAILED"
    ELSE IF receipt.stale THEN "STALE" ELSE "VERIFIED"

-----------------------------------------------------------------------------
(***************************************************************************)
(* Properties.                                                             *)
(***************************************************************************)

\* "Database references must match the archived hashes and sizes.  Objects are ...
\* checked against an unchanged final inventory" (docs/MANAGED_BACKUP.md:14-18): an
\* archive that has its name is one cut of both stores.  It holds the bucket as it
\* was at the instant of the database snapshot, and every object its rows name.
ArchiveIsOneCut ==
    \A i \in 1 .. Len(archives) :
        LET a == archives[i] IN
        /\ a.copied = a.cut
        /\ \A r \in a.refs : a.copied[r.key] = r.bytes

\* VERIFIED is shown only while the archive of the receipt is there as it was
\* written, and no backup that started later failed, died or is still at work.
VerifiedIsLatest ==
    BackupHealth = "VERIFIED" =>
        /\ archives[receipt.archive].file = "intact"
        /\ receipt.archive = Len(archives)
        /\ job.phase \in {"none", "receipted"}

\* A restore test that passed has brought back the cut of the archive whose hash
\* the operator trusted, whatever became of the file since.
RestoredIsTheCut ==
    restored # None =>
        LET a == archives[restored.sha256] IN restored.refs = a.refs /\ restored.copied = a.cut

\* What the terminal and the receipts say of the backups can be relied on.
BackupsAreTrue == ArchiveIsOneCut /\ VerifiedIsLatest /\ RestoredIsTheCut
=============================================================================
