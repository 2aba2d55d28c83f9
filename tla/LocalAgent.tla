----------------------------- MODULE LocalAgent ------------------------------
(***************************************************************************)
(* The desktop agent: services/local-agent/agent.py.                       *)
(*                                                                         *)
(* Files dropped into the inbox are moved to processing, uploaded, moved   *)
(* to review and, once the server has finished with them, archived.  The   *)
(* agent keeps a SQLite queue whose primary key is the path of the file.   *)
(* A file system move and the commit of the queue are two steps, and the   *)
(* process may die between them: an uncommitted transaction is then lost.  *)
(* Replies may be lost.  The server is the view of DataDrop that an agent  *)
(* has over HTTP: one record per content, all of its duplicates final.     *)
(*                                                                         *)
(* Files of different names never meet, so the model has one name: a path  *)
(* is a folder and the key put before the name, which is the digest of the *)
(* content or a stamp (time_ns, uuid4).  Waiting times (attempts,          *)
(* retry_at), the PAUSE marker and the order of rows in a loop are left    *)
(* open: any row may be served next.                                       *)
(***************************************************************************)
EXTENDS Null, Naturals, FiniteSets

CONSTANTS
    Folders,    \* folders of the inbox
    Contents,   \* contents of files, known by their SHA-256
    Stamps,     \* keys that are unique in time
    Months,     \* of the processed folder, in their order: 1 .. the last one
    MaxDrops,   \* bound on the files dropped of each content
    MaxCrashes  \* bound on the ends of the process

Keys == Contents \cup Stamps
At(dir, month, key) == [dir |-> dir, month |-> month, key |-> key]
Inbox == {At("inbox", 0, f) : f \in Folders}
Processing == {At("processing", 0, k) : k \in Keys}
Review == {At("review", 0, k) : k \in Keys}
ArchivedPaths == {At("processed", m, k) : m \in 1 .. Months, k \in Keys}
           \cup {At(d, 0, k) : d \in {"rejected", "quarantine"}, k \in Keys}
Path == Inbox \cup Processing \cup Review \cup ArchivedPaths

\* TERMINAL_STATES.  MAPPING_REQUIRED stands for every state of a file under review.
Terminal == {"IMPORTED", "ARCHIVED", "DUPLICATE", "REJECTED", "QUARANTINED"}
ServerState == {"MAPPING_REQUIRED", "UPLOAD_FAILED", "IMPORTED", "ARCHIVED", "REJECTED",
                "QUARANTINED"}

Row == [hash: Contents, file: {None, "original", "duplicate"},
        state: {"QUEUED", "MAPPING_REQUIRED", "ARCHIVE_PENDING", "LOCAL_ARCHIVED"} \cup Terminal,
        archive: Path \cup {None}]
NoRow == [hash |-> None]
Queued(c) == [hash |-> c, file |-> None, state |-> "QUEUED", archive |-> None]

ASSUME AgentAssumption ==
    /\ Folders \cap Contents = {} /\ Folders \cap Stamps = {} /\ Contents \cap Stamps = {}
    /\ None \notin Folders \cup Contents \cup Stamps
    /\ None \notin Path
    /\ None \notin ServerState \cup Terminal \cup {"original", "duplicate"}
    /\ IsFiniteSet(Folders) /\ IsFiniteSet(Contents) /\ IsFiniteSet(Stamps)
    /\ Months \in Nat \ {0}
    /\ MaxDrops \in Nat
    /\ MaxCrashes \in Nat

VARIABLES
    disk,     \* what is stored at each path, or None
    queue,    \* committed rows of the table files, by path
    server,   \* state of the original record of each content, or None
    ours,     \* contents whose original record belongs to this agent
    month,    \* datetime.now(), in months
    agent,    \* the point the process has reached in a tick, "down" when it is not running
    step,     \* what it holds there: row being served, its target, the server's answer
    dropped,  \* how many files were dropped, by content
    crashes   \* ends of the process so far

agentVars == <<disk, queue, server, ours, month, agent, step, dropped, crashes>>

Step == [path: Path, target: Path \cup {None}, item: Terminal \cup {"MAPPING_REQUIRED", None},
         file: {None, "original", "duplicate"}]
NoStep == [path |-> None]

Phases == {"idle", "down", "moved", "answered", "reviewed", "planned", "placed", "acknowledged"}

AgentTypeOK ==
    /\ disk \in [Path -> Contents \cup {None}]
    /\ queue \in [Path -> Row \cup {NoRow}]
    /\ server \in [Contents -> ServerState \cup {None}]
    /\ ours \subseteq Contents
    /\ month \in 1 .. Months
    /\ agent \in Phases
    /\ step \in Step \cup {NoStep}
    /\ dropped \in [Contents -> Nat]
    /\ crashes \in Nat

AgentInit ==
    /\ disk = [p \in Path |-> None]
    /\ queue = [p \in Path |-> NoRow]
    /\ server = [c \in Contents |-> None]
    /\ ours = {}
    /\ month = 1
    /\ agent = "idle"
    /\ step = NoStep
    /\ dropped = [c \in Contents |-> 0]
    /\ crashes = 0

Here(p) == disk[p] # None
Tracked(p) == queue[p] # NoRow
\* No path on disk and none the queue knows uses the stamp.
Unused(s) == \A p \in Path :
    /\ p.key = s => ~Here(p) /\ ~Tracked(p)
    /\ Tracked(p) /\ queue[p].archive # None => queue[p].archive.key # s

Move(from, to) == disk' = [disk EXCEPT ![from] = None, ![to] = disk[from]]
Goto(phase, s) == agent' = phase /\ step' = s
\* The row has been served, or an error put it off.
Idle == Goto("idle", NoStep)
\* sqlite3.IntegrityError is none of the errors main handles: the process ends.
Dies == Goto("down", NoStep)

-----------------------------------------------------------------------------
(***************************************************************************)
(* scan                                                                    *)
(***************************************************************************)
\* Where a file goes: processing, under its digest when that path is free.
\* Mutant: the path is not tried first.
TargetUnchecked(c) == {At("processing", 0, c)}
ScanTargets(c) ==
    LET path == At("processing", 0, c) IN
    IF Here(path) THEN {At("processing", 0, s) : s \in {s \in Stamps : Unused(s)}} ELSE {path}

\* A file seen unchanged twice is moved ...
ScanMove(p) ==
    /\ agent = "idle"
    /\ Here(p)
    /\ \E target \in ScanTargets(disk[p]) :
          /\ Move(p, target)
          /\ Goto("moved", [path |-> target, target |-> None, item |-> None, file |-> None])
    /\ UNCHANGED <<queue, server, ours, month, dropped, crashes>>

\* ... and its row inserted and committed.
ScanInsert ==
    /\ agent = "moved"
    /\ IF Tracked(step.path)
       THEN Dies /\ UNCHANGED queue
       ELSE Idle /\ queue' = [queue EXCEPT ![step.path] = Queued(disk[step.path])]
    /\ UNCHANGED <<disk, server, ours, month, dropped, crashes>>

\* INSERT OR IGNORE of every file in processing.
Recovered(p) == p \in Processing /\ Here(p) /\ ~Tracked(p)
ScanRecover ==
    /\ agent = "idle"
    /\ \E p \in Path : Recovered(p)
    /\ queue' = [p \in Path |-> IF Recovered(p) THEN Queued(disk[p]) ELSE queue[p]]
    /\ UNCHANGED <<disk, server, ours, month, agent, step, dropped, crashes>>

-----------------------------------------------------------------------------
(***************************************************************************)
(* upload                                                                  *)
(***************************************************************************)
\* The server has the content of another record, which is not a failed upload of
\* this agent.
Duplicates(c) == server[c] # None /\ ~(server[c] = "UPLOAD_FAILED" /\ c \in ours)

\* POST /agent/v1/files.  When the reply is lost, or says that the server could not
\* store the file, the row stays queued.
UploadPost(p) ==
    /\ agent = "idle"
    /\ Tracked(p)
    /\ queue[p].state = "QUEUED"
    /\ disk[p] = queue[p].hash
    /\ LET c == queue[p].hash
           Answered(item, file) ==
               \/ Idle
               \/ /\ item # "UPLOAD_FAILED"
                  /\ Goto("answered", [path |-> p, target |-> None, item |-> item, file |-> file])
       IN \/ /\ Duplicates(c)
             /\ Answered("DUPLICATE", "duplicate")
             /\ UNCHANGED <<server, ours>>
          \/ /\ ~Duplicates(c)
             /\ \E item \in {"MAPPING_REQUIRED", "QUARANTINED", "UPLOAD_FAILED"} :
                   /\ Answered(item, "original")
                   /\ server' = [server EXCEPT ![c] = item]
             /\ ours' = ours \cup {c}
    /\ UNCHANGED <<disk, queue, month, dropped, crashes>>

\* The row as the reply leaves it.
Answered(p) == [queue[p] EXCEPT !.file = step.file, !.state = step.item]

\* A final answer, a name already taken in review or a failed rename: the row is
\* committed where it is.
UploadCommit ==
    /\ agent = "answered"
    /\ queue' = [queue EXCEPT ![step.path] = Answered(step.path)]
    /\ Idle
    /\ UNCHANGED <<disk, server, ours, month, dropped, crashes>>

\* Otherwise the file is moved to review, if that name is free ...
UploadMove ==
    /\ agent = "answered"
    /\ step.item \notin Terminal
    /\ LET target == At("review", 0, step.path.key) IN
       /\ ~Here(target)
       /\ Move(step.path, target)
       /\ Goto("reviewed", [step EXCEPT !.target = target])
    /\ UNCHANGED <<queue, server, ours, month, dropped, crashes>>

\* ... and the row follows it.
Follow(row) == queue' = [queue EXCEPT ![step.path] = NoRow, ![step.target] = row]
UploadFollow ==
    /\ agent = "reviewed"
    /\ IF Tracked(step.target)
       THEN Dies /\ UNCHANGED queue
       ELSE Idle /\ Follow(Answered(step.path))
    /\ UNCHANGED <<disk, server, ours, month, dropped, crashes>>

-----------------------------------------------------------------------------
(***************************************************************************)
(* sync and _archive                                                       *)
(***************************************************************************)
\* GET /agent/v1/files for the file_id of a row.  (A state that is not final is only
\* copied into the row; here it is MAPPING_REQUIRED already.)
Status(row) == IF row.file = "duplicate" THEN "DUPLICATE" ELSE server[row.hash]

ArchiveDir(item, key) ==
    CASE item = "QUARANTINED" -> At("quarantine", 0, key)
      [] item = "REJECTED" -> At("rejected", 0, key)
      [] OTHER -> At("processed", month, key)
\* The destination planned in the row, or a free one.  Mutant: the plan is not kept.
ReplannedTargets(p, item) ==
    LET path == ArchiveDir(item, p.key) IN
    IF Here(path) THEN {ArchiveDir(item, s) : s \in {s \in Stamps : Unused(s)}} ELSE {path}
ArchiveTargets(p, item) ==
    IF queue[p].archive # None THEN {queue[p].archive} ELSE ReplannedTargets(p, item)

\* The intent is committed before the file is moved.
ArchivePlan(p) ==
    /\ agent = "idle"
    /\ Tracked(p)
    /\ queue[p].file # None
    /\ queue[p].state # "LOCAL_ARCHIVED"
    /\ Status(queue[p]) \in Terminal
    /\ queue[p].archive = None => disk[p] = queue[p].hash
    /\ \E target \in ArchiveTargets(p, Status(queue[p])) :
          /\ queue' = [queue EXCEPT ![p].archive = target, ![p].state = "ARCHIVE_PENDING"]
          /\ Goto("planned", [path |-> p, target |-> target, item |-> Status(queue[p]),
                              file |-> queue[p].file])
    /\ UNCHANGED <<disk, server, ours, month, dropped, crashes>>

\* The file is moved, unless an interrupted archive had moved it already, and its
\* hash is checked again.  A missing file or a failed rename puts the row off.
ArchivePlace ==
    /\ agent = "planned"
    /\ \/ Idle /\ UNCHANGED disk
       \/ /\ Here(step.target)
          /\ disk[step.target] = queue[step.path].hash
          /\ Goto("placed", step)
          /\ UNCHANGED disk
       \/ /\ ~Here(step.target)
          /\ disk[step.path] = queue[step.path].hash
          /\ Move(step.path, step.target)
          /\ Goto("placed", step)
    /\ UNCHANGED <<queue, server, ours, month, dropped, crashes>>

\* An imported file is acknowledged (POST .../archived); the reply may be lost.
\* Mutant: a lost reply is not noticed.
ReplyUnseen(reply) == TRUE
ReplySeen(reply) == reply = "ARCHIVED"
ArchiveAcknowledge ==
    /\ agent = "placed"
    /\ IF step.item # "IMPORTED"
       THEN Goto("acknowledged", step) /\ UNCHANGED server
       ELSE LET c == queue[step.path].hash IN
            \E reply \in {"ARCHIVED", "lost", "unsent"} :
               /\ server' = [server EXCEPT ![c] = IF reply = "unsent" THEN @ ELSE "ARCHIVED"]
               /\ IF ReplySeen(reply) THEN Goto("acknowledged", step) ELSE Idle
    /\ UNCHANGED <<disk, queue, ours, month, dropped, crashes>>

\* The last commit of the journal.
ArchiveCommit ==
    /\ agent = "acknowledged"
    /\ IF Tracked(step.target)
       THEN Dies /\ UNCHANGED queue
       ELSE /\ Idle
            /\ Follow([queue[step.path] EXCEPT !.state = "LOCAL_ARCHIVED", !.archive = None])
    /\ UNCHANGED <<disk, server, ours, month, dropped, crashes>>

-----------------------------------------------------------------------------
(***************************************************************************)
(* The process, the user, the reviewers and the calendar                   *)
(***************************************************************************)
AgentCrash ==
    /\ agent # "down"
    /\ crashes < MaxCrashes
    /\ Dies
    /\ crashes' = crashes + 1
    /\ UNCHANGED <<disk, queue, server, ours, month, dropped>>

AgentRestart ==
    /\ agent = "down"
    /\ Idle
    /\ UNCHANGED <<disk, queue, server, ours, month, dropped, crashes>>

DropFile(p, c) ==
    /\ ~Here(p)
    /\ dropped[c] < MaxDrops
    /\ disk' = [disk EXCEPT ![p] = c]
    /\ dropped' = [dropped EXCEPT ![c] = @ + 1]
    /\ UNCHANGED <<queue, server, ours, month, agent, step, crashes>>

\* Reviewers and other uploaders (see DataDrop).
ServerMoves(c) ==
    /\ \/ /\ server[c] = "MAPPING_REQUIRED"
          /\ \E s \in {"IMPORTED", "REJECTED"} : server' = [server EXCEPT ![c] = s]
       \/ /\ server[c] \in {"UPLOAD_FAILED", "QUARANTINED"}
          /\ server' = [server EXCEPT ![c] = "REJECTED"]
       \/ /\ server[c] = None
          /\ \E s \in {"MAPPING_REQUIRED", "QUARANTINED", "UPLOAD_FAILED"} :
                server' = [server EXCEPT ![c] = s]
    /\ UNCHANGED <<disk, queue, ours, month, agent, step, dropped, crashes>>

MonthEnds ==
    /\ month < Months
    /\ month' = month + 1
    /\ UNCHANGED <<disk, queue, server, ours, agent, step, dropped, crashes>>

AgentNext ==
    \/ \E p \in Inbox : ScanMove(p) \/ \E c \in Contents : DropFile(p, c)
    \/ ScanInsert \/ ScanRecover
    \/ \E p \in Path : UploadPost(p) \/ ArchivePlan(p)
    \/ UploadCommit \/ UploadMove \/ UploadFollow
    \/ ArchivePlace \/ ArchiveAcknowledge \/ ArchiveCommit
    \/ AgentCrash \/ AgentRestart \/ MonthEnds
    \/ \E c \in Contents : ServerMoves(c)

AgentSpec == AgentInit /\ [][AgentNext]_agentVars

-----------------------------------------------------------------------------
(***************************************************************************)
(* Properties.                                                             *)
(***************************************************************************)

\* No file is ever overwritten or lost by a move, whatever the names in use and
\* wherever the process dies: each content is on disk as often as it was dropped.
FilesKept == \A c \in Contents : Cardinality({p \in Path : disk[p] = c}) = dropped[c]

\* "Missing or modified content is never marked LOCAL_ARCHIVED", "Imported files are
\* archived; rejected and quarantined files retain separate destination folders"
\* (docs/LOCAL_DATA_AGENT.md:33-40): an archived row has its file in the folder of
\* what became of it, and the server knows: the record is archived, or was refused.
\* An archived duplicate has an original that was stored or refused, unless the
\* failed upload of somebody else holds the hash.
ArchivedIsSettled ==
    \A p \in Path : Tracked(p) /\ queue[p].state = "LOCAL_ARCHIVED" =>
        LET c == queue[p].hash IN
        /\ p \in ArchivedPaths
        /\ disk[p] = c
        /\ queue[p].file = "original" =>
              CASE p.dir = "processed" -> server[c] = "ARCHIVED"
                [] p.dir = "rejected" -> server[c] = "REJECTED"
                [] OTHER -> server[c] \in {"QUARANTINED", "REJECTED"}
        /\ queue[p].file = "duplicate" =>
              server[c] # None /\ (server[c] = "UPLOAD_FAILED" => c \notin ours)

\* "A restart can then find either source or destination without guessing a new
\* archive month" (agent.py:257): while an archive is pending its plan stands and its
\* file is at one of the two ends.
JournalHolds ==
    [][\A p \in Path : Tracked(p) /\ queue[p].state = "ARCHIVE_PENDING" =>
          LET plan == queue[p].archive IN
          /\ queue[p].hash \in {disk[p], disk[plan]}
          /\ \/ queue'[p] = queue[p]
             \/ ~Tracked(p)' /\ queue'[plan].state = "LOCAL_ARCHIVED"]_agentVars

\* "A network failure or interrupted rename can resume after restart"
\* (docs/LOCAL_DATA_AGENT.md:32): nothing stands in the way of the last commit of a
\* pending archive.
InterruptedArchiveResumes ==
    \A p \in Path : Tracked(p) /\ queue[p].state = "ARCHIVE_PENDING" => ~Tracked(queue[p].archive)
=============================================================================
