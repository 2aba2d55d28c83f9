------------------------------ MODULE DataDrop ------------------------------
(***************************************************************************)
(* The file inbox: services/api/app/{data_drop,data_drop_api}.py.          *)
(*                                                                         *)
(* A file is received, mapped, approved, imported into a new version of a  *)
(* dataset and archived, or rejected.  The upload endpoints run on the     *)
(* event loop, one after the other; mapping, import, rejection and the     *)
(* agent's archive notice run in threads, each in a session of its own.    *)
(* Every handler reads its row without a lock, works, and writes the row   *)
(* back by primary key when it commits: two steps, between which other     *)
(* sessions commit.  The ORM sends only the columns whose value differs    *)
(* from the one it loaded.  An import flushes early and so holds the row   *)
(* lock from then on; all other UPDATEs of the row wait for its end.       *)
(***************************************************************************)
EXTENDS Naturals, Sequences, FiniteSets, FiniteSetsExt

CONSTANTS
    Files,      \* row identifiers of external_files
    Contents,   \* file contents, known by their SHA-256
    Parseable,  \* the contents parse_file accepts
    Owners,     \* who uploads: the paired agents, and the browser (agent_id null)
    Agents,
    Mappings,   \* column mappings a reviewer may choose
    Verdict,    \* [Mappings -> outcomes of normalize]
    Sessions,   \* threads of the API
    None,       \* null
    MaxHistory, \* bound: no file is mapped or retried once the histories
                \* of all files are longer together
    MaxUploads  \* bound: no upload is retried once its history is longer

Verdicts == {"VALIDATED", "VALIDATED_WITH_WARNINGS", "VALIDATION_FAILED"}

ASSUME DataDropAssumption ==
    /\ Parseable \subseteq Contents
    /\ Agents \subseteq Owners
    /\ Verdict \in [Mappings -> Verdicts]
    /\ None \notin Files \cup Contents \cup Owners \cup Mappings
    /\ MaxHistory \in Nat
    /\ MaxUploads \in Nat

VARIABLES
    state, history, owner, content, duplicateOf, mapping, \* columns of the rows
    stored,    \* the rows with an uploaded_file_id: their bytes are in storage
    original,  \* file_hashes: [Contents -> Files \cup {None}]
    versions,  \* dataset_versions of the datasets of one name, source and type
    retry,     \* the receive that is storing a failed upload again, or NoRetry
    pc, work   \* phase and loaded row of each session

rowVars == <<state, history, owner, content, duplicateOf, mapping>>
vars == <<rowVars, stored, original, versions, retry, pc, work>>

\* TRANSITIONS
Successors(s) ==
    CASE s = "DETECTED" -> {"HASHING"}
      [] s = "HASHING" -> {"UPLOADING", "DUPLICATE"}
      [] s = "UPLOADING" -> {"STORED_RAW", "UPLOAD_FAILED"}
      [] s = "STORED_RAW" -> {"PREVIEWING"}
      [] s = "PREVIEWING" -> {"SCHEMA_DETECTED", "QUARANTINED"}
      [] s = "SCHEMA_DETECTED" -> {"MAPPING_REQUIRED"}
      [] s = "MAPPED" -> {"VALIDATING"}
      [] s = "VALIDATING" -> Verdicts
      [] s \in {"VALIDATED", "VALIDATED_WITH_WARNINGS"} -> {"AWAITING_APPROVAL"}
      [] s \in {"MAPPING_REQUIRED", "VALIDATION_FAILED", "IMPORT_FAILED"} -> {"MAPPED", "REJECTED"}
      [] s = "AWAITING_APPROVAL" -> {"IMPORTING", "MAPPED", "REJECTED"}
      [] s = "IMPORTING" -> {"IMPORTED", "IMPORT_FAILED"}
      [] s = "IMPORTED" -> {"ARCHIVED"}
      [] s = "UPLOAD_FAILED" -> {"UPLOADING", "REJECTED"}
      [] s = "QUARANTINED" -> {"REJECTED"}
      [] OTHER -> {}

Transient == {"DETECTED", "HASHING", "UPLOADING", "STORED_RAW", "PREVIEWING",
              "SCHEMA_DETECTED", "MAPPED", "VALIDATING", "VALIDATED",
              "VALIDATED_WITH_WARNINGS", "IMPORTING"}
\* The states a commit may leave behind.
Committed == {"MAPPING_REQUIRED", "VALIDATION_FAILED", "AWAITING_APPROVAL", "IMPORTED",
              "IMPORT_FAILED", "ARCHIVED", "UPLOAD_FAILED", "DUPLICATE", "QUARANTINED",
              "REJECTED"}
FileState == Transient \cup Committed

Operations == {"map", "import", "reject", "archive"}
Loaded == [file: Files, op: Operations, state: Committed, history: Seq(FileState),
           mapping: Mappings \cup {None}, chosen: Mappings \cup {None},
           dataset: Files \cup {None}, number: Nat]
NoWork == [file |-> None]
Retry == [file: Files, history: Seq(FileState)]
NoRetry == [file |-> None]
\* A datasets row is known by the file whose import created it.
Version == [dataset: Files, number: Nat, file: Files, mapping: Mappings \cup {None}]

TypeOK ==
    /\ state \in [Files -> Committed \cup {"NONE"}]
    /\ history \in [Files -> Seq(FileState)]
    /\ owner \in [Files -> Owners \cup {None}]
    /\ content \in [Files -> Contents \cup {None}]
    /\ duplicateOf \in [Files -> Files \cup {None}]
    /\ mapping \in [Files -> Mappings \cup {None}]
    /\ stored \subseteq Files
    /\ original \in [Contents -> Files \cup {None}]
    /\ versions \subseteq Version
    /\ retry \in Retry \cup {NoRetry}
    /\ pc \in [Sessions -> {"idle", "loaded", "importing"}]
    /\ work \in [Sessions -> Loaded \cup {NoWork}]

Init ==
    /\ state = [f \in Files |-> "NONE"]
    /\ history = [f \in Files |-> <<>>]
    /\ owner = [f \in Files |-> None]
    /\ content = [f \in Files |-> None]
    /\ duplicateOf = [f \in Files |-> None]
    /\ mapping = [f \in Files |-> None]
    /\ stored = {}
    /\ original = [c \in Contents |-> None]
    /\ versions = {}
    /\ retry = NoRetry
    /\ pc = [s \in Sessions |-> "idle"]
    /\ work = [s \in Sessions |-> NoWork]

\* An UPDATE waits for the session that has flushed the row.
Unlocked(f) == \A s \in Sessions : pc[s] = "importing" => work[s].file # f

Last(path) == path[Len(path)]

HistoryBound == MapThenSumSet(LAMBDA f : Len(history[f]), Files) <= MaxHistory

-----------------------------------------------------------------------------
(***************************************************************************)
(* receive                                                                 *)
(***************************************************************************)
\* What becomes of the bytes: stored, parsed or quarantined; or not stored.
Preview(c) == IF c \in Parseable THEN <<"SCHEMA_DETECTED", "MAPPING_REQUIRED">>
              ELSE <<"QUARANTINED">>
StoredPath(c) == <<"UPLOADING", "STORED_RAW", "PREVIEWING">> \o Preview(c)
FailedPath == <<"UPLOADING", "UPLOAD_FAILED">>

\* The FileHash of the content.  Mutant: only imported files are looked for.
RecordedImported(c) ==
    IF original[c] # None /\ state[original[c]] \in {"IMPORTED", "ARCHIVED"} THEN original[c]
    ELSE None
Recorded(c) == original[c]

\* The original may be stored again.  Mutant: it never is.
NeverRetried(c, o) == FALSE
Retriable(c, o) ==
    LET f == Recorded(c) IN f # None /\ state[f] = "UPLOAD_FAILED" /\ owner[f] = o

NewRow(f, c, o, path, original_of) ==
    /\ state' = [state EXCEPT ![f] = Last(path)]
    /\ history' = [history EXCEPT ![f] = <<"DETECTED", "HASHING">> \o path]
    /\ owner' = [owner EXCEPT ![f] = o]
    /\ content' = [content EXCEPT ![f] = c]
    /\ duplicateOf' = [duplicateOf EXCEPT ![f] = original_of]
    /\ UNCHANGED mapping

ReceiveNew(f, c, o) ==
    /\ retry = NoRetry
    /\ state[f] = "NONE"
    /\ Recorded(c) = None
    /\ original' = [original EXCEPT ![c] = f]
    /\ \/ NewRow(f, c, o, StoredPath(c), None) /\ stored' = stored \cup {f}
       \/ NewRow(f, c, o, FailedPath, None) /\ UNCHANGED stored
    /\ UNCHANGED <<versions, retry, pc, work>>

ReceiveDuplicate(f, c, o) ==
    /\ retry = NoRetry
    /\ state[f] = "NONE"
    /\ Recorded(c) # None
    /\ ~Retriable(c, o)
    /\ NewRow(f, c, o, <<"DUPLICATE">>, Recorded(c))
    /\ UNCHANGED <<stored, original, versions, retry, pc, work>>

\* The new row is dropped and the failed one loaded in its place.
RetryLoad(c, o) ==
    /\ retry = NoRetry
    /\ Retriable(c, o)
    /\ HistoryBound
    /\ Len(history[Recorded(c)]) <= MaxUploads
    /\ retry' = [file |-> Recorded(c), history |-> history[Recorded(c)]]
    /\ UNCHANGED <<rowVars, stored, original, versions, pc, work>>

RetryStored ==
    /\ retry # NoRetry
    /\ Unlocked(retry.file)
    /\ LET f == retry.file IN
       /\ state' = [state EXCEPT ![f] = Last(StoredPath(content[f]))]
       /\ history' = [history EXCEPT ![f] = retry.history \o StoredPath(content[f])]
       /\ stored' = stored \cup {f}
    /\ retry' = NoRetry
    /\ UNCHANGED <<owner, content, duplicateOf, mapping, original, versions, pc, work>>

\* The state ends as it was loaded and is not sent.
RetryFailed ==
    /\ retry # NoRetry
    /\ Unlocked(retry.file)
    /\ history' = [history EXCEPT ![retry.file] = retry.history \o FailedPath]
    /\ retry' = NoRetry
    /\ UNCHANGED <<state, owner, content, duplicateOf, mapping, stored, original, versions,
                   pc, work>>

\* The upload ends with an exception that is not handled.
RetryAborted ==
    /\ retry # NoRetry
    /\ retry' = NoRetry
    /\ UNCHANGED <<rowVars, stored, original, versions, pc, work>>

-----------------------------------------------------------------------------
(***************************************************************************)
(* map_validate, import_file, reject, archived                             *)
(***************************************************************************)
Load(s, f, op, chosen) ==
    /\ pc[s] = "idle"
    /\ pc' = [pc EXCEPT ![s] = "loaded"]
    /\ work' = [work EXCEPT ![s] =
           [file |-> f, op |-> op, state |-> state[f], history |-> history[f],
            mapping |-> mapping[f], chosen |-> chosen, dataset |-> None, number |-> 0]]
    /\ UNCHANGED <<rowVars, stored, original, versions, retry>>

Return(s) ==
    /\ pc' = [pc EXCEPT ![s] = "idle"]
    /\ work' = [work EXCEPT ![s] = NoWork]

\* The value of a column after the UPDATE of a session that loaded it as "seen".
Sent(seen, new, current) == IF new = seen THEN current ELSE new

\* The commit of a session that took its row along a path of transitions.
Save(w, path) ==
    /\ state' = [state EXCEPT ![w.file] = Sent(w.state, Last(path), @)]
    /\ history' = [history EXCEPT ![w.file] = w.history \o path]

\* Mutant: the last transition is forgotten.
MapPathUnapproved(m) == <<"MAPPED", "VALIDATING", Verdict[m]>>
MapPath(m) == <<"MAPPED", "VALIDATING", Verdict[m]>> \o
    (IF Verdict[m] = "VALIDATION_FAILED" THEN <<>> ELSE <<"AWAITING_APPROVAL">>)

MapLoad(s, f, m) ==
    /\ "MAPPED" \in Successors(state[f])
    /\ HistoryBound
    /\ Load(s, f, "map", m)

MapCommit(s) ==
    /\ pc[s] = "loaded"
    /\ LET w == work[s] IN
       /\ w.op = "map"
       /\ Unlocked(w.file)
       /\ Save(w, MapPath(w.chosen))
       /\ mapping' = [mapping EXCEPT ![w.file] = Sent(w.mapping, w.chosen, @)]
    /\ Return(s)
    /\ UNCHANGED <<owner, content, duplicateOf, stored, original, versions, retry>>

RejectLoad(s, f) == "REJECTED" \in Successors(state[f]) /\ Load(s, f, "reject", None)

\* Only the agent that sent the file.  Mutant: the file need not be imported.
ArchivableAny(f) == state[f] \in {"AWAITING_APPROVAL", "IMPORTED"}
Archivable(f) == "ARCHIVED" \in Successors(state[f])
ArchiveLoad(s, f) == owner[f] \in Agents /\ Archivable(f) /\ Load(s, f, "archive", None)

EndCommit(s) ==
    /\ pc[s] = "loaded"
    /\ LET w == work[s] IN
       /\ w.op \in {"reject", "archive"}
       /\ Unlocked(w.file)
       /\ Save(w, IF w.op = "reject" THEN <<"REJECTED">> ELSE <<"ARCHIVED">>)
    /\ Return(s)
    /\ UNCHANGED <<owner, content, duplicateOf, mapping, stored, original, versions, retry>>

\* The import revalidates the loaded mapping.  Mutant: it trusts the state.
RevalidatesNothing(w) == TRUE
Revalidates(w) == w.mapping \in Mappings /\ Verdict[w.mapping] # "VALIDATION_FAILED"

ImportLoad(s, f) == "IMPORTING" \in Successors(state[f]) /\ Load(s, f, "import", None)

\* begin_nested flushes IMPORTING, which takes the row lock.  Then the dataset of
\* the name, source and type is looked up, one of them when there are several,
\* and created when there is none; nothing makes the three unique, and a row
\* another import has created and not committed is not seen.  A dataset commits
\* with its first version.  Then its next version number is read.
VersionsOf(d) == {v \in versions : v.dataset = d}
Datasets == {v.dataset : v \in versions}
Found(f) == IF Datasets = {} THEN {f} ELSE Datasets
NextNumber(d) == Max({0} \cup {v.number : v \in VersionsOf(d)}) + 1
ImportFlush(s) ==
    /\ pc[s] = "loaded"
    /\ work[s].op = "import"
    /\ Revalidates(work[s])
    /\ Unlocked(work[s].file)
    /\ pc' = [pc EXCEPT ![s] = "importing"]
    /\ \E d \in Found(work[s].file) :
          work' = [work EXCEPT ![s].dataset = d, ![s].number = NextNumber(d)]
    /\ UNCHANGED <<rowVars, stored, original, versions, retry>>

\* (dataset_id, version) is unique.  Mutant: it is not.
NumberAlwaysFree(d, n) == TRUE
NumberFree(d, n) == \A v \in VersionsOf(d) : v.number # n

ImportCommit(s) ==
    /\ pc[s] = "importing"
    /\ LET w == work[s] IN
       /\ NumberFree(w.dataset, w.number)
       /\ versions' = versions \cup
             {[dataset |-> w.dataset, number |-> w.number, file |-> w.file, mapping |-> w.mapping]}
       /\ Save(w, <<"IMPORTING", "IMPORTED">>)
    /\ Return(s)
    /\ UNCHANGED <<owner, content, duplicateOf, mapping, stored, original, retry>>

\* ValueError, IntegrityError or OSError: the savepoint is rolled back.
ImportFailed(s) ==
    /\ pc[s] = "importing"
    /\ Save(work[s], <<"IMPORTING", "IMPORT_FAILED">>)
    /\ Return(s)
    /\ UNCHANGED <<owner, content, duplicateOf, mapping, stored, original, versions, retry>>

\* A refused request (422) or a lost session: everything is rolled back.
Abort(s) ==
    /\ pc[s] # "idle"
    /\ Return(s)
    /\ UNCHANGED <<rowVars, stored, original, versions, retry>>

-----------------------------------------------------------------------------
Receive ==
    \/ \E c \in Contents, o \in Owners :
          RetryLoad(c, o) \/ \E f \in Files : ReceiveNew(f, c, o) \/ ReceiveDuplicate(f, c, o)
    \/ RetryStored \/ RetryFailed \/ RetryAborted

Review(s) ==
    \/ \E f \in Files : RejectLoad(s, f) \/ ImportLoad(s, f) \/ ArchiveLoad(s, f)
    \/ \E f \in Files, m \in Mappings : MapLoad(s, f, m)
    \/ MapCommit(s) \/ EndCommit(s)
    \/ ImportFlush(s) \/ ImportCommit(s) \/ ImportFailed(s) \/ Abort(s)

Next == Receive \/ \E s \in Sessions : Review(s)

Spec == Init /\ [][Next]_vars

-----------------------------------------------------------------------------
(***************************************************************************)
(* Properties.                                                             *)
(***************************************************************************)

\* "FileHash enforces byte-level global deduplication; duplicates point to the
\* original record" (docs/DATA_LINEAGE.md:3-4), retried uploads included.
OneOriginal ==
    \A f \in Files : state[f] # "NONE" =>
        IF state[f] = "DUPLICATE"
        THEN duplicateOf[f] = original[content[f]] /\ state[duplicateOf[f]] # "DUPLICATE"
        ELSE original[content[f]] = f

\* A file under review, imported or archived has its bytes in storage, and one
\* that is imported or archived a version of the dataset, whatever stale handlers
\* wrote in between.
Backed ==
    \A f \in Files :
        /\ state[f] \notin {"NONE", "UPLOAD_FAILED", "DUPLICATE", "REJECTED"} => f \in stored
        /\ state[f] \in {"IMPORTED", "ARCHIVED"} => \E v \in versions : v.file = f

\* "Import revalidates" (docs/DATA_LINEAGE.md:12): a stale mapping can be written
\* under a row that another one made AWAITING_APPROVAL, but no version of the
\* dataset is ever made with a mapping that does not validate.
ImportedValid ==
    \A v \in versions : v.file \in stored /\ Verdict[v.mapping] # "VALIDATION_FAILED"

\* Racing imports into one dataset never share or skip a version number: each
\* datasets row has the versions 1 .. n.  This is less than "Same dataset name,
\* type and source creates the next version" (docs/DATA_LINEAGE.md:18): imports
\* that race to be the first each create a datasets row of that name, and each
\* begins at 1.
VersionsNumbered ==
    \A d \in Files :
        /\ \A v1, v2 \in VersionsOf(d) : v1.number = v2.number => v1 = v2
        /\ {v.number : v \in VersionsOf(d)} = 1 .. Cardinality(VersionsOf(d))

\* "Failed raw-storage writes retry the original hash/file identity"
\* (docs/LOCAL_DATA_AGENT.md:47-48): an uploader whose file is answered DUPLICATE
\* of its own earlier upload may rely on the bytes being stored, unless a
\* reviewer rejected it.
AcknowledgedIsStored ==
    \A f \in Files : (state[f] = "DUPLICATE" /\ owner[f] = owner[duplicateOf[f]]) =>
        duplicateOf[f] \in stored \/ state[duplicateOf[f]] = "REJECTED"

\* "Every transition records time and explanation" (docs/DATA_LINEAGE.md:12): the
\* history of a file only grows, and it ends in the state of the row.
TransitionsRecorded ==
    [][\A f \in Files :
          /\ Len(history[f]) <= Len(history'[f])
          /\ \A i \in DOMAIN history[f] : history'[f][i] = history[f][i]
          /\ state'[f] # "NONE" => history'[f][Len(history'[f])] = state'[f]]_vars
=============================================================================
