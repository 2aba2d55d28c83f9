-------------------------- MODULE DataDrop_proofs --------------------------
(***************************************************************************)
(* Proofs about DataDrop, for any sets of files, contents, owners,         *)
(* mappings and sessions.                                                  *)
(*                                                                         *)
(* Handlers write rows they loaded earlier, so no state a row is in now    *)
(* can be relied on when they commit.  What makes the properties inductive *)
(* is what a loaded row says for ever (SessionInv): its bytes are stored,  *)
(* an archived one has a version, a duplicate is never loaded, and a       *)
(* version number read earlier is at most one beyond those given since.    *)
(***************************************************************************)
EXTENDS DataDrop, FiniteSetTheorems, SequenceTheorems, TLAPS

HasVersion(f) == \E v \in versions : v.file = f

RowInv ==
    /\ \A f \in Files : state[f] # "NONE" => content[f] \in Contents
    /\ \A c \in Contents : original[c] # None =>
           content[original[c]] = c /\ state[original[c]] \notin {"NONE", "DUPLICATE"}

DuplicateHasOriginal == \A f \in Files : state[f] = "DUPLICATE" => duplicateOf[f] # None

SessionInv ==
    /\ retry # NoRetry => retry \in Retry /\ state[retry.file] \notin {"NONE", "DUPLICATE"}
    /\ \A s \in Sessions :
           /\ pc[s] # "idle" =>
                  /\ work[s] \in Loaded
                  /\ state[work[s].file] \notin {"NONE", "DUPLICATE"}
                  /\ work[s].op # "reject" => work[s].file \in stored
                  /\ work[s].op = "map" => work[s].chosen \in Mappings
                  /\ work[s].op = "archive" => HasVersion(work[s].file)
           /\ pc[s] = "importing" =>
                  /\ work[s].op = "import" /\ Revalidates(work[s])
                  /\ work[s].dataset \in Files
                  /\ work[s].number \in 1 .. (Cardinality(VersionsOf(work[s].dataset)) + 1)

IInv ==
    /\ TypeOK
    /\ RowInv
    /\ SessionInv
    /\ OneOriginal
    /\ DuplicateHasOriginal
    /\ Backed
    /\ ImportedValid
    /\ VersionsNumbered
    /\ IsFiniteSet(versions)
    /\ AcknowledgedIsStored

-----------------------------------------------------------------------------
LEMMA Initially == Init => IInv
<1> SUFFICES ASSUME Init PROVE IInv
  OBVIOUS
<1>1. TypeOK
  BY DEF Init, TypeOK
<1>2. /\ RowInv /\ OneOriginal /\ DuplicateHasOriginal
      /\ Backed /\ ImportedValid /\ AcknowledgedIsStored
  BY DEF Init, RowInv, OneOriginal, DuplicateHasOriginal, Backed, ImportedValid, AcknowledgedIsStored
<1>3. SessionInv
  BY DEF Init, SessionInv, NoRetry
<1>4. VersionsNumbered /\ IsFiniteSet(versions)
  BY FS_EmptySet DEF Init, VersionsNumbered, VersionsOf
<1> QED
  BY <1>1, <1>2, <1>3, <1>4 DEF IInv

(***************************************************************************)
(* The paths of transitions, and where they end.                           *)
(***************************************************************************)
LEMMA Joined ==
    ASSUME NEW S, NEW a \in Seq(S), NEW b \in Seq(S), b # <<>>
    PROVE  a \o b \in Seq(S) /\ a \o b # <<>> /\ Last(a \o b) = Last(b)
<1>1. Len(b) \in Nat \ {0} /\ Len(a) \in Nat
  OBVIOUS
<1>2. a \o b \in Seq(S) /\ Len(a \o b) = Len(a) + Len(b)
        /\ (a \o b)[Len(a) + Len(b)] = b[Len(b)]
  BY <1>1, ConcatProperties
<1> QED
  BY <1>1, <1>2 DEF Last

LEMMA PathOfStored ==
    ASSUME NEW c
    PROVE  /\ StoredPath(c) \in Seq(FileState) /\ StoredPath(c) # <<>>
           /\ Last(StoredPath(c)) \in {"MAPPING_REQUIRED", "QUARANTINED"}
<1> DEFINE begin == <<"UPLOADING", "STORED_RAW", "PREVIEWING">>
<1>1. /\ Preview(c) \in Seq(FileState) /\ Preview(c) # <<>>
      /\ Last(Preview(c)) \in {"MAPPING_REQUIRED", "QUARANTINED"}
  <2>1. CASE c \in Parseable
    BY <2>1 DEF Preview, Last, FileState, Transient, Committed
  <2>2. CASE c \notin Parseable
    BY <2>2 DEF Preview, Last, FileState, Transient, Committed
  <2> QED
    BY <2>1, <2>2
<1>2. begin \in Seq(FileState)
  BY DEF FileState, Transient
<1> HIDE DEF begin
<1>3. StoredPath(c) = begin \o Preview(c)
  BY DEF StoredPath, begin
<1> QED
  BY <1>1, <1>2, <1>3, Joined

LEMMA PathOfFailed ==
    /\ FailedPath \in Seq(FileState) /\ FailedPath # <<>>
    /\ Last(FailedPath) = "UPLOAD_FAILED"
BY DEF FailedPath, Last, FileState, Transient, Committed

LEMMA PathOfMapping ==
    ASSUME NEW m \in Mappings
    PROVE  /\ MapPath(m) \in Seq(FileState) /\ MapPath(m) # <<>>
           /\ Last(MapPath(m)) \in {"VALIDATION_FAILED", "AWAITING_APPROVAL"}
<1> DEFINE begin == <<"MAPPED", "VALIDATING", Verdict[m]>>
           end == <<"AWAITING_APPROVAL">>
<1>1. Verdict[m] \in Verdicts
  BY DataDropAssumption
<1>2. begin \in Seq(FileState) /\ Last(begin) = Verdict[m] /\ begin # <<>>
  BY <1>1 DEF FileState, Transient, Committed, Verdicts, Last
<1>3. end \in Seq(FileState) /\ end # <<>> /\ Last(end) = "AWAITING_APPROVAL"
  BY DEF FileState, Committed, Last
<1>4. CASE Verdict[m] = "VALIDATION_FAILED"
  <2>1. MapPath(m) = begin \o <<>>
    BY <1>4 DEF MapPath
  <2>2. MapPath(m) = begin
    BY <1>2, <2>1, ConcatEmptySeq
  <2> QED
    BY <1>2, <1>4, <2>2
<1>5. CASE Verdict[m] # "VALIDATION_FAILED"
  <2> HIDE DEF begin, end
  <2>1. MapPath(m) = begin \o end
    BY <1>5 DEF MapPath, begin, end
  <2> QED
    BY <1>2, <1>3, <2>1, Joined
<1> QED
  BY <1>4, <1>5

LEMMA ShortPaths ==
    \A s \in {"REJECTED", "ARCHIVED", "DUPLICATE"} :
        <<s>> \in Seq(FileState) /\ <<s>> # <<>> /\ Last(<<s>>) = s
BY DEF FileState, Transient, Committed, Last

LEMMA ImportPaths ==
    \A s \in {"IMPORTED", "IMPORT_FAILED"} :
        /\ <<"IMPORTING", s>> \in Seq(FileState) /\ <<"IMPORTING", s>> # <<>>
        /\ Last(<<"IMPORTING", s>>) = s
BY DEF FileState, Transient, Committed, Last

\* The states a handler may load a row in.
LEMMA LoadedStates ==
    ASSUME NEW t \in Committed \cup {"NONE"}
    PROVE  /\ "MAPPED" \in Successors(t) =>
                  t \in {"MAPPING_REQUIRED", "VALIDATION_FAILED", "IMPORT_FAILED",
                         "AWAITING_APPROVAL"}
           /\ "IMPORTING" \in Successors(t) => t = "AWAITING_APPROVAL"
           /\ "ARCHIVED" \in Successors(t) => t = "IMPORTED"
           /\ "REJECTED" \in Successors(t) => t \in Committed \ {"DUPLICATE"}
BY DEF Successors, Committed, Verdicts

\* The versions of a dataset are finitely many, and only grow with the others.
LEMMA VersionsOfFinite ==
    ASSUME IsFiniteSet(versions), NEW d
    PROVE  IsFiniteSet(VersionsOf(d)) /\ Cardinality(VersionsOf(d)) \in Nat
BY FS_Subset, FS_CardinalityType DEF VersionsOf

LEMMA VersionsOfGrow ==
    ASSUME IsFiniteSet(versions'), versions \subseteq versions', NEW d
    PROVE  /\ Cardinality(VersionsOf(d)) \in Nat
           /\ Cardinality({v \in versions' : v.dataset = d}) \in Nat
           /\ Cardinality(VersionsOf(d)) <= Cardinality({v \in versions' : v.dataset = d})
<1> DEFINE after == {v \in versions' : v.dataset = d}
<1>1. IsFiniteSet(after)
  BY FS_Subset
<1>2. VersionsOf(d) \subseteq after
  BY DEF VersionsOf
<1> QED
  BY <1>1, <1>2, FS_Subset, FS_CardinalityType

\* The next number of the versions of a dataset that are numbered 1 .. n.
LEMMA NextIsOneMore ==
    ASSUME VersionsNumbered, IsFiniteSet(versions), NEW d \in Files
    PROVE  NextNumber(d) = Cardinality(VersionsOf(d)) + 1
<1> DEFINE n == Cardinality(VersionsOf(d))
           S == {0} \cup {v.number : v \in VersionsOf(d)}
<1>1. n \in Nat
  BY VersionsOfFinite
<1>2. S = 0 .. n
  <2>1. {v.number : v \in VersionsOf(d)} = 1 .. n
    BY DEF VersionsNumbered
  <2> QED
    BY <1>1, <2>1
<1>3. NextNumber(d) = Max(S) + 1
  BY DEF NextNumber
<1> HIDE DEF n, S
<1>4. Max(S) = n
  <2>1. \A x \in S : (\A y \in S : x >= y) <=> x = n
    BY <1>1, <1>2
  <2>2. n \in S
    BY <1>1, <1>2
  <2> QED
    BY <2>1, <2>2 DEF Max
<1> QED
  BY <1>3, <1>4 DEF n

\* The dataset an import finds, or creates.
LEMMA FoundIsDataset ==
    ASSUME TypeOK, NEW f \in Files
    PROVE  Found(f) \subseteq Files
<1>1. Datasets \subseteq Files
  BY DEF Datasets, TypeOK, Version
<1>2. CASE Datasets = {}
  BY <1>2 DEF Found
<1>3. CASE Datasets # {}
  BY <1>1, <1>3 DEF Found
<1> QED
  BY <1>2, <1>3

-----------------------------------------------------------------------------
(***************************************************************************)
(* What every commit keeps.                                                *)
(***************************************************************************)
\* A row that is not a duplicate gets a new state that its bytes and versions bear
\* out.
LEMMA RowStep ==
    ASSUME IInv, NEW f \in Files, NEW t \in Committed \ {"DUPLICATE"},
           state[f] \notin {"NONE", "DUPLICATE"},
           state' = [state EXCEPT ![f] = t],
           UNCHANGED <<owner, content, duplicateOf, original>>,
           stored \subseteq stored', versions \subseteq versions',
           t \in {"UPLOAD_FAILED", "REJECTED"} \/ f \in stored',
           t = "UPLOAD_FAILED" => state[f] = "UPLOAD_FAILED",
           t \in {"IMPORTED", "ARCHIVED"} => \E v \in versions' : v.file = f
    PROVE  RowInv' /\ OneOriginal' /\ DuplicateHasOriginal' /\ Backed' /\ AcknowledgedIsStored'
<1>1. state \in [Files -> Committed \cup {"NONE"}] /\ original \in [Contents -> Files \cup {None}]
        /\ duplicateOf \in [Files -> Files \cup {None}]
  BY DEF IInv, TypeOK
<1>2. state'[f] = t /\ \A g \in Files : g # f => state'[g] = state[g]
  BY <1>1
<1>3. RowInv'
  BY <1>1, <1>2, DataDropAssumption DEF IInv, RowInv, Committed
<1>4. \A g \in Files : state'[g] = "NONE" <=> state[g] = "NONE"
  BY <1>1, <1>2 DEF Committed
<1>5. \A g \in Files : state'[g] = "DUPLICATE" <=> state[g] = "DUPLICATE"
  BY <1>1, <1>2
<1>6. \A g \in Files : state[g] = "DUPLICATE" => duplicateOf[g] \in Files
  BY <1>1 DEF IInv, DuplicateHasOriginal
<1>7. OneOriginal'
  BY <1>4, <1>5, <1>6 DEF IInv, OneOriginal
<1>8. ASSUME NEW g \in Files
      PROVE  /\ state'[g] \notin {"NONE", "UPLOAD_FAILED", "DUPLICATE", "REJECTED"} => g \in stored'
             /\ state'[g] \in {"IMPORTED", "ARCHIVED"} => \E v \in versions' : v.file = g
  BY <1>1, <1>2 DEF IInv, Backed
<1>9. Backed'
  BY <1>8 DEF Backed
<1>10. ASSUME NEW g \in Files, state'[g] = "DUPLICATE", owner'[g] = owner'[duplicateOf'[g]]
       PROVE  duplicateOf'[g] \in stored' \/ state'[duplicateOf'[g]] = "REJECTED"
  <2>1. duplicateOf[g] \in stored \/ state[duplicateOf[g]] = "REJECTED"
    BY <1>5, <1>10 DEF IInv, AcknowledgedIsStored
  <2>2. duplicateOf[g] \in Files
    BY <1>5, <1>6, <1>10
  <2> QED
    BY <1>2, <2>1, <2>2
<1>11. AcknowledgedIsStored'
  BY <1>10 DEF AcknowledgedIsStored
<1>12. DuplicateHasOriginal'
  BY <1>5 DEF IInv, DuplicateHasOriginal
<1> QED
  BY <1>3, <1>7, <1>9, <1>11, <1>12

\* A loaded row keeps what is true of it for ever.
LEMMA SessionsKeep ==
    ASSUME IInv, retry' \in {retry, NoRetry},
           \A s \in Sessions : pc'[s] = "idle" \/ (pc'[s] = pc[s] /\ work'[s] = work[s]),
           \A f \in Files : state[f] \notin {"NONE", "DUPLICATE"} =>
               state'[f] \notin {"NONE", "DUPLICATE"},
           stored \subseteq stored', versions \subseteq versions', IsFiniteSet(versions')
    PROVE  SessionInv'
<1>1. \A d \in Files :
          /\ Cardinality(VersionsOf(d)) \in Nat
          /\ Cardinality({v \in versions' : v.dataset = d}) \in Nat
          /\ Cardinality(VersionsOf(d)) <= Cardinality({v \in versions' : v.dataset = d})
  BY VersionsOfGrow
<1>2. retry' # NoRetry => retry' \in Retry /\ state'[retry'.file] \notin {"NONE", "DUPLICATE"}
  BY DEF IInv, SessionInv, Retry
<1>3. ASSUME NEW s \in Sessions, pc'[s] # "idle"
      PROVE  /\ work'[s] \in Loaded
             /\ state'[work'[s].file] \notin {"NONE", "DUPLICATE"}
             /\ work'[s].op # "reject" => work'[s].file \in stored'
             /\ work'[s].op = "map" => work'[s].chosen \in Mappings
             /\ work'[s].op = "archive" => HasVersion(work[s].file)'
  <2>1. pc[s] # "idle" /\ work'[s] = work[s]
    BY <1>3
  <2> QED
    BY <2>1 DEF IInv, SessionInv, Loaded, HasVersion
<1>4. ASSUME NEW s \in Sessions, pc'[s] = "importing"
      PROVE  /\ work'[s].op = "import" /\ Revalidates(work'[s])
             /\ work'[s].dataset \in Files
             /\ work'[s].number \in 1 .. (Cardinality({v \in versions' : v.dataset = work'[s].dataset}) + 1)
  <2>1. pc[s] = "importing" /\ work'[s] = work[s]
    BY <1>4
  <2>2. /\ work[s].op = "import" /\ Revalidates(work[s])
        /\ work[s].dataset \in Files
        /\ work[s].number \in 1 .. (Cardinality(VersionsOf(work[s].dataset)) + 1)
    BY <2>1 DEF IInv, SessionInv
  <2> QED
    BY <1>1, <2>1, <2>2 DEF Revalidates
<1> QED
  BY <1>2, <1>3, <1>4 DEF SessionInv, Revalidates, HasVersion, VersionsOf

\* No version changes.
LEMMA VersionsKeep ==
    ASSUME IInv, versions' = versions, stored \subseteq stored'
    PROVE  ImportedValid' /\ VersionsNumbered' /\ IsFiniteSet(versions')
BY DEF IInv, ImportedValid, VersionsNumbered, VersionsOf

-----------------------------------------------------------------------------
(***************************************************************************)
(* receive                                                                 *)
(***************************************************************************)
\* The new row, and what becomes of the others.
LEMMA NewRowType ==
    ASSUME IInv, NEW f \in Files, NEW c \in Contents, NEW o \in Owners,
           NEW path \in Seq(FileState), path # <<>>, Last(path) \in Committed,
           NEW g \in Files \cup {None}, NewRow(f, c, o, path, g)
    PROVE  /\ state' \in [Files -> Committed \cup {"NONE"}]
           /\ history' \in [Files -> Seq(FileState)]
           /\ owner' \in [Files -> Owners \cup {None}]
           /\ content' \in [Files -> Contents \cup {None}]
           /\ duplicateOf' \in [Files -> Files \cup {None}]
           /\ mapping' = mapping
           /\ state'[f] = Last(path) /\ owner'[f] = o /\ content'[f] = c /\ duplicateOf'[f] = g
           /\ \A h \in Files : h # f =>
                  /\ state'[h] = state[h] /\ owner'[h] = owner[h]
                  /\ content'[h] = content[h] /\ duplicateOf'[h] = duplicateOf[h]
<1>1. <<"DETECTED", "HASHING">> \in Seq(FileState)
  BY DEF FileState, Transient
<1>2. <<"DETECTED", "HASHING">> \o path \in Seq(FileState)
  BY <1>1, ConcatProperties
<1>3. history' \in [Files -> Seq(FileState)]
  BY <1>2 DEF NewRow, IInv, TypeOK
<1> QED
  BY <1>3 DEF NewRow, IInv, TypeOK

LEMMA ReceiveNewKeeps ==
    ASSUME IInv, NEW f \in Files, NEW c \in Contents, NEW o \in Owners, ReceiveNew(f, c, o)
    PROVE  IInv'
<1>1. PICK path \in Seq(FileState) :
          /\ NewRow(f, c, o, path, None) /\ path # <<>>
          /\ \/ Last(path) \in {"MAPPING_REQUIRED", "QUARANTINED"} /\ stored' = stored \cup {f}
             \/ Last(path) = "UPLOAD_FAILED" /\ stored' = stored
  BY PathOfStored, PathOfFailed DEF ReceiveNew
<1>2. Last(path) \in Committed \ {"DUPLICATE", "IMPORTED", "ARCHIVED"}
  BY <1>1 DEF Committed
<1>3. /\ state' \in [Files -> Committed \cup {"NONE"}]
      /\ history' \in [Files -> Seq(FileState)]
      /\ owner' \in [Files -> Owners \cup {None}]
      /\ content' \in [Files -> Contents \cup {None}]
      /\ duplicateOf' \in [Files -> Files \cup {None}]
      /\ mapping' = mapping
      /\ state'[f] = Last(path) /\ owner'[f] = o /\ content'[f] = c /\ duplicateOf'[f] = None
      /\ \A h \in Files : h # f =>
             /\ state'[h] = state[h] /\ owner'[h] = owner[h]
             /\ content'[h] = content[h] /\ duplicateOf'[h] = duplicateOf[h]
  BY <1>1, <1>2, NewRowType
<1>4. /\ state[f] = "NONE" /\ original[c] = None
      /\ original' = [original EXCEPT ![c] = f]
      /\ UNCHANGED <<versions, retry, pc, work>>
  BY DEF ReceiveNew, Recorded
<1>5. /\ original' \in [Contents -> Files \cup {None}] /\ original'[c] = f
      /\ \A d \in Contents : d # c => original'[d] = original[d]
  BY <1>4 DEF IInv, TypeOK
<1>6. TypeOK'
  BY <1>1, <1>3, <1>4, <1>5 DEF IInv, TypeOK
<1>7. \A d \in Contents : original[d] # None => original[d] \in Files /\ original[d] # f
  BY <1>4 DEF IInv, TypeOK, RowInv
<1>8. RowInv'
  <2>1. \A h \in Files : state'[h] # "NONE" => content'[h] \in Contents
    BY <1>3 DEF IInv, RowInv
  <2>2. ASSUME NEW d \in Contents, original'[d] # None
        PROVE  content'[original'[d]] = d /\ state'[original'[d]] \notin {"NONE", "DUPLICATE"}
    <3>1. CASE d = c
      BY <1>2, <1>3, <1>5, <3>1 DEF Committed
    <3>2. CASE d # c
      <4>1. original'[d] = original[d] /\ original[d] \in Files /\ original[d] # f
        BY <1>5, <1>7, <2>2, <3>2
      <4>2. content[original[d]] = d /\ state[original[d]] \notin {"NONE", "DUPLICATE"}
        BY <2>2, <4>1 DEF IInv, RowInv
      <4> QED
        BY <1>3, <4>1, <4>2
    <3> QED
      BY <3>1, <3>2
  <2> QED
    BY <2>1, <2>2 DEF RowInv
<1>9. \A h \in Files : (h # f /\ state[h] = "DUPLICATE") =>
          /\ content[h] \in Contents /\ content[h] # c /\ duplicateOf[h] = original[content[h]]
          /\ duplicateOf[h] \in Files /\ duplicateOf[h] # f
  <2>1. ASSUME NEW h \in Files, h # f, state[h] = "DUPLICATE"
        PROVE  /\ content[h] \in Contents /\ content[h] # c
               /\ duplicateOf[h] = original[content[h]]
               /\ duplicateOf[h] \in Files /\ duplicateOf[h] # f
    <3>1. content[h] \in Contents /\ duplicateOf[h] = original[content[h]]
            /\ duplicateOf[h] \in Files \cup {None}
      BY <2>1 DEF IInv, RowInv, OneOriginal, TypeOK
    <3>2. duplicateOf[h] # None
      BY <2>1 DEF IInv, DuplicateHasOriginal
    <3> QED
      BY <1>4, <1>7, <3>1, <3>2
  <2> QED
    BY <2>1
<1>10. OneOriginal'
  <2>1. ASSUME NEW h \in Files, state'[h] # "NONE"
        PROVE  IF state'[h] = "DUPLICATE"
               THEN duplicateOf'[h] = original'[content'[h]] /\ state'[duplicateOf'[h]] # "DUPLICATE"
               ELSE original'[content'[h]] = h
    <3>1. CASE h = f
      BY <1>2, <1>3, <1>5, <3>1
    <3>2. CASE h # f /\ state[h] = "DUPLICATE"
      <4>1. /\ content[h] \in Contents /\ content[h] # c
            /\ duplicateOf[h] = original[content[h]]
            /\ duplicateOf[h] \in Files /\ duplicateOf[h] # f
        BY <1>9, <3>2
      <4>2. state[duplicateOf[h]] # "DUPLICATE"
        BY <3>2 DEF IInv, OneOriginal
      <4> QED
        BY <1>3, <1>5, <3>2, <4>1, <4>2
    <3>3. CASE h # f /\ state[h] # "DUPLICATE"
      <4>1. original[content[h]] = h /\ content[h] \in Contents
        BY <1>3, <2>1, <3>3 DEF IInv, OneOriginal, RowInv
      <4> QED
        BY <1>3, <1>4, <1>5, <3>3, <4>1, DataDropAssumption
    <3> QED
      BY <3>1, <3>2, <3>3
  <2> QED
    BY <2>1 DEF OneOriginal
<1>11. Backed'
  BY <1>1, <1>2, <1>3, <1>4 DEF IInv, Backed
<1>12. AcknowledgedIsStored'
  <2>1. ASSUME NEW h \in Files, state'[h] = "DUPLICATE", owner'[h] = owner'[duplicateOf'[h]]
        PROVE  duplicateOf'[h] \in stored' \/ state'[duplicateOf'[h]] = "REJECTED"
    <3>1. h # f /\ state[h] = "DUPLICATE"
      BY <1>2, <1>3, <2>1
    <3>2. duplicateOf[h] \in Files /\ duplicateOf[h] # f
      BY <1>9, <3>1
    <3>3. /\ duplicateOf'[h] = duplicateOf[h]
          /\ owner'[h] = owner[h] /\ owner'[duplicateOf[h]] = owner[duplicateOf[h]]
          /\ state'[duplicateOf[h]] = state[duplicateOf[h]]
      BY <1>3, <3>1, <3>2
    <3>4. duplicateOf[h] \in stored \/ state[duplicateOf[h]] = "REJECTED"
      BY <2>1, <3>1, <3>3 DEF IInv, AcknowledgedIsStored
    <3> QED
      BY <1>1, <3>3, <3>4
  <2> QED
    BY <2>1 DEF AcknowledgedIsStored
<1>13. DuplicateHasOriginal'
  BY <1>2, <1>3 DEF IInv, DuplicateHasOriginal
<1>14. SessionInv'
  BY <1>1, <1>3, <1>4, SessionsKeep DEF IInv
<1>15. ImportedValid' /\ VersionsNumbered' /\ IsFiniteSet(versions')
  BY <1>1, <1>4, VersionsKeep
<1> QED
  BY <1>6, <1>8, <1>10, <1>11, <1>12, <1>13, <1>14, <1>15 DEF IInv

\* The bytes are known: the row points to the original, which may not be stored
\* again by this uploader.
LEMMA ReceiveDuplicateKeeps ==
    ASSUME IInv, NEW f \in Files, NEW c \in Contents, NEW o \in Owners,
           ReceiveDuplicate(f, c, o)
    PROVE  IInv'
<1> DEFINE g == original[c]
           path == <<"DUPLICATE">>
<1>1. /\ g \in Files /\ state[f] = "NONE" /\ content[g] = c
      /\ state[g] \notin {"NONE", "DUPLICATE"} /\ g # f
  BY DEF ReceiveDuplicate, Recorded, IInv, TypeOK, RowInv
<1>2. path \in Seq(FileState) /\ path # <<>>
        /\ Last(path) = "DUPLICATE" /\ "DUPLICATE" \in Committed
  BY ShortPaths DEF Committed
<1>3. NewRow(f, c, o, path, g)
  BY DEF ReceiveDuplicate, Recorded
<1>4. UNCHANGED <<stored, original, versions, retry, pc, work>>
  BY DEF ReceiveDuplicate
<1>5. owner[g] = o => state[g] # "UPLOAD_FAILED"
  BY <1>1, DataDropAssumption DEF ReceiveDuplicate, Retriable, Recorded
<1> HIDE DEF g, path
<1>6. /\ state' \in [Files -> Committed \cup {"NONE"}]
      /\ history' \in [Files -> Seq(FileState)]
      /\ owner' \in [Files -> Owners \cup {None}]
      /\ content' \in [Files -> Contents \cup {None}]
      /\ duplicateOf' \in [Files -> Files \cup {None}]
      /\ mapping' = mapping
      /\ state'[f] = "DUPLICATE" /\ owner'[f] = o /\ content'[f] = c /\ duplicateOf'[f] = g
      /\ \A h \in Files : h # f =>
             /\ state'[h] = state[h] /\ owner'[h] = owner[h]
             /\ content'[h] = content[h] /\ duplicateOf'[h] = duplicateOf[h]
  BY <1>1, <1>2, <1>3, NewRowType
<1>7. TypeOK'
  BY <1>4, <1>6 DEF IInv, TypeOK
<1>8. \A h \in Files : state[h] # "NONE" => h # f
  BY <1>1
<1>9. RowInv'
  <2>1. ASSUME NEW d \in Contents, original[d] # None
        PROVE  content'[original[d]] = d /\ state'[original[d]] \notin {"NONE", "DUPLICATE"}
    <3>1. /\ content[original[d]] = d /\ state[original[d]] \notin {"NONE", "DUPLICATE"}
          /\ original[d] \in Files
      BY <2>1 DEF IInv, RowInv, TypeOK
    <3> QED
      BY <1>6, <1>8, <3>1
  <2> QED
    BY <1>4, <1>6, <2>1 DEF IInv, RowInv
<1>10. \A h \in Files : (h # f /\ state[h] = "DUPLICATE") =>
           duplicateOf[h] \in Files /\ state[duplicateOf[h]] \notin {"NONE", "DUPLICATE"}
  <2>1. ASSUME NEW h \in Files, h # f, state[h] = "DUPLICATE"
        PROVE  duplicateOf[h] \in Files /\ state[duplicateOf[h]] \notin {"NONE", "DUPLICATE"}
    <3>1. content[h] \in Contents /\ duplicateOf[h] = original[content[h]]
            /\ duplicateOf[h] # None /\ duplicateOf[h] \in Files \cup {None}
      BY <2>1 DEF IInv, RowInv, OneOriginal, DuplicateHasOriginal, TypeOK
    <3> QED
      BY <3>1 DEF IInv, RowInv
  <2> QED
    BY <2>1
<1>11. OneOriginal'
  <2>1. ASSUME NEW h \in Files, state'[h] # "NONE"
        PROVE  IF state'[h] = "DUPLICATE"
               THEN duplicateOf'[h] = original'[content'[h]] /\ state'[duplicateOf'[h]] # "DUPLICATE"
               ELSE original'[content'[h]] = h
    <3>1. CASE h = f
      BY <1>1, <1>4, <1>6, <3>1 DEF g
    <3>2. CASE h # f
      <4>1. /\ state'[h] = state[h] /\ content'[h] = content[h]
            /\ duplicateOf'[h] = duplicateOf[h]
        BY <1>6, <3>2
      <4>2. state[h] = "DUPLICATE" => state'[duplicateOf[h]] = state[duplicateOf[h]]
        BY <1>6, <1>8, <1>10, <3>2
      <4> QED
        BY <1>4, <2>1, <4>1, <4>2 DEF IInv, OneOriginal
    <3> QED
      BY <3>1, <3>2
  <2> QED
    BY <2>1 DEF OneOriginal
<1>12. Backed'
  BY <1>4, <1>6 DEF IInv, Backed
<1>13. AcknowledgedIsStored'
  <2>1. ASSUME NEW h \in Files, state'[h] = "DUPLICATE", owner'[h] = owner'[duplicateOf'[h]]
        PROVE  duplicateOf'[h] \in stored' \/ state'[duplicateOf'[h]] = "REJECTED"
    <3>1. CASE h = f
      <4>1. owner[g] = o /\ state'[g] = state[g]
        BY <1>1, <1>6, <2>1, <3>1
      <4>2. g \in stored \/ state[g] = "REJECTED"
        BY <1>1, <1>5, <4>1 DEF IInv, Backed
      <4> QED
        BY <1>4, <1>6, <3>1, <4>1, <4>2
    <3>2. CASE h # f
      <4>1. state[h] = "DUPLICATE" /\ duplicateOf'[h] = duplicateOf[h]
              /\ duplicateOf[h] \in Files /\ duplicateOf[h] # f
        BY <1>6, <1>8, <1>10, <2>1, <3>2
      <4>2. owner[h] = owner[duplicateOf[h]]
        BY <1>6, <2>1, <3>2, <4>1
      <4>3. duplicateOf[h] \in stored \/ state[duplicateOf[h]] = "REJECTED"
        BY <4>1, <4>2 DEF IInv, AcknowledgedIsStored
      <4> QED
        BY <1>4, <1>6, <4>1, <4>3
    <3> QED
      BY <3>1, <3>2
  <2> QED
    BY <2>1 DEF AcknowledgedIsStored
<1>14. DuplicateHasOriginal'
  <2>1. ASSUME NEW h \in Files, state'[h] = "DUPLICATE"
        PROVE  duplicateOf'[h] # None
    <3>1. CASE h = f
      <4>1. duplicateOf'[h] = g /\ g \in Files
        BY <1>1, <1>6, <3>1
      <4> QED
        BY <4>1, DataDropAssumption
    <3>2. CASE h # f
      <4>1. state[h] = "DUPLICATE" /\ duplicateOf'[h] = duplicateOf[h]
        BY <1>6, <2>1, <3>2
      <4> QED
        BY <4>1 DEF IInv, DuplicateHasOriginal
    <3> QED
      BY <3>1, <3>2
  <2> QED
    BY <2>1 DEF DuplicateHasOriginal
<1>15. SessionInv'
  BY <1>1, <1>4, <1>6, <1>8, SessionsKeep DEF IInv
<1>16. ImportedValid' /\ VersionsNumbered' /\ IsFiniteSet(versions')
  BY <1>4, VersionsKeep
<1> QED
  BY <1>7, <1>9, <1>11, <1>12, <1>13, <1>14, <1>15, <1>16 DEF IInv

\* The steps that change no row and no version.
LEMMA NoRowChanges ==
    ASSUME IInv, UNCHANGED <<state, owner, content, duplicateOf, stored, original, versions>>
    PROVE  /\ RowInv' /\ OneOriginal' /\ DuplicateHasOriginal' /\ Backed' /\ ImportedValid'
           /\ VersionsNumbered' /\ IsFiniteSet(versions') /\ AcknowledgedIsStored'
BY DEF IInv, RowInv, OneOriginal, DuplicateHasOriginal, Backed, ImportedValid, VersionsNumbered,
       VersionsOf, AcknowledgedIsStored

LEMMA RetryLoadKeeps ==
    ASSUME IInv, NEW c \in Contents, NEW o \in Owners, RetryLoad(c, o)
    PROVE  IInv'
<1> DEFINE f == original[c]
<1>1. f \in Files /\ state[f] = "UPLOAD_FAILED"
        /\ retry' = [file |-> f, history |-> history[f]]
        /\ UNCHANGED <<rowVars, stored, original, versions, pc, work>>
  BY DEF RetryLoad, Retriable, Recorded, IInv, TypeOK
<1> HIDE DEF f
<1>2. retry' \in Retry
  BY <1>1 DEF IInv, TypeOK, Retry
<1>3. TypeOK'
  BY <1>1, <1>2 DEF IInv, TypeOK, rowVars
<1>4. SessionInv'
  BY <1>1, <1>2 DEF IInv, SessionInv, rowVars, HasVersion, Revalidates, VersionsOf
<1> QED
  BY <1>1, <1>3, <1>4, NoRowChanges DEF IInv, rowVars

LEMMA RetryStoredKeeps ==
    ASSUME IInv, RetryStored
    PROVE  IInv'
<1> DEFINE f == retry.file
           path == StoredPath(content[f])
<1>1. /\ f \in Files /\ retry.history \in Seq(FileState)
      /\ state[f] \notin {"NONE", "DUPLICATE"}
  BY DEF RetryStored, IInv, SessionInv, Retry
<1>2. /\ path \in Seq(FileState) /\ path # <<>>
      /\ Last(path) \in {"MAPPING_REQUIRED", "QUARANTINED"}
  BY PathOfStored
<1>3. /\ state' = [state EXCEPT ![f] = Last(path)]
      /\ history' = [history EXCEPT ![f] = retry.history \o path]
      /\ stored' = stored \cup {f} /\ retry' = NoRetry
      /\ UNCHANGED <<owner, content, duplicateOf, mapping, original, versions, pc, work>>
  BY DEF RetryStored
<1> HIDE DEF f, path
<1>4. retry.history \o path \in Seq(FileState)
  BY <1>1, <1>2, ConcatProperties
<1>5. TypeOK'
  BY <1>1, <1>2, <1>3, <1>4 DEF IInv, TypeOK, Committed
<1>6. RowInv' /\ OneOriginal' /\ DuplicateHasOriginal' /\ Backed' /\ AcknowledgedIsStored'
  BY <1>1, <1>2, <1>3, RowStep DEF Committed
<1>7. SessionInv'
  BY <1>1, <1>2, <1>3, SessionsKeep DEF IInv, TypeOK
<1>8. ImportedValid' /\ VersionsNumbered' /\ IsFiniteSet(versions')
  BY <1>3, VersionsKeep
<1> QED
  BY <1>5, <1>6, <1>7, <1>8 DEF IInv

LEMMA RetryEndsKeeps ==
    ASSUME IInv, RetryFailed \/ RetryAborted
    PROVE  IInv'
<1>1. history' \in [Files -> Seq(FileState)]
  <2>1. CASE RetryFailed
    <3>1. retry.history \o FailedPath \in Seq(FileState)
      BY <2>1, PathOfFailed, ConcatProperties DEF RetryFailed, IInv, SessionInv, Retry
    <3> QED
      BY <2>1, <3>1 DEF RetryFailed, IInv, TypeOK
  <2>2. CASE RetryAborted
    BY <2>2 DEF RetryAborted, rowVars, IInv, TypeOK
  <2> QED
    BY <2>1, <2>2
<1>2. /\ retry' = NoRetry
      /\ UNCHANGED <<state, owner, content, duplicateOf, mapping, stored, original, versions,
                     pc, work>>
  BY DEF RetryFailed, RetryAborted, rowVars
<1>3. TypeOK'
  BY <1>1, <1>2 DEF IInv, TypeOK
<1>4. SessionInv'
  BY <1>2, SessionsKeep DEF IInv
<1> QED
  BY <1>2, <1>3, <1>4, NoRowChanges DEF IInv

-----------------------------------------------------------------------------
(***************************************************************************)
(* map_validate, import_file, reject, archived                             *)
(***************************************************************************)
LEMMA LoadKeeps ==
    ASSUME IInv, NEW s \in Sessions, NEW f \in Files, NEW op \in Operations,
           NEW chosen \in Mappings \cup {None}, Load(s, f, op, chosen),
           state[f] \notin {"NONE", "DUPLICATE"},
           op # "reject" => f \in stored,
           op = "map" => chosen \in Mappings,
           op = "archive" => HasVersion(f)
    PROVE  IInv'
<1> DEFINE w == [file |-> f, op |-> op, state |-> state[f], history |-> history[f],
                 mapping |-> mapping[f], chosen |-> chosen, dataset |-> None, number |-> 0]
<1>1. w \in Loaded
  BY DEF IInv, TypeOK, Loaded
<1>2. w.file = f /\ w.op = op /\ w.chosen = chosen
  OBVIOUS
<1>3. /\ pc' = [pc EXCEPT ![s] = "loaded"] /\ work' = [work EXCEPT ![s] = w]
      /\ UNCHANGED <<rowVars, stored, original, versions, retry>>
  BY DEF Load
<1> HIDE DEF w
<1>4. TypeOK'
  BY <1>1, <1>3 DEF IInv, TypeOK, rowVars
<1>5. SessionInv'
  <2>1. retry' # NoRetry => retry' \in Retry /\ state'[retry'.file] \notin {"NONE", "DUPLICATE"}
    BY <1>3 DEF IInv, SessionInv, rowVars
  <2>2. pc'[s] = "loaded" /\ work'[s] = w
    BY <1>3 DEF IInv, TypeOK
  <2>3. \A v \in Sessions : v # s => pc'[v] = pc[v] /\ work'[v] = work[v]
    BY <1>3 DEF IInv, TypeOK
  <2>4. ASSUME NEW v \in Sessions, pc'[v] # "idle"
        PROVE  /\ work'[v] \in Loaded
               /\ state'[work'[v].file] \notin {"NONE", "DUPLICATE"}
               /\ work'[v].op # "reject" => work'[v].file \in stored'
               /\ work'[v].op = "map" => work'[v].chosen \in Mappings
               /\ work'[v].op = "archive" => HasVersion(work[v].file)'
    <3>1. CASE v = s
      BY <1>1, <1>2, <1>3, <2>2, <3>1 DEF rowVars, HasVersion
    <3>2. CASE v # s
      BY <1>3, <2>3, <2>4, <3>2 DEF IInv, SessionInv, rowVars, HasVersion
    <3> QED
      BY <3>1, <3>2
  <2>5. ASSUME NEW v \in Sessions, pc'[v] = "importing"
        PROVE  /\ work'[v].op = "import" /\ Revalidates(work'[v])
               /\ work'[v].dataset \in Files
               /\ work'[v].number \in 1 .. (Cardinality({u \in versions' : u.dataset = work'[v].dataset}) + 1)
    <3>1. v # s
      BY <2>2, <2>5
    <3> QED
      BY <1>3, <2>3, <2>5, <3>1 DEF IInv, SessionInv, Revalidates, VersionsOf
  <2> QED
    BY <2>1, <2>4, <2>5 DEF SessionInv, Revalidates, HasVersion, VersionsOf
<1> QED
  BY <1>3, <1>4, <1>5, NoRowChanges DEF IInv, rowVars

LEMMA LoadsKeep ==
    ASSUME IInv, NEW s \in Sessions, NEW f \in Files,
           \/ RejectLoad(s, f) \/ ImportLoad(s, f) \/ ArchiveLoad(s, f)
           \/ \E m \in Mappings : MapLoad(s, f, m)
    PROVE  IInv'
<1>1. state[f] \in Committed \cup {"NONE"}
  BY DEF IInv, TypeOK
<1>2. state[f] \notin {"NONE", "UPLOAD_FAILED", "DUPLICATE", "REJECTED"} => f \in stored
  BY DEF IInv, Backed
<1>3. state[f] \in {"IMPORTED", "ARCHIVED"} => HasVersion(f)
  BY DEF IInv, Backed, HasVersion
<1>4. CASE RejectLoad(s, f)
  BY <1>1, <1>4, LoadedStates, LoadKeeps DEF RejectLoad, Operations, Committed
<1>5. CASE ImportLoad(s, f)
  BY <1>1, <1>2, <1>5, LoadedStates, LoadKeeps DEF ImportLoad, Operations
<1>6. CASE ArchiveLoad(s, f)
  BY <1>1, <1>2, <1>3, <1>6, LoadedStates, LoadKeeps DEF ArchiveLoad, Archivable, Operations
<1>7. ASSUME NEW m \in Mappings, MapLoad(s, f, m)
      PROVE  IInv'
  BY <1>1, <1>2, <1>7, LoadedStates, LoadKeeps DEF MapLoad, Operations
<1> QED
  BY <1>4, <1>5, <1>6, <1>7

\* A row is saved with a state that its bytes and versions bear out.
LEMMA SaveKeeps ==
    ASSUME IInv, NEW s \in Sessions, pc[s] # "idle",
           NEW path \in Seq(FileState), path # <<>>,
           Last(path) \in Committed \ {"DUPLICATE", "UPLOAD_FAILED"},
           Save(work[s], path), Return(s),
           work[s].file \in stored \/ Last(path) = "REJECTED",
           versions \subseteq versions',
           Last(path) \in {"IMPORTED", "ARCHIVED"} => \E v \in versions' : v.file = work[s].file,
           mapping' \in [Files -> Mappings \cup {None}],
           versions' \subseteq Version, IsFiniteSet(versions'),
           UNCHANGED <<owner, content, duplicateOf, stored, original, retry>>
    PROVE  /\ TypeOK' /\ RowInv' /\ OneOriginal' /\ DuplicateHasOriginal' /\ Backed'
           /\ AcknowledgedIsStored' /\ SessionInv'
<1> DEFINE w == work[s]
           f == w.file
           t == Sent(w.state, Last(path), state[f])
<1>1. /\ w \in Loaded /\ f \in Files /\ state[f] \in Committed \ {"DUPLICATE"}
      /\ state[f] # "NONE"
  BY DEF IInv, TypeOK, SessionInv, Loaded
<1>2. t \in {Last(path), state[f]} /\ t \in Committed \ {"DUPLICATE"}
  BY <1>1 DEF Sent
<1>3. state' = [state EXCEPT ![f] = t] /\ history' = [history EXCEPT ![f] = w.history \o path]
  BY DEF Save
<1>4. w.history \o path \in Seq(FileState)
  BY <1>1, ConcatProperties DEF Loaded
<1>5. pc' = [pc EXCEPT ![s] = "idle"] /\ work' = [work EXCEPT ![s] = NoWork]
  BY DEF Return
<1>6. f \in stored \/ Last(path) = "REJECTED"
  OBVIOUS
<1>7. Last(path) \in {"IMPORTED", "ARCHIVED"} => \E v \in versions' : v.file = f
  OBVIOUS
<1> HIDE DEF t, f, w
<1>8. t \in {"UPLOAD_FAILED", "REJECTED"} \/ f \in stored'
  <2>1. state[f] \in {"UPLOAD_FAILED", "REJECTED"} \/ f \in stored
    BY <1>1 DEF IInv, Backed
  <2> QED
    BY <1>2, <1>6, <2>1
<1>9. t \in {"IMPORTED", "ARCHIVED"} => \E v \in versions' : v.file = f
  <2>1. state[f] \in {"IMPORTED", "ARCHIVED"} => \E v \in versions : v.file = f
    BY <1>1 DEF IInv, Backed
  <2> QED
    BY <1>2, <1>7, <2>1
<1>10. TypeOK'
  BY <1>1, <1>2, <1>3, <1>4, <1>5 DEF IInv, TypeOK
<1>11. RowInv' /\ OneOriginal' /\ DuplicateHasOriginal' /\ Backed' /\ AcknowledgedIsStored'
  <2>1. t = "UPLOAD_FAILED" => state[f] = "UPLOAD_FAILED"
    BY <1>2
  <2> QED
    BY <1>1, <1>2, <1>3, <1>8, <1>9, <2>1, RowStep
<1>12. SessionInv'
  <2>1. \A v \in Sessions : pc'[v] = "idle" \/ (pc'[v] = pc[v] /\ work'[v] = work[v])
    BY <1>5 DEF IInv, TypeOK
  <2>2. \A g \in Files : state[g] \notin {"NONE", "DUPLICATE"} =>
            state'[g] \notin {"NONE", "DUPLICATE"}
    BY <1>1, <1>2, <1>3 DEF IInv, TypeOK, Committed
  <2> QED
    BY <2>1, <2>2, SessionsKeep
<1> QED
  BY <1>10, <1>11, <1>12

LEMMA MapCommitKeeps ==
    ASSUME IInv, NEW s \in Sessions, MapCommit(s)
    PROVE  IInv'
<1> DEFINE path == MapPath(work[s].chosen)
<1>1. /\ pc[s] # "idle" /\ work[s] \in Loaded /\ work[s].file \in stored
      /\ work[s].chosen \in Mappings
  BY DEF MapCommit, IInv, SessionInv
<1>2. /\ path \in Seq(FileState) /\ path # <<>>
      /\ Last(path) \in {"VALIDATION_FAILED", "AWAITING_APPROVAL"}
  BY <1>1, PathOfMapping
<1>3. mapping' \in [Files -> Mappings \cup {None}]
  BY <1>1 DEF MapCommit, Sent, IInv, TypeOK
<1>4. /\ Save(work[s], path) /\ Return(s)
      /\ UNCHANGED <<owner, content, duplicateOf, stored, original, versions, retry>>
  BY DEF MapCommit
<1> HIDE DEF path
<1>5. /\ TypeOK' /\ RowInv' /\ OneOriginal' /\ DuplicateHasOriginal' /\ Backed'
      /\ AcknowledgedIsStored' /\ SessionInv'
  BY <1>1, <1>2, <1>3, <1>4, SaveKeeps DEF IInv, TypeOK, Committed
<1> QED
  BY <1>4, <1>5, VersionsKeep DEF IInv

LEMMA EndCommitKeeps ==
    ASSUME IInv, NEW s \in Sessions, EndCommit(s)
    PROVE  IInv'
<1> DEFINE path == IF work[s].op = "reject" THEN <<"REJECTED">> ELSE <<"ARCHIVED">>
<1>1. /\ pc[s] # "idle" /\ work[s] \in Loaded
      /\ work[s].op # "reject" => work[s].file \in stored
      /\ work[s].op # "reject" => \E v \in versions : v.file = work[s].file
  BY DEF EndCommit, IInv, SessionInv, HasVersion
<1>2. /\ path \in Seq(FileState) /\ path # <<>>
      /\ Last(path) = IF work[s].op = "reject" THEN "REJECTED" ELSE "ARCHIVED"
  BY ShortPaths
<1>3. /\ Save(work[s], path) /\ Return(s)
      /\ UNCHANGED <<owner, content, duplicateOf, mapping, stored, original, versions, retry>>
  BY DEF EndCommit
<1> HIDE DEF path
<1>4. /\ TypeOK' /\ RowInv' /\ OneOriginal' /\ DuplicateHasOriginal' /\ Backed'
      /\ AcknowledgedIsStored' /\ SessionInv'
  BY <1>1, <1>2, <1>3, SaveKeeps DEF IInv, TypeOK, Committed
<1> QED
  BY <1>3, <1>4, VersionsKeep DEF IInv

\* The number is read: one beyond the versions there are.
LEMMA ImportFlushKeeps ==
    ASSUME IInv, NEW s \in Sessions, ImportFlush(s)
    PROVE  IInv'
<1>1. PICK d \in Found(work[s].file) :
          work' = [work EXCEPT ![s].dataset = d, ![s].number = NextNumber(d)]
  BY DEF ImportFlush
<1> DEFINE n == Cardinality(VersionsOf(d))
<1>2. work[s] \in Loaded /\ d \in Files
  BY FoundIsDataset DEF ImportFlush, IInv, SessionInv, Loaded
<1>3. n \in Nat /\ NextNumber(d) = n + 1
  BY <1>2, NextIsOneMore, VersionsOfFinite DEF IInv
<1>0. n = Cardinality(VersionsOf(d))
  OBVIOUS
<1> HIDE DEF n
<1> DEFINE w == [work[s] EXCEPT !.dataset = d, !.number = n + 1]
<1>4. /\ w \in Loaded /\ w.file = work[s].file /\ w.op = work[s].op /\ w.mapping = work[s].mapping
      /\ w.chosen = work[s].chosen /\ w.dataset = d /\ w.number = n + 1
  <2>1. n + 1 \in Nat
    BY <1>3
  <2> DEFINE m == n + 1
             loaded == work[s]
             after == [loaded EXCEPT !.dataset = d, !.number = m]
  <2>2. loaded \in Loaded /\ m \in Nat /\ m = n + 1 /\ w = after
    BY <1>2, <2>1
  <2> HIDE DEF m, loaded
  <2>3. /\ after \in Loaded /\ after.file = loaded.file /\ after.op = loaded.op
        /\ after.mapping = loaded.mapping /\ after.chosen = loaded.chosen
        /\ after.dataset = d /\ after.number = m
    BY <1>2, <2>2 DEF Loaded
  <2> QED
    BY <2>2, <2>3 DEF loaded
<1>5. /\ pc' = [pc EXCEPT ![s] = "importing"] /\ work' = [work EXCEPT ![s] = w]
      /\ work[s].op = "import" /\ Revalidates(work[s]) /\ pc[s] = "loaded"
      /\ UNCHANGED <<rowVars, stored, original, versions, retry>>
  BY <1>1, <1>3 DEF ImportFlush
<1> HIDE DEF w
<1>6. TypeOK'
  BY <1>4, <1>5 DEF IInv, TypeOK, rowVars
<1>7. SessionInv'
  <2>1. retry' # NoRetry => retry' \in Retry /\ state'[retry'.file] \notin {"NONE", "DUPLICATE"}
    BY <1>5 DEF IInv, SessionInv, rowVars
  <2>2. pc'[s] = "importing" /\ work'[s] = w
    BY <1>5 DEF IInv, TypeOK
  <2>3. \A v \in Sessions : v # s => pc'[v] = pc[v] /\ work'[v] = work[v]
    BY <1>5 DEF IInv, TypeOK
  <2>4. ASSUME NEW v \in Sessions, pc'[v] # "idle"
        PROVE  /\ work'[v] \in Loaded
               /\ state'[work'[v].file] \notin {"NONE", "DUPLICATE"}
               /\ work'[v].op # "reject" => work'[v].file \in stored'
               /\ work'[v].op = "map" => work'[v].chosen \in Mappings
               /\ work'[v].op = "archive" => HasVersion(work[v].file)'
    <3>1. CASE v = s
      BY <1>4, <1>5, <2>2, <3>1 DEF IInv, SessionInv, rowVars, HasVersion
    <3>2. CASE v # s
      BY <1>5, <2>3, <2>4, <3>2 DEF IInv, SessionInv, rowVars, HasVersion
    <3> QED
      BY <3>1, <3>2
  <2>5. ASSUME NEW v \in Sessions, pc'[v] = "importing"
        PROVE  /\ work'[v].op = "import" /\ Revalidates(work'[v])
               /\ work'[v].dataset \in Files
               /\ work'[v].number \in 1 .. (Cardinality({u \in versions' : u.dataset = work'[v].dataset}) + 1)
    <3>1. CASE v = s
      <4>1. n = Cardinality({u \in versions' : u.dataset = d})
        BY <1>5, <1>0 DEF VersionsOf
      <4>2. n + 1 \in 1 .. (n + 1)
        BY <1>3
      <4> QED
        BY <1>2, <1>4, <1>5, <2>2, <3>1, <4>1, <4>2 DEF Revalidates
    <3>2. CASE v # s
      BY <1>5, <2>3, <2>5, <3>2 DEF IInv, SessionInv, Revalidates, VersionsOf
    <3> QED
      BY <3>1, <3>2
  <2> QED
    BY <2>1, <2>4, <2>5 DEF SessionInv, Revalidates, HasVersion, VersionsOf
<1> QED
  BY <1>5, <1>6, <1>7, NoRowChanges DEF IInv, rowVars

\* The number is still free, so it is the next one, and the version is added.
LEMMA ImportCommitKeeps ==
    ASSUME IInv, NEW s \in Sessions, ImportCommit(s)
    PROVE  IInv'
<1> DEFINE w == work[s]
           v == [dataset |-> w.dataset, number |-> w.number, file |-> w.file,
                 mapping |-> w.mapping]
           V == VersionsOf(w.dataset)
           n == Cardinality(V)
<1>1. /\ pc[s] = "importing" /\ w \in Loaded /\ w.op = "import" /\ Revalidates(w)
      /\ w.dataset \in Files /\ w.number \in 1 .. (n + 1) /\ w.file \in stored
  BY DEF ImportCommit, IInv, SessionInv
<1>2. n \in Nat /\ IsFiniteSet(V) /\ IsFiniteSet(versions)
  BY VersionsOfFinite DEF IInv
<1>3. {u.number : u \in V} = 1 .. n /\ \A u \in V : u.number # w.number
  BY <1>1 DEF ImportCommit, NumberFree, IInv, VersionsNumbered
<1>4. w.number = n + 1
  <2>1. w.number \notin 1 .. n
    BY <1>3
  <2> QED
    BY <1>1, <1>2, <2>1
<1>5. /\ v \in Version /\ v.number = n + 1 /\ v.file = w.file /\ v.mapping = w.mapping
      /\ v.dataset = w.dataset
  BY <1>1, <1>4 DEF Version, Loaded
<1>6. /\ versions' = versions \cup {v} /\ Save(w, <<"IMPORTING", "IMPORTED">>) /\ Return(s)
      /\ UNCHANGED <<owner, content, duplicateOf, mapping, stored, original, retry>>
  BY DEF ImportCommit
<1> HIDE DEF v, n, V
<1>7. v \notin V
  BY <1>2, <1>3, <1>4, <1>5
<1>8. IsFiniteSet(versions') /\ Cardinality(V \cup {v}) = n + 1
  BY <1>2, <1>6, <1>7, FS_AddElement DEF n
<1>9. VersionsNumbered'
  <2> DEFINE After(d) == {u \in versions' : u.dataset = d}
  <2>1. ASSUME NEW d \in Files
        PROVE  /\ \A u1, u2 \in After(d) : u1.number = u2.number => u1 = u2
               /\ {u.number : u \in After(d)} = 1 .. Cardinality(After(d))
    <3>1. CASE d = w.dataset
      <4>1. After(d) = V \cup {v}
        BY <1>5, <1>6, <3>1 DEF V, VersionsOf
      <4> HIDE DEF After
      <4>2. \A u1, u2 \in V : u1.number = u2.number => u1 = u2
        BY <1>1 DEF IInv, VersionsNumbered, V
      <4>3. \A u1, u2 \in After(d) : u1.number = u2.number => u1 = u2
        BY <1>3, <1>4, <1>5, <4>1, <4>2
      <4>4. {u.number : u \in After(d)} = (1 .. n) \cup {n + 1}
        BY <1>3, <1>5, <4>1
      <4>5. (1 .. n) \cup {n + 1} = 1 .. (n + 1)
        BY <1>2
      <4> QED
        BY <1>8, <4>1, <4>3, <4>4, <4>5
    <3>2. CASE d # w.dataset
      <4>1. After(d) = VersionsOf(d)
        BY <1>5, <1>6, <3>2 DEF VersionsOf
      <4> QED
        BY <4>1 DEF IInv, VersionsNumbered
    <3> QED
      BY <3>1, <3>2
  <2> QED
    BY <2>1 DEF VersionsNumbered, VersionsOf
<1>10. ImportedValid'
  BY <1>1, <1>5, <1>6 DEF IInv, ImportedValid, Revalidates
<1>11. /\ TypeOK' /\ RowInv' /\ OneOriginal' /\ DuplicateHasOriginal' /\ Backed'
       /\ AcknowledgedIsStored' /\ SessionInv'
  <2> DEFINE path == <<"IMPORTING", "IMPORTED">>
  <2>1. path \in Seq(FileState) /\ path # <<>> /\ Last(path) = "IMPORTED"
    BY ImportPaths
  <2>2. Save(w, path)
    BY <1>6
  <2> HIDE DEF path
  <2>3. \E u \in versions' : u.file = work[s].file
    BY <1>5, <1>6
  <2>4. versions' \subseteq Version /\ mapping' \in [Files -> Mappings \cup {None}]
    BY <1>5, <1>6 DEF IInv, TypeOK
  <2> QED
    BY <1>1, <1>6, <1>8, <2>1, <2>2, <2>3, <2>4, SaveKeeps DEF Committed
<1> QED
  BY <1>8, <1>9, <1>10, <1>11 DEF IInv

LEMMA ImportFailedKeeps ==
    ASSUME IInv, NEW s \in Sessions, ImportFailed(s)
    PROVE  IInv'
<1> DEFINE path == <<"IMPORTING", "IMPORT_FAILED">>
<1>1. pc[s] # "idle" /\ work[s] \in Loaded /\ work[s].file \in stored
  BY DEF ImportFailed, IInv, SessionInv
<1>2. path \in Seq(FileState) /\ path # <<>> /\ Last(path) = "IMPORT_FAILED"
  BY ImportPaths
<1>3. /\ Save(work[s], path) /\ Return(s)
      /\ UNCHANGED <<owner, content, duplicateOf, mapping, stored, original, versions, retry>>
  BY DEF ImportFailed
<1> HIDE DEF path
<1>4. /\ TypeOK' /\ RowInv' /\ OneOriginal' /\ DuplicateHasOriginal' /\ Backed'
      /\ AcknowledgedIsStored' /\ SessionInv'
  BY <1>1, <1>2, <1>3, SaveKeeps DEF IInv, TypeOK, Committed
<1> QED
  BY <1>3, <1>4, VersionsKeep DEF IInv

LEMMA AbortKeeps ==
    ASSUME IInv, NEW s \in Sessions, Abort(s)
    PROVE  IInv'
<1>1. /\ pc' = [pc EXCEPT ![s] = "idle"] /\ work' = [work EXCEPT ![s] = NoWork]
      /\ UNCHANGED <<rowVars, stored, original, versions, retry>>
  BY DEF Abort, Return
<1>2. TypeOK'
  BY <1>1 DEF IInv, TypeOK, rowVars
<1>3. \A v \in Sessions : pc'[v] = "idle" \/ (pc'[v] = pc[v] /\ work'[v] = work[v])
  BY <1>1 DEF IInv, TypeOK
<1>4. SessionInv'
  BY <1>1, <1>3, SessionsKeep DEF IInv, rowVars
<1> QED
  BY <1>1, <1>2, <1>4, NoRowChanges DEF IInv, rowVars

-----------------------------------------------------------------------------
LEMMA Steps == IInv /\ [Next]_vars => IInv'
<1> SUFFICES ASSUME IInv, [Next]_vars PROVE IInv'
  OBVIOUS
<1>1. CASE Receive
  BY <1>1, ReceiveNewKeeps, ReceiveDuplicateKeeps, RetryLoadKeeps, RetryStoredKeeps, RetryEndsKeeps
     DEF Receive
<1>2. ASSUME NEW s \in Sessions, Review(s)
      PROVE  IInv'
  BY <1>2, LoadsKeep, MapCommitKeeps, EndCommitKeeps, ImportFlushKeeps, ImportCommitKeeps,
     ImportFailedKeeps, AbortKeeps
     DEF Review
<1>3. CASE UNCHANGED vars
  <2>1. TypeOK' /\ SessionInv'
    BY <1>3 DEF vars, rowVars, IInv, TypeOK, SessionInv, HasVersion, Revalidates, VersionsOf
  <2> QED
    BY <1>3, <2>1, NoRowChanges DEF IInv, vars, rowVars
<1> QED
  BY <1>1, <1>2, <1>3 DEF Next

LEMMA Invariance == Spec => []IInv
BY Initially, Steps, PTL DEF Spec

\* Rows, versions and the handlers' loaded rows keep their types.
THEOREM TypeCorrect == Spec => []TypeOK
BY Invariance, PTL DEF IInv

\* One original per content (receive), retried uploads included.
THEOREM OriginalUnique == Spec => []OneOriginal
BY Invariance, PTL DEF IInv

\* Files under review have their bytes and imported files their version, whatever
\* stale handlers commit.
THEOREM FilesBacked == Spec => []Backed
BY Invariance, PTL DEF IInv

\* No version is made with a mapping that does not validate (import_file).
THEOREM ImportsValid == Spec => []ImportedValid
BY Invariance, PTL DEF IInv

\* Racing imports number the versions of a dataset 1, 2, ... without a gap.
THEOREM VersionsConsecutive == Spec => []VersionsNumbered
BY Invariance, PTL DEF IInv

\* A file that is answered DUPLICATE of its uploader's own is stored or rejected.
THEOREM AcknowledgedStored == Spec => []AcknowledgedIsStored
BY Invariance, PTL DEF IInv
=============================================================================
