--------------------------- MODULE Services_proofs ---------------------------
(***************************************************************************)
(* Proofs about Providers, for any sets of sessions, jobs and responses,   *)
(* and BrokerFeed, for any sets of readers, codes and executions, any      *)
(* tolerances and any clocks of the readers; and about all the services    *)
(* side by side (Services).                                                *)
(*                                                                         *)
(* A provider session commits what it has read before it waited.  The      *)
(* properties are inductive with what that reading is still worth          *)
(* (OfSession): the number of an import is at most one beyond the versions *)
(* its dataset has now, the points of a reply are stored or about to be    *)
(* inserted, and the job is still open and nobody else's.  A control that  *)
(* nobody crossed still has the column enabled as it is decided            *)
(* (ControlInv).                                                           *)
(*                                                                         *)
(* A code makes one agent because an agent's code is claimed for ever, and *)
(* a claim that was begun names a code that exists.  What is connected is  *)
(* recent because every stamp was near the server's time when it arrived,  *)
(* the one of a snapshot that is still on its way included (StampInv).     *)
(*                                                                         *)
(* Every behaviour of the services is one of each of them                  *)
(* (EachServiceAsSpecified), so that what is proved of one holds of all.   *)
(***************************************************************************)
EXTENDS Services, Files_proofs, Portfolio_proofs, Books_proofs, SequenceTheorems, TLAPS

(***************************************************************************)
(* Providers                                                               *)
(***************************************************************************)
Version == [number: Nat \ {0}, body: SUBSET Responses]

OfSession(w) ==
    /\ w.kind = "refresh" \/ w.phase \in {"load", "end"} => w.job # None
    /\ w.phase \in {"asked", "replied", "read"} => w.loaded # None
    /\ w.phase # "end" => w.left >= 1
    /\ w.number # 0 => /\ w.kind = "import" /\ w.phase = "read" /\ w.reply # None
                       /\ w.dataset \in Sessions /\ w.number <= Len(versions[w.dataset]) + 1
    /\ w.phase = "read" /\ w.kind = "refresh" /\ w.reply # None =>
          w.reply \subseteq observed \cup w.fresh
    /\ w.job # None => /\ ingestions[w.job] # None
                       /\ ingestions[w.job].status \in {"PENDING", "RUNNING"}

WorkInv == \A s \in Sessions : work[s] # None => OfSession(work[s])

Alone(s, j) == \A t \in Sessions : t # s /\ work[t] # None => work[t].job # j
SoleWorker == \A s \in Sessions : work[s] # None /\ work[s].job # None => Alone(s, work[s].job)

\* A control that no other has crossed goes by what is enabled now.
ControlInv ==
    \A a \in Administrators : controls[a] # None /\ ~controls[a].crossed =>
        controls[a].loaded.enabled = access.enabled

\* No dataset loses a version.
VersionsGrow ==
    \A d \in Sessions : /\ Len(versions[d]) \in Nat /\ Len(versions'[d]) \in Nat
                        /\ Len(versions[d]) <= Len(versions'[d])

ReceivedStored == \A j \in Jobs : ingestions[j] # None => ingestions[j].received \subseteq observed

ProviderIInv ==
    /\ ProviderTypeOK
    /\ WorkInv
    /\ SoleWorker
    /\ ReceivedStored
    /\ AccessAsDecided
    /\ ControlInv
    /\ VersionsInOrder

-----------------------------------------------------------------------------
LEMMA ProviderInitially == ProviderInit => ProviderIInv
<1> SUFFICES ASSUME ProviderInit PROVE ProviderIInv
  OBVIOUS
<1> DEFINE earlier == [number |-> 1, body |-> {}]
<1>1. /\ earlier \in Version /\ earlier.number = 1
      /\ \A i \in DOMAIN <<earlier>> : i = 1 /\ <<earlier>>[i] = earlier
  BY DEF Version
<1>2. /\ <<>> \in Seq(Version) /\ <<earlier>> \in Seq(Version)
      /\ DOMAIN <<>> = {}
  BY <1>1
<1>3. \/ versions = Unimported
      \/ \E d \in Sessions : versions = [Unimported EXCEPT ![d] = <<earlier>>]
  BY DEF ProviderInit
<1>4. /\ versions \in [Sessions -> Seq(Version)]
      /\ \A d \in Sessions : versions[d] = <<>> \/ versions[d] = <<earlier>>
  <2> HIDE DEF earlier
  <2>1. /\ Unimported \in [Sessions -> Seq(Version)]
        /\ \A d \in Sessions : Unimported[d] = <<>>
    BY <1>2 DEF Unimported
  <2> QED
    BY <1>2, <1>3, <2>1
<1>5. VersionsInOrder
  <2> HIDE DEF earlier
  <2> SUFFICES ASSUME NEW d \in Sessions, NEW i \in DOMAIN versions[d]
               PROVE  versions[d][i].number = i
    BY DEF VersionsInOrder
  <2> QED
    BY <1>1, <1>2, <1>4
<1>6. ProviderTypeOK
  BY <1>4 DEF ProviderInit, ProviderTypeOK, Access, States, Version
<1>7. WorkInv /\ SoleWorker /\ ReceivedStored /\ AccessAsDecided /\ ControlInv
  BY DEF ProviderInit, WorkInv, SoleWorker, ReceivedStored, AccessAsDecided, ControlInv
<1> QED
  BY <1>5, <1>6, <1>7 DEF ProviderIInv

(***************************************************************************)
(* Session s goes from work[s] to w, what the others rely on has only      *)
(* grown, and their jobs are as they were.                                 *)
(***************************************************************************)
LEMMA SessionStep ==
    ASSUME ProviderIInv, NEW s \in Sessions, NEW w \in Work \cup {None},
           work' = [work EXCEPT ![s] = w],
           w # None => OfSession(w)',
           w # None /\ w.job # None => Alone(s, w.job),
           VersionsGrow,
           observed \subseteq observed',
           \A j \in Jobs : ingestions'[j] = ingestions[j] \/ Alone(s, j)
    PROVE  /\ work' \in [Sessions -> Work \cup {None}]
           /\ WorkInv'
           /\ SoleWorker'
<1>1. work \in [Sessions -> Work \cup {None}]
  BY DEF ProviderIInv, ProviderTypeOK
<1>2. /\ work' \in [Sessions -> Work \cup {None}] /\ work'[s] = w
      /\ \A t \in Sessions : t # s => work'[t] = work[t]
  BY <1>1
<1>3. ASSUME NEW t \in Sessions, t # s, work[t] # None
      PROVE  OfSession(work[t])'
  <2> DEFINE v == work[t]
  <2>1. v \in Work /\ OfSession(v) /\ work'[t] = v
    BY <1>1, <1>2, <1>3 DEF ProviderIInv, WorkInv
  <2>2. v.job # None => ingestions'[v.job] = ingestions[v.job]
    <3> SUFFICES ASSUME v.job # None PROVE ingestions'[v.job] = ingestions[v.job]
      OBVIOUS
    <3>1. v.job \in Jobs
      BY <2>1 DEF Work
    <3>2. ~Alone(s, v.job)
      BY <1>3 DEF Alone
    <3> QED
      BY <3>1, <3>2
  <2>3. v.number \in Nat
    BY <2>1 DEF Work
  <2> HIDE DEF v
  <2>4. v.number # 0 => v.dataset \in Sessions /\ v.number <= Len(versions'[v.dataset]) + 1
    BY <2>1, <2>3 DEF OfSession, VersionsGrow
  <2>5. v.phase = "read" /\ v.kind = "refresh" /\ v.reply # None =>
            v.reply \subseteq observed' \cup v.fresh
    BY <2>1 DEF OfSession
  <2>6. work'[t] = v
    BY <2>1
  <2> QED
    BY <2>1, <2>2, <2>4, <2>5, <2>6 DEF OfSession
<1>4. WorkInv'
  <2> SUFFICES ASSUME NEW t \in Sessions, work'[t] # None PROVE OfSession(work[t])'
    BY DEF WorkInv
  <2>1. CASE t = s
    BY <1>2, <2>1 DEF OfSession
  <2>2. CASE t # s
    BY <1>2, <1>3, <2>2
  <2> QED
    BY <2>1, <2>2
<1>5. SoleWorker'
  <2> SUFFICES ASSUME NEW t \in Sessions, NEW u \in Sessions, t # u, work'[t] # None,
                      work'[u] # None, work'[t].job # None
               PROVE  work'[u].job # work'[t].job
    BY DEF SoleWorker, Alone
  <2>1. CASE t # s /\ u # s
    BY <1>2, <2>1 DEF ProviderIInv, SoleWorker, Alone
  <2>2. CASE t = s
    BY <1>2, <2>2 DEF Alone
  <2>3. CASE u = s
    BY <1>2, <2>3 DEF Alone
  <2> QED
    BY <2>1, <2>2, <2>3
<1> QED
  BY <1>2, <1>4, <1>5

\* A session with no work left is one case of it.
LEMMA SessionCloses ==
    ASSUME ProviderIInv, NEW s \in Sessions, work' = [work EXCEPT ![s] = None],
           VersionsGrow,
           observed \subseteq observed',
           \A j \in Jobs : ingestions'[j] = ingestions[j] \/ Alone(s, j)
    PROVE  /\ work' \in [Sessions -> Work \cup {None}]
           /\ WorkInv'
           /\ SoleWorker'
BY SessionStep

LEMMA Lengths == ProviderIInv => \A d \in Sessions : Len(versions[d]) \in Nat
BY LenProperties DEF ProviderIInv, ProviderTypeOK

\* A step that leaves the connection, the versions and the series alone.
LEMMA QuietStep ==
    ASSUME ProviderIInv, UNCHANGED <<connectionVars, dataVars>>, worked' \in Nat,
           ingestions' \in [Jobs -> Ingestion \cup {None}],
           \A j \in Jobs : ingestions'[j] # None =>
              \/ ingestions'[j].received = {}
              \/ ingestions[j] # None /\ ingestions'[j].received = ingestions[j].received,
           work' \in [Sessions -> Work \cup {None}], WorkInv', SoleWorker'
    PROVE  ProviderIInv'
<1>1. ProviderTypeOK'
  BY DEF ProviderIInv, ProviderTypeOK, connectionVars, dataVars
<1>2. ReceivedStored'
  BY DEF ProviderIInv, ReceivedStored, dataVars
<1>3. AccessAsDecided' /\ ControlInv' /\ VersionsInOrder'
  BY DEF ProviderIInv, AccessAsDecided, ControlInv, VersionsInOrder, connectionVars, dataVars
<1> QED
  BY <1>1, <1>2, <1>3 DEF ProviderIInv

\* A step of session s that changes nothing but what it is doing.
LEMMA PrivateStep ==
    ASSUME ProviderIInv, NEW s \in Sessions, NEW w \in Work, work[s] # None, w.job = work[s].job,
           work' = [work EXCEPT ![s] = w], OfSession(w)',
           UNCHANGED <<connectionVars, dataVars, ingestions, worked>>
    PROVE  ProviderIInv'
<1>1. w.job # None => Alone(s, w.job)
  BY DEF ProviderIInv, SoleWorker
<1>2. work' \in [Sessions -> Work \cup {None}] /\ WorkInv' /\ SoleWorker'
  <2>1. VersionsGrow
    BY Lengths DEF VersionsGrow, dataVars
  <2>2. observed \subseteq observed' /\ \A j \in Jobs : ingestions'[j] = ingestions[j]
    BY DEF dataVars
  <2> QED
    BY <1>1, <2>1, <2>2, SessionStep
<1>3. ingestions' \in [Jobs -> Ingestion \cup {None}] /\ worked' \in Nat
  BY DEF ProviderIInv, ProviderTypeOK
<1> QED
  BY <1>2, <1>3, QuietStep

-----------------------------------------------------------------------------
(***************************************************************************)
(* Where work comes from.                                                  *)
(***************************************************************************)
LEMMA Opened ==
    ASSUME ProviderIInv, NEW s \in Sessions, NEW kind \in {"import", "refresh", "probe"},
           NEW phase \in {"load", "asked"}, NEW j \in Jobs \cup {None},
           NEW loaded \in Access \cup {None}, NEW left \in 1 .. 2,
           Open(s, kind, phase, j, loaded, left),
           kind = "refresh" \/ phase = "load" => j # None,
           phase = "asked" => loaded # None,
           j # None => /\ Alone(s, j)
                       /\ ingestions'[j] # None
                       /\ ingestions'[j].status \in {"PENDING", "RUNNING"},
           \A i \in Jobs : ingestions'[i] = ingestions[i] \/ Alone(s, i),
           UNCHANGED <<versions, observed>>
    PROVE  /\ work' \in [Sessions -> Work \cup {None}]
           /\ WorkInv'
           /\ SoleWorker'
           /\ worked' \in Nat
<1> PICK w : w = [kind |-> kind, phase |-> phase, job |-> j, loaded |-> loaded, left |-> left,
                  reply |-> None, dataset |-> None, number |-> 0, fresh |-> {}, ok |-> TRUE]
  OBVIOUS
<1>1. w \in Work
  <2>1. left \in 0 .. 2 /\ None \in Replies /\ {} \in SUBSET Responses
    BY DEF Replies
  <2> QED
    BY <2>1 DEF Work
<1>2. work' = [work EXCEPT ![s] = w] /\ worked' = worked + 1
  BY DEF Open
<1>3. VersionsGrow /\ observed \subseteq observed'
  BY Lengths DEF VersionsGrow
<1>4. OfSession(w)'
  BY <1>3 DEF OfSession
<1>5. w.job = j
  OBVIOUS
<1>6. worked' \in Nat
  BY <1>2 DEF ProviderIInv, ProviderTypeOK
<1> QED
  BY <1>1, <1>2, <1>3, <1>4, <1>5, <1>6, SessionStep

LEMMA ByBeginAtOnce ==
    ASSUME ProviderIInv, NEW s \in Sessions, BeginImport(s) \/ BeginTest(s)
    PROVE  ProviderIInv'
<1>1. PICK kind \in {"import", "probe"} : Open(s, kind, "asked", None, access, 1)
  BY DEF BeginImport, BeginTest
<1>2. /\ UNCHANGED <<connectionVars, dataVars, ingestions>>
      /\ UNCHANGED <<versions, observed>> /\ ingestions' = ingestions
  BY DEF BeginImport, BeginTest, dataVars
<1>3. access \in Access \cup {None} /\ access # None
  BY ProviderAssumption DEF ProviderIInv, ProviderTypeOK
<1>4. /\ work' \in [Sessions -> Work \cup {None}] /\ WorkInv' /\ SoleWorker'
      /\ worked' \in Nat
  <2>1. /\ kind \in {"import", "refresh", "probe"} /\ kind # "refresh"
        /\ "asked" \in {"load", "asked"} /\ None \in Jobs \cup {None} /\ 1 \in 1 .. 2
    OBVIOUS
  <2>2. \A i \in Jobs : ingestions'[i] = ingestions[i] \/ Alone(s, i)
    BY <1>2
  <2> QED
    BY <1>1, <1>2, <1>3, <2>1, <2>2, Opened
<1>5. ingestions' \in [Jobs -> Ingestion \cup {None}]
  BY <1>2 DEF ProviderIInv, ProviderTypeOK
<1> QED
  BY <1>2, <1>4, <1>5, QuietStep

\* A job that has no session yet, because it is new or QUEUED, is given to s.
LEMMA ByBeginJob ==
    ASSUME ProviderIInv, NEW s \in Sessions, NEW j \in Jobs, NEW kind \in {"refresh", "probe"},
           NEW left \in 1 .. 2, NEW i \in Ingestion,
           ingestions[j] = None \/ ingestions[j].status = "QUEUED",
           i.status \in {"PENDING", "RUNNING"},
           i.received = {} \/ (ingestions[j] # None /\ i.received = ingestions[j].received),
           Open(s, kind, "load", j, None, left),
           ingestions' = [ingestions EXCEPT ![j] = i],
           UNCHANGED <<connectionVars, dataVars>>
    PROVE  ProviderIInv'
<1>1. ingestions \in [Jobs -> Ingestion \cup {None}]
  BY DEF ProviderIInv, ProviderTypeOK
<1>2. /\ ingestions' \in [Jobs -> Ingestion \cup {None}]
      /\ ingestions'[j] = i
      /\ \A k \in Jobs : k # j => ingestions'[k] = ingestions[k]
  BY <1>1
<1>3. i # None /\ j # None
  BY ProviderAssumption
<1>4. Alone(s, j)
  BY <1>3 DEF ProviderIInv, WorkInv, OfSession, Alone
<1>5. /\ work' \in [Sessions -> Work \cup {None}] /\ WorkInv' /\ SoleWorker'
      /\ worked' \in Nat
  <2>1. UNCHANGED <<versions, observed>>
    BY DEF dataVars
  <2>2. \A k \in Jobs : ingestions'[k] = ingestions[k] \/ Alone(s, k)
    BY <1>2, <1>4
  <2>3. /\ kind \in {"import", "refresh", "probe"} /\ "load" \in {"load", "asked"}
        /\ j \in Jobs \cup {None} /\ None \in Access \cup {None} /\ "load" # "asked"
    OBVIOUS
  <2> QED
    BY <1>2, <1>3, <1>4, <2>1, <2>2, <2>3, Opened
<1>6. \A k \in Jobs : ingestions'[k] # None =>
              \/ ingestions'[k].received = {}
              \/ ingestions[k] # None /\ ingestions'[k].received = ingestions[k].received
  BY <1>2
<1> QED
  BY <1>2, <1>5, <1>6, QuietStep

LEMMA ByBeginRefresh ==
    ASSUME ProviderIInv, NEW s \in Sessions, NEW j \in Jobs, NEW series \in 1 .. 2,
           BeginRefresh(s, j, series)
    PROVE  ProviderIInv'
<1> DEFINE i == [kind |-> "refresh", received |-> {}, status |-> "PENDING"]
<1>1. i \in Ingestion /\ i.status = "PENDING" /\ i.received = {}
  BY DEF Ingestion
<1>2. /\ ingestions[j] = None
      /\ Open(s, "refresh", "load", j, None, series)
      /\ ingestions' = [ingestions EXCEPT ![j] = i]
      /\ UNCHANGED <<connectionVars, dataVars>>
  BY DEF BeginRefresh
<1> HIDE DEF i
<1> QED
  BY <1>1, <1>2, ByBeginJob

LEMMA ByClaimProbe ==
    ASSUME ProviderIInv, NEW s \in Sessions, NEW j \in Jobs, ClaimProbe(s, j)
    PROVE  ProviderIInv'
<1> PICK i : i = [ingestions[j] EXCEPT !.status = "RUNNING"]
  OBVIOUS
<1>1. ingestions[j] \in Ingestion /\ ingestions[j] # None /\ ingestions[j].status = "QUEUED"
  BY DEF ProviderIInv, ProviderTypeOK, ClaimProbe
<1>2. i \in Ingestion /\ i.status = "RUNNING" /\ i.received = ingestions[j].received
  BY <1>1 DEF Ingestion
<1>3. /\ Open(s, "probe", "load", j, None, 1)
      /\ ingestions' = [ingestions EXCEPT ![j] = i]
      /\ UNCHANGED <<connectionVars, dataVars>>
  BY DEF ClaimProbe
<1>4. "probe" \in {"refresh", "probe"} /\ 1 \in 1 .. 2
  OBVIOUS
<1> QED
  BY <1>1, <1>2, <1>3, <1>4, ByBeginJob

LEMMA ByEnqueue ==
    ASSUME ProviderIInv, NEW j \in Jobs, Enqueue(j)
    PROVE  ProviderIInv'
<1> DEFINE i == [kind |-> "probe", received |-> {}, status |-> "QUEUED"]
<1>1. /\ UNCHANGED <<connectionVars, dataVars, work, worked>>
      /\ ingestions[j] = None
      /\ ingestions' = [ingestions EXCEPT ![j] = i]
      /\ ingestions \in [Jobs -> Ingestion \cup {None}]
  BY DEF Enqueue, ProviderIInv, ProviderTypeOK
<1>2. i \in Ingestion /\ i.received = {}
  BY DEF Ingestion
<1> HIDE DEF i
<1>3. /\ ingestions' \in [Jobs -> Ingestion \cup {None}] /\ ingestions'[j] = i
      /\ \A k \in Jobs : k # j => ingestions'[k] = ingestions[k]
  BY <1>1, <1>2
<1>4. WorkInv' /\ SoleWorker'
  <2>1. \A s \in Sessions : work[s] # None => work[s] \in Work /\ work[s].job # j
    BY <1>1, ProviderAssumption DEF ProviderIInv, ProviderTypeOK, WorkInv, OfSession
  <2>2. \A s \in Sessions : work[s] # None =>
            (work[s].job # None => ingestions'[work[s].job] = ingestions[work[s].job])
    BY <1>3, <2>1 DEF Work
  <2>3. WorkInv'
    <3> SUFFICES ASSUME NEW s \in Sessions, work[s] # None
                 PROVE  OfSession(work[s])'
      BY <1>1 DEF WorkInv
    <3>1. OfSession(work[s])
      BY DEF ProviderIInv, WorkInv
    <3>2. versions' = versions /\ observed' = observed /\ work' = work
      BY <1>1 DEF dataVars
    <3>3. work[s].job # None => ingestions'[work[s].job] = ingestions[work[s].job]
      BY <2>2
    <3> QED
      BY <3>1, <3>2, <3>3 DEF OfSession
  <2>4. SoleWorker'
    BY <1>1 DEF ProviderIInv, SoleWorker, Alone
  <2> QED
    BY <2>3, <2>4
<1> QED
  BY <1>1, <1>2, <1>3, <1>4, QuietStep DEF ProviderIInv, ProviderTypeOK

-----------------------------------------------------------------------------
(***************************************************************************)
(* Asking, reading, committing.                                            *)
(***************************************************************************)
LEMMA SessionAtWork ==
    ASSUME ProviderIInv, NEW s \in Sessions, work[s] # None
    PROVE  work[s] \in Work /\ OfSession(work[s])
BY DEF ProviderIInv, ProviderTypeOK, WorkInv

LEMMA ByLoadConnection ==
    ASSUME ProviderIInv, NEW s \in Sessions, LoadConnection(s)
    PROVE  ProviderIInv'
<1> PICK w : w = [work[s] EXCEPT !.loaded = Loaded(s),
                                 !.phase = IF Usable(Loaded(s)) THEN "asked" ELSE "end",
                                 !.ok = @ /\ (Usable(Loaded(s)) \/ work[s].kind = "probe")]
  OBVIOUS
<1>1. /\ UNCHANGED <<connectionVars, dataVars, ingestions, worked>>
      /\ work[s] # None /\ work[s].phase = "load"
      /\ work' = [work EXCEPT ![s] = w]
  BY DEF LoadConnection, InPhase
<1>2. work[s] \in Work /\ OfSession(work[s])
  BY <1>1, SessionAtWork
<1>3. Loaded(s) \in Access /\ Loaded(s) # None
  BY <1>2, ProviderAssumption DEF Loaded, ProviderIInv, ProviderTypeOK, Work
<1>4. /\ w \in Work /\ w.job = work[s].job /\ w.kind = work[s].kind /\ w.loaded = Loaded(s)
      /\ w.phase \in {"asked", "end"} /\ w.left = work[s].left /\ w.number = work[s].number
      /\ w.dataset = work[s].dataset
  BY <1>2, <1>3 DEF Work
<1>5. OfSession(w)'
  BY <1>1, <1>2, <1>3, <1>4 DEF OfSession, dataVars
<1> QED
  BY <1>1, <1>4, <1>5, PrivateStep

LEMMA ByReply ==
    ASSUME ProviderIInv, NEW s \in Sessions, NEW reply \in Replies, Reply(s, reply)
    PROVE  ProviderIInv'
<1> PICK w : w = [work[s] EXCEPT !.reply = reply, !.phase = "replied"]
  OBVIOUS
<1>1. /\ UNCHANGED <<connectionVars, dataVars, ingestions, worked>>
      /\ work[s] # None /\ work[s].phase = "asked"
      /\ work' = [work EXCEPT ![s] = w]
  BY DEF Reply, InPhase
<1>2. work[s] \in Work /\ OfSession(work[s])
  BY <1>1, SessionAtWork
<1>3. /\ w \in Work /\ w.job = work[s].job /\ w.kind = work[s].kind
      /\ w.loaded = work[s].loaded /\ w.phase = "replied" /\ w.left = work[s].left
      /\ w.number = work[s].number /\ w.dataset = work[s].dataset
  BY <1>2 DEF Work
<1>4. OfSession(w)'
  BY <1>1, <1>2, <1>3 DEF OfSession, dataVars
<1> QED
  BY <1>1, <1>3, <1>4, PrivateStep

\* The highest of the numbers 1 .. n of the versions of a dataset.
LEMMA HighestNumber ==
    ASSUME VersionsInOrder, NEW d \in Sessions, versions[d] \in Seq(Version)
    PROVE  Max({0} \cup Numbers(d)) = Len(versions[d])
<1> DEFINE n == Len(versions[d])
           S == {0} \cup Numbers(d)
<1>1. n \in Nat /\ DOMAIN versions[d] = 1 .. n
  BY LenProperties
<1>2. S = 0 .. n
  <2>1. \A i \in 1 .. n : versions[d][i].number = i
    BY <1>1 DEF VersionsInOrder
  <2>2. Numbers(d) = {versions[d][i].number : i \in 1 .. n}
    BY <1>1 DEF Numbers
  <2>3. Numbers(d) = 1 .. n
    BY <1>1, <2>1, <2>2
  <2> QED
    BY <1>1, <2>3
<1> HIDE DEF n, S
<1>3. \A x \in S : (\A y \in S : x >= y) <=> x = n
  BY <1>1, <1>2
<1>4. n \in S
  BY <1>1, <1>2
<1>5. Max(S) = n
  BY <1>3, <1>4 DEF Max
<1> QED
  BY <1>5 DEF n, S

LEMMA NextOfDataset ==
    ASSUME ProviderIInv, NEW d \in Sessions, NEW body
    PROVE  NextNumber(d, body) \in Nat /\ NextNumber(d, body) <= Len(versions[d]) + 1
<1>1. versions[d] \in Seq(Version) /\ VersionsInOrder /\ Len(versions[d]) \in Nat
  BY Lengths DEF ProviderIInv, ProviderTypeOK, Version
<1> QED
  BY <1>1, HighestNumber DEF NextNumber

LEMMA ByReadStored ==
    ASSUME ProviderIInv, NEW s \in Sessions, ReadStored(s)
    PROVE  ProviderIInv'
<1> DEFINE asked == work[s].kind = "refresh" /\ work[s].reply # None
<1>0. PICK d \in Found(s) :
        work' = [work EXCEPT
           ![s].phase = "read",
           ![s].dataset = d,
           ![s].number = IF Importing(s) THEN NextNumber(d, work[s].reply) ELSE 0,
           ![s].fresh = IF asked THEN Unseen(work[s].reply) ELSE {}]
  BY DEF ReadStored
<1> PICK number, fresh, w :
        /\ number = IF Importing(s) THEN NextNumber(d, work[s].reply) ELSE 0
        /\ fresh = IF asked THEN Unseen(work[s].reply) ELSE {}
        /\ w = [work[s] EXCEPT !.phase = "read", !.dataset = d, !.number = number,
                               !.fresh = fresh]
        /\ work' = [work EXCEPT ![s] = w]
  BY <1>0
<1>1. /\ UNCHANGED <<connectionVars, dataVars, ingestions, worked>>
      /\ work[s] # None /\ work[s].phase = "replied"
      /\ work' = [work EXCEPT ![s] = w]
  BY DEF ReadStored, InPhase
<1>2. work[s] \in Work /\ OfSession(work[s])
  BY <1>1, SessionAtWork
<1>3. /\ d \in Sessions \cup {None}
      /\ Importing(s) => d \in Sessions
  BY DEF Found, Datasets
<1>4. /\ number \in Nat
      /\ number # 0 => Importing(s) /\ d \in Sessions /\ number <= Len(versions[d]) + 1
  BY <1>3, NextOfDataset
<1>5. /\ fresh \in SUBSET Responses
      /\ asked => work[s].reply \subseteq observed \cup fresh
  <2>1. work[s].reply # None => work[s].reply \in SUBSET Responses
    BY <1>2 DEF Work, Replies
  <2> QED
    BY <2>1 DEF Unseen
<1>6. /\ w \in Work /\ w.job = work[s].job /\ w.kind = work[s].kind
      /\ w.loaded = work[s].loaded /\ w.phase = "read" /\ w.left = work[s].left
      /\ w.dataset = d /\ w.number = number /\ w.fresh = fresh /\ w.reply = work[s].reply
  BY <1>2, <1>3, <1>4, <1>5 DEF Work
<1>7. OfSession(w)'
  BY <1>1, <1>2, <1>4, <1>5, <1>6 DEF OfSession, Importing, dataVars
<1> QED
  BY <1>1, <1>6, <1>7, PrivateStep

-----------------------------------------------------------------------------
(***************************************************************************)
(* The commit: the tables first, then the three kinds of work.             *)
(***************************************************************************)
LEMMA CommitTables ==
    ASSUME ProviderIInv, NEW s \in Sessions, CommitWork(s)
    PROVE  /\ access' \in Access /\ access'.enabled = access.enabled
           /\ versions' \in [Sessions -> Seq(Version)] /\ VersionsGrow /\ VersionsInOrder'
           /\ observed' \subseteq Responses /\ observed \subseteq observed'
<1> DEFINE w == work[s]
           d == w.dataset
           n == Len(versions[d])
<1>1. w \in Work /\ OfSession(w) /\ w # None /\ w.phase = "read"
  BY SessionAtWork DEF CommitWork, InPhase
<1>2. /\ access \in Access /\ versions \in [Sessions -> Seq(Version)] /\ observed \subseteq Responses
      /\ VersionsInOrder /\ \A e \in Sessions : Len(versions[e]) \in Nat
  BY Lengths DEF ProviderIInv, ProviderTypeOK, Version
<1>3. /\ \E state \in {"CONNECTED", "FAILED"} : access' = Recorded(w.loaded, state)
      /\ w.number # 0 => w.number \notin Numbers(d)
      /\ w.number = 0 => versions' = versions
      /\ w.number # 0 => versions' = [versions EXCEPT ![d] =
                                         Append(@, [number |-> w.number, body |-> w.reply])]
      /\ observed' = observed \cup w.fresh
  BY DEF CommitWork, Admissible, NumberFree
<1> HIDE DEF w, d, n
<1>4. access' \in Access /\ access'.enabled = access.enabled
  BY <1>2, <1>3 DEF Recorded, Access, States
<1>5. observed' \subseteq Responses /\ observed \subseteq observed'
  BY <1>1, <1>2, <1>3 DEF Work
<1>6. CASE w.number = 0
  BY <1>2, <1>3, <1>4, <1>5, <1>6 DEF VersionsInOrder, VersionsGrow
<1>7. CASE w.number # 0
  <2> PICK v : v = [number |-> w.number, body |-> w.reply]
    OBVIOUS
  <2>1. /\ w.number \in Nat \ {0} /\ w.number <= n + 1 /\ w.reply \in SUBSET Responses
        /\ d \in Sessions
    BY <1>1, <1>7 DEF OfSession, Work, Replies, d, n
  <2>2. versions[d] \in Seq(Version) /\ n \in Nat /\ DOMAIN versions[d] = 1 .. n
    BY <1>2, <2>1, LenProperties DEF n
  <2>3. w.number = n + 1
    <3>1. \A i \in 1 .. n : versions[d][i].number = i /\ versions[d][i].number # w.number
      BY <1>2, <1>3, <1>7, <2>1, <2>2 DEF VersionsInOrder, Numbers
    <3>2. w.number \notin 1 .. n
      BY <3>1
    <3> QED
      BY <2>1, <2>2, <3>2
  <2>4. v \in Version /\ v.number = n + 1
    BY <2>1, <2>3 DEF Version
  <2>5. /\ versions' \in [Sessions -> Seq(Version)] /\ versions'[d] = Append(versions[d], v)
        /\ \A e \in Sessions : e # d => versions'[e] = versions[e]
    <3>1. Append(versions[d], v) \in Seq(Version)
      BY <2>2, <2>4, AppendProperties
    <3>2. versions' = [versions EXCEPT ![d] = Append(versions[d], v)]
      BY <1>3, <1>7
    <3> QED
      BY <1>2, <2>1, <3>1, <3>2
  <2>6. /\ Len(versions'[d]) = n + 1 /\ versions'[d][n + 1] = v
        /\ \A i \in 1 .. n : versions'[d][i] = versions[d][i]
        /\ DOMAIN versions'[d] = 1 .. (n + 1)
    BY <2>2, <2>4, <2>5, AppendProperties, LenProperties DEF n
  <2>7. VersionsInOrder'
    <3> SUFFICES ASSUME NEW e \in Sessions, NEW i \in DOMAIN versions'[e]
                 PROVE  versions'[e][i].number = i
      BY DEF VersionsInOrder
    <3>1. CASE e # d
      BY <1>2, <2>5, <3>1 DEF VersionsInOrder
    <3>2. CASE e = d /\ i \in 1 .. n
      BY <1>2, <2>1, <2>2, <2>6, <3>2 DEF VersionsInOrder
    <3>3. CASE e = d /\ i = n + 1
      BY <2>4, <2>6, <3>3
    <3> QED
      BY <2>2, <2>6, <3>1, <3>2, <3>3
  <2>8. VersionsGrow
    <3> SUFFICES ASSUME NEW e \in Sessions
                 PROVE  /\ Len(versions[e]) \in Nat /\ Len(versions'[e]) \in Nat
                        /\ Len(versions[e]) <= Len(versions'[e])
      BY DEF VersionsGrow
    <3>1. CASE e = d
      BY <2>2, <2>6, <3>1 DEF n
    <3>2. CASE e # d
      BY <1>2, <2>5, <3>2
    <3> QED
      BY <3>1, <3>2
  <2> QED
    BY <1>4, <1>5, <2>5, <2>7, <2>8
<1> QED
  BY <1>6, <1>7

\* What is left to show of a commit.
LEMMA CommitStep ==
    ASSUME ProviderIInv, NEW s \in Sessions, CommitWork(s),
           ingestions' \in [Jobs -> Ingestion \cup {None}], ReceivedStored',
           work' \in [Sessions -> Work \cup {None}], WorkInv', SoleWorker'
    PROVE  ProviderIInv'
<1>1. UNCHANGED <<decided, controls, worked>>
  BY DEF CommitWork
<1>2. /\ access' \in Access /\ access'.enabled = access.enabled
      /\ versions' \in [Sessions -> Seq(Version)] /\ VersionsInOrder'
      /\ observed' \subseteq Responses
  BY CommitTables
<1>3. ProviderTypeOK'
  BY <1>1, <1>2 DEF ProviderIInv, ProviderTypeOK, Version
<1>4. AccessAsDecided' /\ ControlInv'
  BY <1>1, <1>2 DEF ProviderIInv, AccessAsDecided, ControlInv
<1> QED
  BY <1>2, <1>3, <1>4 DEF ProviderIInv

LEMMA OwnJob ==
    ASSUME ProviderIInv, NEW s \in Sessions, work[s] # None, work[s].job # None
    PROVE  /\ work[s].job \in Jobs
           /\ ingestions[work[s].job] \in Ingestion
           /\ ingestions[work[s].job] # None
           /\ Alone(s, work[s].job)
BY SessionAtWork DEF ProviderIInv, ProviderTypeOK, SoleWorker, OfSession, Work

\* A job reaches its end with the session.
LEMMA Ended ==
    ASSUME ProviderIInv, NEW s \in Sessions, work[s] # None, work[s].job # None,
           NEW status \in {"SUCCEEDED", "FAILED"},
           ingestions' = Ingest(s, status),
           Close(s), observed \subseteq observed',
           VersionsGrow
    PROVE  /\ ingestions' \in [Jobs -> Ingestion \cup {None}]
           /\ \A j \in Jobs : ingestions'[j] # None =>
                 ingestions[j] # None /\ ingestions'[j].received = ingestions[j].received
           /\ work' \in [Sessions -> Work \cup {None}] /\ WorkInv' /\ SoleWorker'
<1>0. PICK j, i : j = work[s].job /\ i = [ingestions[j] EXCEPT !.status = status]
  OBVIOUS
<1>1. j \in Jobs /\ ingestions[j] \in Ingestion /\ ingestions[j] # None /\ Alone(s, j)
  BY <1>0, OwnJob
<1>2. i \in Ingestion /\ i.received = ingestions[j].received
  BY <1>0, <1>1 DEF Ingestion
<1>3. ingestions' = [ingestions EXCEPT ![j] = i] /\ ingestions \in [Jobs -> Ingestion \cup {None}]
  BY <1>0 DEF Ingest, ProviderIInv, ProviderTypeOK
<1>4. /\ ingestions' \in [Jobs -> Ingestion \cup {None}] /\ ingestions'[j] = i
      /\ \A k \in Jobs : k # j => ingestions'[k] = ingestions[k]
  BY <1>1, <1>2, <1>3
<1>5. \A k \in Jobs : ingestions'[k] = ingestions[k] \/ Alone(s, k)
  BY <1>1, <1>4
<1>6. work' \in [Sessions -> Work \cup {None}] /\ WorkInv' /\ SoleWorker'
  BY <1>5, SessionCloses DEF Close
<1> QED
  BY <1>1, <1>2, <1>4, <1>6

LEMMA ByCommitWork ==
    ASSUME ProviderIInv, NEW s \in Sessions, CommitWork(s)
    PROVE  ProviderIInv'
<1> DEFINE ok == work[s].reply # None
           state == IF ok THEN "CONNECTED" ELSE "FAILED"
<1>1. work[s] \in Work /\ OfSession(work[s]) /\ work[s] # None /\ work[s].phase = "read"
  BY SessionAtWork DEF CommitWork, InPhase
<1>2. VersionsGrow /\ observed \subseteq observed'
  BY CommitTables
<1>3. observed' = observed \cup work[s].fresh
  BY DEF CommitWork
<1>4. ingestions \in [Jobs -> Ingestion \cup {None}] /\ ReceivedStored
  BY DEF ProviderIInv, ProviderTypeOK
<1>5. CASE /\ work[s].kind = "refresh"
           /\ work' = [work EXCEPT ![s].phase = IF work[s].left > 1 THEN "load" ELSE "end",
                                   ![s].left = work[s].left - 1,
                                   ![s].loaded = [work[s].loaded EXCEPT !.state = state],
                                   ![s].fresh = {},
                                   ![s].ok = @ /\ ok]
           /\ ingestions' = [ingestions EXCEPT ![work[s].job].received = @ \cup
                                                  (IF ok THEN work[s].reply ELSE {})]
  <2>0. PICK j, points, i, w :
         /\ j = work[s].job
         /\ points = IF ok THEN work[s].reply ELSE {}
         /\ i = [ingestions[j] EXCEPT !.received = @ \cup points]
         /\ w = [work[s] EXCEPT !.phase = IF work[s].left > 1 THEN "load" ELSE "end",
                                !.left = work[s].left - 1,
                                !.loaded = [work[s].loaded EXCEPT !.state = state],
                                !.fresh = {},
                                !.ok = @ /\ ok]
    OBVIOUS
  <2>1. j \in Jobs /\ j # None /\ ingestions[j] \in Ingestion /\ ingestions[j] # None /\ Alone(s, j)
    BY <1>1, <1>5, <2>0, OwnJob DEF OfSession
  <2>2. points \subseteq Responses /\ points \subseteq observed'
    BY <1>1, <1>3, <1>5, <2>0 DEF OfSession, Work, Replies
  <2>3. /\ i \in Ingestion /\ i.status = ingestions[j].status
        /\ i.received = ingestions[j].received \cup points
    BY <2>0, <2>1, <2>2 DEF Ingestion
  <2>4. ingestions' = [ingestions EXCEPT ![j] = i] /\ work' = [work EXCEPT ![s] = w]
    <3>1. ingestions' = [ingestions EXCEPT ![j] = i]
      BY <1>5, <2>0
    <3>2. work' = [work EXCEPT ![s] = w]
      BY <1>5, <2>0
    <3> QED
      BY <3>1, <3>2
  <2>5. /\ ingestions' \in [Jobs -> Ingestion \cup {None}] /\ ingestions'[j] = i
        /\ \A k \in Jobs : k # j => ingestions'[k] = ingestions[k]
    BY <1>4, <2>1, <2>3, <2>4
  <2>6. ReceivedStored'
    BY <1>2, <1>4, <2>1, <2>2, <2>3, <2>5 DEF ReceivedStored
  <2>7. work[s].loaded \in Access /\ work[s].left \in 1 .. 2 /\ work[s].number = 0
    BY <1>1, <1>5 DEF OfSession, Work
  <2>8. /\ w \in Work /\ w.job = j /\ w.phase \in {"load", "end"} /\ w.number = 0
        /\ w.phase # "end" => w.left >= 1
    <3>1. [work[s].loaded EXCEPT !.state = state] \in Access
      BY <2>7 DEF Access, States
    <3>2. work[s].left - 1 \in 0 .. 2 /\ (work[s].left > 1 => work[s].left - 1 >= 1)
      BY <2>7
    <3> HIDE DEF state, ok
    <3> QED
      BY <1>1, <2>0, <2>7, <3>1, <3>2 DEF Work
  <2>9. i # None /\ i.status \in {"PENDING", "RUNNING"}
    BY <1>1, <2>0, <2>1, <2>3, ProviderAssumption DEF OfSession
  <2>10. OfSession(w)'
    BY <1>2, <2>1, <2>5, <2>8, <2>9 DEF OfSession
  <2>11. \A k \in Jobs : ingestions'[k] = ingestions[k] \/ Alone(s, k)
    BY <2>1, <2>5
  <2>12. work' \in [Sessions -> Work \cup {None}] /\ WorkInv' /\ SoleWorker'
    BY <1>2, <2>1, <2>4, <2>8, <2>10, <2>11, SessionStep
  <2> QED
    BY <2>5, <2>6, <2>12, CommitStep
<1>6. CASE /\ work[s].kind = "probe"
           /\ work[s].job # None
           /\ ingestions' = Ingest(s, IF ok THEN "SUCCEEDED" ELSE "FAILED")
           /\ Close(s)
  <2> PICK status \in {"SUCCEEDED", "FAILED"} : ingestions' = Ingest(s, status)
    BY <1>6
  <2>1. /\ ingestions' \in [Jobs -> Ingestion \cup {None}]
        /\ \A j \in Jobs : ingestions'[j] # None =>
                 ingestions[j] # None /\ ingestions'[j].received = ingestions[j].received
        /\ work' \in [Sessions -> Work \cup {None}] /\ WorkInv' /\ SoleWorker'
    BY <1>1, <1>2, <1>6, Ended
  <2>2. ReceivedStored'
    BY <1>2, <1>4, <2>1 DEF ReceivedStored
  <2> QED
    BY <2>1, <2>2, CommitStep
<1>7. CASE work[s].job = None /\ Close(s) /\ UNCHANGED ingestions
  <2>1. work' \in [Sessions -> Work \cup {None}] /\ WorkInv' /\ SoleWorker'
    BY <1>2, <1>7, SessionCloses DEF Close
  <2>2. ingestions' \in [Jobs -> Ingestion \cup {None}] /\ ReceivedStored'
    BY <1>2, <1>4, <1>7 DEF ReceivedStored
  <2> QED
    BY <2>1, <2>2, CommitStep
<1> QED
  BY <1>5, <1>6, <1>7 DEF CommitWork

-----------------------------------------------------------------------------
(***************************************************************************)
(* Ends, failures, and the administrator.                                  *)
(***************************************************************************)
LEMMA Closing ==
    ASSUME ProviderIInv, NEW s \in Sessions, work[s] # None, Close(s),
           UNCHANGED <<connectionVars, dataVars, worked>>,
           \/ UNCHANGED ingestions
           \/ /\ work[s].job # None
              /\ \E status \in {"SUCCEEDED", "FAILED"} : ingestions' = Ingest(s, status)
    PROVE  ProviderIInv'
<1>1. VersionsGrow /\ observed \subseteq observed' /\ worked' \in Nat
  BY Lengths DEF ProviderIInv, ProviderTypeOK, VersionsGrow, dataVars
<1>2. CASE UNCHANGED ingestions
  <2>1. work' \in [Sessions -> Work \cup {None}] /\ WorkInv' /\ SoleWorker'
    BY <1>1, <1>2, SessionCloses DEF Close
  <2>2. ingestions' \in [Jobs -> Ingestion \cup {None}]
    BY <1>2 DEF ProviderIInv, ProviderTypeOK
  <2> QED
    BY <1>1, <1>2, <2>1, <2>2, QuietStep
<1>3. CASE /\ work[s].job # None
           /\ \E status \in {"SUCCEEDED", "FAILED"} : ingestions' = Ingest(s, status)
  <2>1. /\ ingestions' \in [Jobs -> Ingestion \cup {None}]
        /\ \A j \in Jobs : ingestions'[j] # None =>
                 ingestions[j] # None /\ ingestions'[j].received = ingestions[j].received
        /\ work' \in [Sessions -> Work \cup {None}] /\ WorkInv' /\ SoleWorker'
    BY <1>1, <1>3, Ended
  <2> QED
    BY <1>1, <2>1, QuietStep
<1> QED
  BY <1>2, <1>3

LEMMA ByEndJob ==
    ASSUME ProviderIInv, NEW s \in Sessions, EndJob(s)
    PROVE  ProviderIInv'
<1>1. /\ work[s] # None /\ work[s].phase = "end" /\ Close(s)
      /\ UNCHANGED <<connectionVars, dataVars, worked>>
      /\ \E status \in {"SUCCEEDED", "FAILED"} : ingestions' = Ingest(s, status)
  BY DEF EndJob, InPhase
<1>2. work[s].job # None
  BY <1>1, SessionAtWork DEF OfSession
<1> QED
  BY <1>1, <1>2, Closing

LEMMA ByAbortWork ==
    ASSUME ProviderIInv, NEW s \in Sessions, AbortWork(s)
    PROVE  ProviderIInv'
BY Closing DEF AbortWork

\* The sessions' work, and all that it is about, is as it was.
LEMMA ControlStep ==
    ASSUME ProviderIInv, UNCHANGED <<dataVars, ingestions, work>>,
           worked' \in Nat, access' \in Access, decided' \in BOOLEAN,
           controls' \in [Administrators -> Control \cup {None}],
           AccessAsDecided', ControlInv'
    PROVE  ProviderIInv'
<1>1. ProviderTypeOK'
  BY DEF ProviderIInv, ProviderTypeOK, dataVars
<1>2. WorkInv' /\ SoleWorker' /\ ReceivedStored' /\ VersionsInOrder'
  BY DEF ProviderIInv, WorkInv, OfSession, SoleWorker, Alone, ReceivedStored, VersionsInOrder,
         dataVars
<1> QED
  BY <1>1, <1>2 DEF ProviderIInv

LEMMA ByBeginControl ==
    ASSUME ProviderIInv, NEW a \in Administrators, NEW action \in Actions, BeginControl(a, action)
    PROVE  ProviderIInv'
<1> PICK c : c = [action |-> action, loaded |-> access, crossed |-> FALSE]
  OBVIOUS
<1>1. /\ controls \in [Administrators -> Control \cup {None}] /\ access \in Access
      /\ decided \in BOOLEAN /\ worked \in Nat
  BY DEF ProviderIInv, ProviderTypeOK
<1>2. /\ controls' = [controls EXCEPT ![a] = c] /\ worked' = worked + 1
      /\ UNCHANGED <<access, decided, dataVars, ingestions, work>>
  BY DEF BeginControl
<1>3. c \in Control /\ c.loaded = access
  BY <1>1 DEF Control
<1>4. controls' \in [Administrators -> Control \cup {None}] /\ worked' \in Nat
  BY <1>1, <1>2, <1>3
<1>5. ControlInv' /\ AccessAsDecided'
  BY <1>1, <1>2, <1>3 DEF ProviderIInv, ControlInv, AccessAsDecided
<1> QED
  BY <1>1, <1>2, <1>4, <1>5, ControlStep

\* What an uncrossed control decided is what is enabled, because the row still has what it
\* read; the others in progress are crossed.
LEMMA ByCommitControl ==
    ASSUME ProviderIInv, NEW a \in Administrators, CommitControl(a)
    PROVE  ProviderIInv'
<1> DEFINE c == controls[a]
           enabled == ColumnWritten(c.loaded.enabled, c.action = "ENABLE", access.enabled)
           state == ColumnWritten(c.loaded.state, ControlledState(c.action), access.state)
           others == [b \in Administrators |->
               IF b = a \/ controls[b] = None THEN None ELSE [controls[b] EXCEPT !.crossed = TRUE]]
<1>1. /\ controls \in [Administrators -> Control \cup {None}] /\ access \in Access
      /\ worked \in Nat /\ c \in Control
      /\ ~c.crossed => c.loaded.enabled = access.enabled
  BY DEF CommitControl, ProviderIInv, ProviderTypeOK, ControlInv
<1>2. /\ access' = [enabled |-> enabled, state |-> state]
      /\ decided' = IF c.crossed THEN enabled ELSE c.action = "ENABLE"
      /\ controls' = others
      /\ UNCHANGED <<dataVars, ingestions, work, worked>>
  BY DEF CommitControl
<1>3. /\ c.loaded \in Access /\ c.action \in Actions /\ c.crossed \in BOOLEAN
      /\ c.loaded.enabled \in BOOLEAN /\ access.enabled \in BOOLEAN
      /\ c.loaded.state \in States /\ access.state \in States
  BY <1>1 DEF Control, Access
<1> HIDE DEF c
<1>4. enabled \in BOOLEAN /\ state \in States
  <2>1. ControlledState(c.action) \in States
    BY <1>3 DEF ControlledState, Actions, States
  <2>2. (c.action = "ENABLE") \in BOOLEAN
    OBVIOUS
  <2> QED
    BY <1>3, <2>1, <2>2 DEF ColumnWritten
<1>5. ~c.crossed => enabled = (c.action = "ENABLE")
  <2> SUFFICES ASSUME ~c.crossed PROVE enabled = (c.action = "ENABLE")
    OBVIOUS
  <2>1. c.loaded.enabled = access.enabled
    BY <1>1
  <2>2. CASE (c.action = "ENABLE") = c.loaded.enabled
    BY <2>1, <2>2 DEF ColumnWritten
  <2>3. CASE (c.action = "ENABLE") # c.loaded.enabled
    BY <2>3 DEF ColumnWritten
  <2> QED
    BY <2>2, <2>3
<1> HIDE DEF enabled, state
<1>6. access' \in Access /\ access'.enabled = enabled
  BY <1>2, <1>4 DEF Access
<1>7. decided' = enabled /\ decided' \in BOOLEAN
  <2>1. CASE c.crossed
    BY <1>2, <1>4, <2>1
  <2>2. CASE ~c.crossed
    BY <1>2, <1>4, <1>5, <2>2
  <2> QED
    BY <2>1, <2>2
<1>8. AccessAsDecided'
  BY <1>6, <1>7 DEF AccessAsDecided
<1>9. ASSUME NEW b \in Administrators
      PROVE  others[b] = None \/ (others[b] \in Control /\ others[b].crossed)
  BY <1>1 DEF Control
<1>10. controls' \in [Administrators -> Control \cup {None}] /\ ControlInv'
  <2> HIDE DEF others
  <2>1. others = [b \in Administrators |-> others[b]]
    BY DEF others
  <2> QED
    BY <1>2, <1>9, <2>1 DEF ControlInv
<1> QED
  BY <1>1, <1>2, <1>6, <1>7, <1>8, <1>10, ControlStep

LEMMA ProviderStuttering ==
    ASSUME ProviderIInv, UNCHANGED providerVars
    PROVE  ProviderIInv'
BY DEF ProviderIInv, providerVars, connectionVars, dataVars, ProviderTypeOK, WorkInv, OfSession,
       SoleWorker, Alone, ReceivedStored, AccessAsDecided, ControlInv, VersionsInOrder

LEMMA ProviderStep == ProviderIInv /\ [ProviderNext]_providerVars => ProviderIInv'
<1> SUFFICES ASSUME ProviderIInv, [ProviderNext]_providerVars PROVE ProviderIInv'
  OBVIOUS
<1>1. ASSUME NEW s \in Sessions,
             \/ BeginImport(s) \/ BeginTest(s) \/ LoadConnection(s) \/ ReadStored(s)
             \/ CommitWork(s) \/ EndJob(s) \/ AbortWork(s)
      PROVE  ProviderIInv'
  BY <1>1, ByBeginAtOnce, ByLoadConnection, ByReadStored, ByCommitWork, ByEndJob, ByAbortWork
<1>2. ASSUME NEW s \in Sessions,
             \/ \E j \in Jobs : ClaimProbe(s, j) \/ \E series \in 1 .. 2 : BeginRefresh(s, j, series)
             \/ \E reply \in Replies : Reply(s, reply)
      PROVE  ProviderIInv'
  BY <1>2, ByClaimProbe, ByBeginRefresh, ByReply
<1>3. CASE UNCHANGED providerVars
  BY <1>3, ProviderStuttering
<1> QED
  BY <1>1, <1>2, <1>3, ByEnqueue, ByBeginControl, ByCommitControl DEF ProviderNext

-----------------------------------------------------------------------------
LEMMA ProviderInvariant == ProviderSpec => []ProviderIInv
BY ProviderInitially, ProviderStep, PTL DEF ProviderSpec

LEMMA ProviderInvariantImplies == ProviderIInv => ProvidersAreSound
<1> SUFFICES ASSUME ProviderIInv PROVE ProvidersAreSound
  OBVIOUS
<1>1. AccessAsDecided /\ VersionsInOrder
  BY DEF ProviderIInv
<1>2. SuccessIsStored
  BY DEF ProviderIInv, ReceivedStored, SuccessIsStored
<1>3. OneSessionPerJob
  BY DEF ProviderIInv, SoleWorker, Alone, WorkInv, OfSession, OneSessionPerJob
<1> QED
  BY <1>1, <1>2, <1>3 DEF ProvidersAreSound

(***************************************************************************)
(* Whatever sessions interleave, fail or commit late, the tables of a      *)
(* provider and the work of its sessions hold what they may hold           *)
(* (provider_data.py, queue_worker.py).                                    *)
(***************************************************************************)
THEOREM ProviderTypeCorrect == ProviderSpec => []ProviderTypeOK
<1>1. ProviderIInv => ProviderTypeOK
  BY DEF ProviderIInv
<1> QED
  BY <1>1, ProviderInvariant, PTL

(***************************************************************************)
(* A late commit does not switch a provider on, versions are numbered in   *)
(* the order of their commits, a success is stored, and a job has one      *)
(* session (provider_data.py 178-181 and 258-265, main.py 681-699).        *)
(***************************************************************************)
THEOREM ProvidersSound == ProviderSpec => []ProvidersAreSound
BY ProviderInvariant, ProviderInvariantImplies, PTL

-----------------------------------------------------------------------------
(***************************************************************************)
(* BrokerFeed                                                              *)
(***************************************************************************)
CodeInv ==
    /\ \A r \in Readers : paired[r] # None =>
          codes[paired[r].code] # None /\ codes[paired[r].code].claimed
    /\ \A r \in Readers : claims[r] # None => codes[claims[r].code] # None

NearArrival(s) == s.as_of - s.received <= Window

StampInv ==
    /\ \A r \in Readers : posts[r] # None => paired[r] # None /\ NearArrival(posts[r])
    /\ \A s \in snapshots : NearArrival(s)

BrokerIInv ==
    /\ BrokerTypeOK
    /\ CodeInv
    /\ StampInv
    /\ PairedOnce
    /\ FillPostedOnce

-----------------------------------------------------------------------------
LEMMA BrokerInitially == BrokerInit => BrokerIInv
<1> SUFFICES ASSUME BrokerInit PROVE BrokerIInv
  OBVIOUS
<1>1. BrokerTypeOK
  BY DEF BrokerInit, BrokerTypeOK
<1>2. CodeInv /\ StampInv /\ PairedOnce /\ FillPostedOnce
  BY DEF BrokerInit, CodeInv, StampInv, PairedOnce, FillPostedOnce
<1> QED
  BY <1>1, <1>2 DEF BrokerIInv

(***************************************************************************)
(* Pairing.                                                                *)
(***************************************************************************)
LEMMA ByPair ==
    ASSUME BrokerIInv, NEW c \in Codes, Pair(c)
    PROVE  BrokerIInv'
<1> PICK pairing : pairing = [expires |-> clock + Validity, claimed |-> FALSE]
  OBVIOUS
<1>1. /\ UNCHANGED <<clock, claims, paired, posts, snapshots, approvals, approved, posted_fills>>
      /\ codes[c] = None
      /\ codes' = [codes EXCEPT ![c] = pairing]
      /\ codes \in [Codes -> Pairing \cup {None}] /\ clock \in Nat
  BY DEF BrokerIInv, BrokerTypeOK, Pair, feed, imports
<1>2. pairing \in Pairing /\ pairing # None
  <2>1. clock + Validity \in Nat
    BY <1>1, BrokerAssumption
  <2>2. pairing \in Pairing
    BY <2>1 DEF Pairing
  <2> QED
    BY <2>2, BrokerAssumption
<1>3. /\ codes' \in [Codes -> Pairing \cup {None}]
      /\ codes'[c] = pairing /\ \A d \in Codes : d # c => codes'[d] = codes[d]
  BY <1>1, <1>2
<1>4. BrokerTypeOK'
  BY <1>1, <1>3 DEF BrokerIInv, BrokerTypeOK
<1>5. CodeInv'
  <2>1. \A r \in Readers : /\ paired[r] # None => paired[r].code \in Codes
                           /\ claims[r] # None => claims[r].code \in Codes
    BY DEF BrokerIInv, BrokerTypeOK, Agent, PairingClaim
  <2> QED
    BY <1>1, <1>2, <1>3, <2>1 DEF BrokerIInv, CodeInv
<1>6. StampInv' /\ PairedOnce' /\ FillPostedOnce'
  BY <1>1 DEF BrokerIInv, StampInv, PairedOnce, FillPostedOnce
<1> QED
  BY <1>4, <1>5, <1>6 DEF BrokerIInv

LEMMA ByClaimRead ==
    ASSUME BrokerIInv, NEW r \in Readers, NEW c \in Codes, ClaimRead(r, c)
    PROVE  BrokerIInv'
<1> PICK claim : claim = [code |-> c, now |-> clock]
  OBVIOUS
<1>1. /\ UNCHANGED <<clock, codes, paired, posts, snapshots, approvals, approved, posted_fills>>
      /\ codes[c] # None
      /\ claims' = [claims EXCEPT ![r] = claim]
      /\ claims \in [Readers -> PairingClaim \cup {None}] /\ clock \in Nat
  BY DEF BrokerIInv, BrokerTypeOK, ClaimRead, feed, imports
<1>2. claim \in PairingClaim /\ claim.code = c
  BY <1>1 DEF PairingClaim
<1>3. /\ claims' \in [Readers -> PairingClaim \cup {None}]
      /\ claims'[r] = claim /\ \A q \in Readers : q # r => claims'[q] = claims[q]
  BY <1>1, <1>2
<1>4. BrokerTypeOK'
  BY <1>1, <1>3 DEF BrokerIInv, BrokerTypeOK
<1>5. CodeInv'
  BY <1>1, <1>2, <1>3 DEF BrokerIInv, CodeInv
<1>6. StampInv' /\ PairedOnce' /\ FillPostedOnce'
  BY <1>1 DEF BrokerIInv, StampInv, PairedOnce, FillPostedOnce
<1> QED
  BY <1>4, <1>5, <1>6 DEF BrokerIInv

LEMMA ByClaimCommit ==
    ASSUME BrokerIInv, NEW r \in Readers, ClaimCommit(r)
    PROVE  BrokerIInv'
<1>1. /\ UNCHANGED <<clock, posts, snapshots, approvals, approved, posted_fills>>
      /\ claims[r] # None /\ claims' = [claims EXCEPT ![r] = None]
      /\ claims \in [Readers -> PairingClaim \cup {None}]
      /\ codes \in [Codes -> Pairing \cup {None}]
      /\ paired \in [Readers -> Agent \cup {None}]
  BY DEF BrokerIInv, BrokerTypeOK, ClaimCommit, feed, imports
<1>2. /\ claims' \in [Readers -> PairingClaim \cup {None}] /\ claims'[r] = None
      /\ \A q \in Readers : q # r => claims'[q] = claims[q]
  BY <1>1
<1>3. CASE ~ClaimUpdates(claims[r])
  <2>1. UNCHANGED <<codes, paired>>
    BY <1>3 DEF ClaimCommit
  <2>2. BrokerTypeOK'
    BY <1>1, <1>2, <2>1 DEF BrokerIInv, BrokerTypeOK
  <2>3. CodeInv' /\ StampInv' /\ PairedOnce' /\ FillPostedOnce'
    BY <1>1, <1>2, <2>1 DEF BrokerIInv, CodeInv, StampInv, PairedOnce, FillPostedOnce
  <2> QED
    BY <2>2, <2>3 DEF BrokerIInv
<1>4. CASE ClaimUpdates(claims[r])
  <2>0. PICK c, pairing, reader :
           /\ c = claims[r].code
           /\ pairing = [codes[c] EXCEPT !.claimed = TRUE]
           /\ reader = [code |-> claims[r].code, revoked |-> FALSE, seen |-> None]
    OBVIOUS
  <2>1. c \in Codes /\ codes[c] \in Pairing /\ ~codes[c].claimed
    BY <1>1, <1>4, <2>0 DEF BrokerIInv, CodeInv, PairingClaim, ClaimUpdates
  <2>2. pairing \in Pairing /\ pairing # None /\ pairing.claimed
    BY <2>0, <2>1, BrokerAssumption DEF Pairing
  <2>3. reader \in Agent /\ reader # None /\ reader.code = c
    <3>1. reader \in Agent /\ reader.code = c
      BY <2>0, <2>1 DEF Agent
    <3> QED
      BY <3>1, BrokerAssumption
  <2>4. codes' = [codes EXCEPT ![c] = pairing] /\ paired' = [paired EXCEPT ![r] = reader]
    BY <1>4, <2>0 DEF ClaimCommit
  <2>5. /\ codes' \in [Codes -> Pairing \cup {None}] /\ codes'[c] = pairing
        /\ \A d \in Codes : d # c => codes'[d] = codes[d]
    BY <1>1, <2>1, <2>2, <2>4
  <2>6. /\ paired' \in [Readers -> Agent \cup {None}] /\ paired'[r] = reader
        /\ \A q \in Readers : q # r => paired'[q] = paired[q]
    BY <1>1, <2>3, <2>4
  <2>7. \A q \in Readers : paired[q] # None => paired[q].code \in Codes /\ paired[q].code # c
    BY <1>1, <2>1 DEF BrokerIInv, CodeInv, Agent
  <2>8. \A q \in Readers : claims[q] # None => claims[q].code \in Codes
    BY <1>1 DEF PairingClaim
  <2>9. BrokerTypeOK'
    BY <1>1, <1>2, <2>5, <2>6 DEF BrokerIInv, BrokerTypeOK
  <2>10. CodeInv'
    BY <1>2, <2>1, <2>2, <2>3, <2>5, <2>6, <2>7, <2>8 DEF BrokerIInv, CodeInv
  <2>11. StampInv'
    BY <1>1, <2>3, <2>6 DEF BrokerIInv, StampInv, NearArrival
  <2>12. PairedOnce'
    BY <2>3, <2>6, <2>7 DEF BrokerIInv, PairedOnce
  <2>13. FillPostedOnce'
    BY <1>1 DEF BrokerIInv, FillPostedOnce
  <2> QED
    BY <2>9, <2>10, <2>11, <2>12, <2>13 DEF BrokerIInv
<1> QED
  BY <1>3, <1>4

(***************************************************************************)
(* An agent stays the one its code made when its row is written again.     *)
(***************************************************************************)
LEMMA AgentWritten ==
    ASSUME BrokerIInv, NEW r \in Readers, NEW reader \in Agent, paired[r] # None,
           reader.code = paired[r].code,
           paired' = [paired EXCEPT ![r] = reader],
           UNCHANGED <<clock, codes, claims, approvals, approved, posted_fills>>
    PROVE  /\ paired' \in [Readers -> Agent \cup {None}]
           /\ \A q \in Readers : paired[q] # None => paired'[q] # None
           /\ CodeInv' /\ PairedOnce' /\ FillPostedOnce'
<1>1. paired \in [Readers -> Agent \cup {None}] /\ reader # None
  BY BrokerAssumption DEF BrokerIInv, BrokerTypeOK
<1>2. /\ paired' \in [Readers -> Agent \cup {None}] /\ paired'[r] = reader
      /\ \A q \in Readers : q # r => paired'[q] = paired[q]
  BY <1>1
<1>3. CodeInv'
  BY <1>1, <1>2 DEF BrokerIInv, CodeInv
<1>4. PairedOnce' /\ FillPostedOnce'
  BY <1>1, <1>2 DEF BrokerIInv, PairedOnce, FillPostedOnce
<1> QED
  BY <1>1, <1>2, <1>3, <1>4

LEMMA ByRevoke ==
    ASSUME BrokerIInv, NEW r \in Readers, Revoke(r)
    PROVE  BrokerIInv'
<1> PICK reader : reader = [paired[r] EXCEPT !.revoked = TRUE]
  OBVIOUS
<1>1. /\ UNCHANGED <<clock, codes, claims, posts, snapshots, approvals, approved, posted_fills>>
      /\ paired[r] # None /\ paired[r] \in Agent
      /\ paired' = [paired EXCEPT ![r] = reader]
  BY DEF BrokerIInv, BrokerTypeOK, Revoke, feed, imports
<1>2. reader \in Agent /\ reader.code = paired[r].code
  BY <1>1 DEF Agent
<1>3. /\ paired' \in [Readers -> Agent \cup {None}]
      /\ \A q \in Readers : paired[q] # None => paired'[q] # None
      /\ CodeInv' /\ PairedOnce' /\ FillPostedOnce'
  BY <1>1, <1>2, AgentWritten
<1>4. BrokerTypeOK' /\ StampInv'
  BY <1>1, <1>3 DEF BrokerIInv, BrokerTypeOK, StampInv, NearArrival
<1> QED
  BY <1>3, <1>4 DEF BrokerIInv

LEMMA ByHeartbeat ==
    ASSUME BrokerIInv, NEW r \in Readers, Heartbeat(r)
    PROVE  BrokerIInv'
<1> PICK reader : reader = [paired[r] EXCEPT !.seen = clock]
  OBVIOUS
<1>1. /\ UNCHANGED <<clock, codes, claims, posts, snapshots, approvals, approved, posted_fills>>
      /\ paired[r] # None /\ paired[r] \in Agent /\ clock \in Nat
      /\ paired' = [paired EXCEPT ![r] = reader]
  BY DEF BrokerIInv, BrokerTypeOK, Heartbeat, Authenticated, feed, imports
<1>2. reader \in Agent /\ reader.code = paired[r].code
  BY <1>1 DEF Agent
<1>3. /\ paired' \in [Readers -> Agent \cup {None}]
      /\ \A q \in Readers : paired[q] # None => paired'[q] # None
      /\ CodeInv' /\ PairedOnce' /\ FillPostedOnce'
  BY <1>1, <1>2, AgentWritten
<1>4. BrokerTypeOK' /\ StampInv'
  BY <1>1, <1>3 DEF BrokerIInv, BrokerTypeOK, StampInv, NearArrival
<1> QED
  BY <1>3, <1>4 DEF BrokerIInv

(***************************************************************************)
(* Snapshots.                                                              *)
(***************************************************************************)
LEMMA ByReceive ==
    ASSUME BrokerIInv, NEW r \in Readers, NEW as_of \in Int, NEW fills \in Fills,
           Receive(r, as_of, fills)
    PROVE  BrokerIInv'
<1> PICK post : post = [reader |-> r, as_of |-> as_of, received |-> clock, fills |-> fills]
  OBVIOUS
<1>1. /\ UNCHANGED <<clock, codes, claims, paired, snapshots, approvals, approved, posted_fills>>
      /\ paired[r] # None /\ as_of - clock <= Window
      /\ clock \in Nat /\ posts \in [Readers -> Snapshot \cup {None}]
      /\ posts' = [posts EXCEPT ![r] = post]
  BY DEF BrokerIInv, BrokerTypeOK, Receive, Authenticated, WithinWindow, imports
<1>2. post \in Snapshot /\ NearArrival(post)
  BY <1>1 DEF Snapshot, NearArrival
<1>3. /\ posts' \in [Readers -> Snapshot \cup {None}] /\ posts'[r] = post
      /\ \A q \in Readers : q # r => posts'[q] = posts[q]
  BY <1>1, <1>2
<1>4. BrokerTypeOK'
  BY <1>1, <1>3 DEF BrokerIInv, BrokerTypeOK
<1>5. StampInv'
  BY <1>1, <1>2, <1>3 DEF BrokerIInv, StampInv, NearArrival
<1>6. CodeInv' /\ PairedOnce' /\ FillPostedOnce'
  BY <1>1 DEF BrokerIInv, CodeInv, PairedOnce, FillPostedOnce
<1> QED
  BY <1>4, <1>5, <1>6 DEF BrokerIInv

LEMMA ByStore ==
    ASSUME BrokerIInv, NEW r \in Readers, Store(r)
    PROVE  BrokerIInv'
<1>1. /\ UNCHANGED <<clock, codes, claims, approvals, approved, posted_fills>>
      /\ posts[r] # None /\ posts[r] \in Snapshot /\ NearArrival(posts[r])
      /\ paired[r] # None /\ paired[r] \in Agent
      /\ posts' = [posts EXCEPT ![r] = None]
      /\ posts \in [Readers -> Snapshot \cup {None}]
  BY DEF BrokerIInv, BrokerTypeOK, StampInv, Store, imports
<1>2. /\ posts' \in [Readers -> Snapshot \cup {None}] /\ posts'[r] = None
      /\ \A q \in Readers : q # r => posts'[q] = posts[q]
  BY <1>1
<1>3. CASE /\ snapshots' = snapshots \cup {posts[r]}
           /\ paired' = [paired EXCEPT ![r].seen = posts[r].received]
  <2>0. PICK reader : reader = [paired[r] EXCEPT !.seen = posts[r].received]
    OBVIOUS
  <2>1. reader \in Agent /\ reader.code = paired[r].code
    BY <1>1, <2>0 DEF Agent, Snapshot
  <2>2. paired' = [paired EXCEPT ![r] = reader]
    BY <1>3, <2>0
  <2>3. /\ paired' \in [Readers -> Agent \cup {None}]
        /\ \A q \in Readers : paired[q] # None => paired'[q] # None
        /\ CodeInv' /\ PairedOnce' /\ FillPostedOnce'
    BY <1>1, <2>1, <2>2, AgentWritten
  <2>4. BrokerTypeOK'
    BY <1>1, <1>2, <1>3, <2>3 DEF BrokerIInv, BrokerTypeOK
  <2>5. StampInv'
    BY <1>1, <1>2, <1>3, <2>3 DEF BrokerIInv, StampInv, NearArrival
  <2> QED
    BY <2>3, <2>4, <2>5 DEF BrokerIInv
<1>4. CASE UNCHANGED <<snapshots, paired>>
  <2>1. BrokerTypeOK' /\ StampInv'
    BY <1>1, <1>2, <1>4 DEF BrokerIInv, BrokerTypeOK, StampInv, NearArrival
  <2>2. CodeInv' /\ PairedOnce' /\ FillPostedOnce'
    BY <1>1, <1>4 DEF BrokerIInv, CodeInv, PairedOnce, FillPostedOnce
  <2> QED
    BY <2>1, <2>2 DEF BrokerIInv
<1> QED
  BY <1>3, <1>4 DEF Store

(***************************************************************************)
(* Approvals and time.                                                     *)
(***************************************************************************)
LEMMA ByApproveFill ==
    ASSUME BrokerIInv, NEW s \in snapshots, NEW fill \in Executions, ApproveFill(s, fill)
    PROVE  BrokerIInv'
<1>1. /\ UNCHANGED <<clock, codes, claims, paired, posts, snapshots, posted_fills>>
      /\ approvals' = approvals \cup {[snapshot |-> s, fill |-> fill]}
      /\ approved' = approved + 1
  BY DEF ApproveFill, feed
<1>2. [snapshot |-> s, fill |-> fill] \in Approval
  BY DEF BrokerIInv, BrokerTypeOK, Approval
<1>3. BrokerTypeOK'
  BY <1>1, <1>2 DEF BrokerIInv, BrokerTypeOK
<1>4. CodeInv' /\ StampInv' /\ PairedOnce' /\ FillPostedOnce'
  BY <1>1 DEF BrokerIInv, CodeInv, StampInv, PairedOnce, FillPostedOnce, NearArrival
<1> QED
  BY <1>3, <1>4 DEF BrokerIInv

LEMMA ByPostFill ==
    ASSUME BrokerIInv, NEW a \in approvals, PostFill(a)
    PROVE  BrokerIInv'
<1>1. /\ UNCHANGED <<clock, codes, claims, paired, approved, posts, snapshots>>
      /\ approvals' \subseteq approvals
      /\ posted_fills' = posted_fills
            \/ (posted_fills' = posted_fills \cup {a} /\ ~PostedBefore(a))
  BY DEF PostFill, feed
<1>2. BrokerTypeOK'
  BY <1>1 DEF BrokerIInv, BrokerTypeOK
<1>3. FillPostedOnce'
  BY <1>1 DEF BrokerIInv, FillPostedOnce, PostedBefore, FillReference
<1>4. CodeInv' /\ StampInv' /\ PairedOnce'
  BY <1>1 DEF BrokerIInv, CodeInv, StampInv, PairedOnce, NearArrival
<1> QED
  BY <1>2, <1>3, <1>4 DEF BrokerIInv

LEMMA ByTick ==
    ASSUME BrokerIInv, Tick
    PROVE  BrokerIInv'
<1>1. /\ UNCHANGED <<codes, claims, paired, posts, snapshots, approvals, approved, posted_fills>>
      /\ clock' = clock + 1
  BY DEF Tick, feed, imports
<1>2. BrokerTypeOK'
  BY <1>1 DEF BrokerIInv, BrokerTypeOK
<1>3. CodeInv' /\ StampInv' /\ PairedOnce' /\ FillPostedOnce'
  BY <1>1 DEF BrokerIInv, CodeInv, StampInv, PairedOnce, FillPostedOnce, NearArrival
<1> QED
  BY <1>2, <1>3 DEF BrokerIInv

LEMMA BrokerStuttering ==
    ASSUME BrokerIInv, UNCHANGED brokerVars
    PROVE  BrokerIInv'
BY DEF BrokerIInv, brokerVars, BrokerTypeOK, CodeInv, StampInv, NearArrival, PairedOnce, FillPostedOnce

LEMMA BrokerStep == BrokerIInv /\ [BrokerNext]_brokerVars => BrokerIInv'
<1> SUFFICES ASSUME BrokerIInv, [BrokerNext]_brokerVars PROVE BrokerIInv'
  OBVIOUS
<1>1. CASE UNCHANGED brokerVars
  BY <1>1, BrokerStuttering
<1>2. ASSUME NEW r \in Readers, NEW as_of \in -Window .. MaxClock + Window, NEW fills \in Fills,
             Receive(r, as_of, fills)
      PROVE  BrokerIInv'
  <2>1. as_of \in Int
    BY BrokerAssumption
  <2> QED
    BY <1>2, <2>1, ByReceive
<1> QED
  BY <1>1, <1>2, ByPair, ByClaimRead, ByClaimCommit, ByRevoke, ByStore, ByHeartbeat,
     ByApproveFill, ByPostFill, ByTick
     DEF BrokerNext

-----------------------------------------------------------------------------
LEMMA BrokerInvariant == BrokerSpec => []BrokerIInv
BY BrokerInitially, BrokerStep, PTL DEF BrokerSpec

LEMMA BrokerInvariantImplies == BrokerIInv => FeedIsSound
<1> SUFFICES ASSUME BrokerIInv PROVE FeedIsSound
  OBVIOUS
<1>1. PairedOnce /\ FillPostedOnce
  BY DEF BrokerIInv
<1>2. ConnectedIsRecent
  <2> SUFFICES ASSUME NEW s \in snapshots, AccountView(s) = "BROKER"
               PROVE  clock - s.received < Window + Fresh /\ ~paired[s.reader].revoked
    BY DEF ConnectedIsRecent
  <2>1. Active(s)
    BY DEF AccountView
  <2>2. /\ s.as_of - s.received <= Window
        /\ s.as_of \in Int /\ s.received \in Nat /\ clock \in Nat
    BY DEF BrokerIInv, StampInv, NearArrival, BrokerTypeOK, Snapshot
  <2> QED
    BY <2>1, <2>2, BrokerAssumption DEF Active
<1> QED
  BY <1>1, <1>2 DEF FeedIsSound

(***************************************************************************)
(* Codes, claims, agents, snapshots and approvals hold what they may hold  *)
(* (broker_api.py, data_drop_api.py).                                      *)
(***************************************************************************)
THEOREM BrokerTypeCorrect == BrokerSpec => []BrokerTypeOK
<1>1. BrokerIInv => BrokerTypeOK
  BY DEF BrokerIInv
<1> QED
  BY <1>1, BrokerInvariant, PTL

(***************************************************************************)
(* One agent per code, one posting per execution, and no account shown as  *)
(* connected that is older than both tolerances or whose agent is revoked  *)
(* (data_drop_api.py 285-296, broker_api.py 238-257 and 330).              *)
(***************************************************************************)
THEOREM FeedSound == BrokerSpec => []FeedIsSound
BY BrokerInvariant, BrokerInvariantImplies, PTL

-----------------------------------------------------------------------------
(***************************************************************************)
(* The services side by side.                                              *)
(***************************************************************************)
\* A step of one service is a step of it and of no other, so a behaviour of all of them is a
\* behaviour of each.
LEMMA EachServiceAsSpecified ==
    ServicesSpec =>
        /\ AgentSpec
        /\ BackupSpec
        /\ AccountingSpec
        /\ BalanceSpec
        /\ RiskSpec
        /\ BrokerSpec
        /\ ProviderSpec
        /\ CacheSpec
        /\ PriceSpec
        /\ WorkspaceSpec
<1>1. ServicesInit =>
        /\ AgentInit /\ BackupInit /\ BalanceInit /\ RiskInit /\ BrokerInit /\ ProviderInit
        /\ AccountingInit /\ CacheInit /\ PriceInit /\ WorkspaceInit
  BY DEF ServicesInit
<1>2. [ServicesNext]_allVars =>
        /\ [AgentNext]_agentVars
        /\ [BackupNext]_backupVars
        /\ [AccountingNext]_accountingVars
        /\ [BalanceNext]_balanceVars
        /\ [RiskNext]_riskVars
        /\ [BrokerNext]_brokerVars
        /\ [ProviderNext]_providerVars
        /\ [CacheNext]_cacheVars
        /\ [PriceNext]_priceVars
        /\ [WorkspaceNext]_workspaceVars
  BY DEF ServicesNext, allVars, AgentWorks, BackupWorks, AccountingWorks, BalanceWorks, RiskWorks,
         BrokerWorks, ProviderWorks, CacheWorks, PriceWorks, WorkspaceWorks
<1> QED
  BY <1>1, <1>2, PTL DEF ServicesSpec, AgentSpec, BackupSpec, AccountingSpec, BalanceSpec, RiskSpec,
         BrokerSpec, ProviderSpec, CacheSpec, PriceSpec, WorkspaceSpec

ServiceNamed == service \in ServiceNames

LEMMA AlwaysNamed == ServicesSpec => []ServiceNamed
<1>1. ServicesInit => ServiceNamed
  BY DEF ServicesInit, ServiceNamed
<1>2. ServiceNamed /\ [ServicesNext]_allVars => ServiceNamed'
  BY DEF ServiceNamed, ServicesNext, allVars, AgentWorks, BackupWorks, AccountingWorks, BalanceWorks, RiskWorks,
         BrokerWorks, ProviderWorks, CacheWorks, PriceWorks, WorkspaceWorks
<1> QED
  BY <1>1, <1>2, PTL DEF ServicesSpec

(***************************************************************************)
(* Whichever service is at work, its tables, files, locks and sessions     *)
(* have their shape: agent.py, managed_backup.py, portfolio_domain,        *)
(* portfolio_balances.py, risk_limits.py, broker_api.py, provider_data.py, *)
(* portfolio_valuation.py, price_sources.py, shell.tsx.                    *)
(***************************************************************************)
THEOREM ServicesTypeCorrect == ServicesSpec => []ServicesTypeOK
<1>1. /\ ServiceNamed
      /\ AgentTypeOK /\ BackupTypeOK /\ AccountingTypeOK /\ BalanceTypeOK /\ RiskTypeOK
      /\ BrokerTypeOK /\ ProviderTypeOK /\ CacheTypeOK /\ PriceTypeOK /\ WorkspaceTypeOK
      => ServicesTypeOK
  BY DEF ServicesTypeOK, ServiceNamed, ServiceNames
<1> QED
  BY <1>1, EachServiceAsSpecified, AlwaysNamed, AgentTyped, BackupTypeCorrect,
     AccountingTypeCorrect, BalanceTypeCorrect, RiskTypeCorrect, BrokerTypeCorrect,
     ProviderTypeCorrect, CacheTypeCorrect, PriceTypeCorrect, WorkspaceTypeCorrect, PTL

(***************************************************************************)
(* What each service promises, it keeps beside the others: files arrive,   *)
(* backups are true, the books agree, no account is overdrawn, alerts      *)
(* follow breaches, and what is read of brokers, providers, caches, prices *)
(* and layouts is what it claims to be (agent.py, managed_backup.py,       *)
(* portfolio_domain, portfolio_balances.py, risk_limits.py, broker_api.py, *)
(* provider_data.py, portfolio_valuation.py, price_sources.py, shell.tsx). *)
(***************************************************************************)
THEOREM PromisesKept ==
    ServicesSpec =>
        /\ [](FilesKept /\ ArchivedIsSettled) /\ JournalHolds
        /\ []BackupsAreTrue
        /\ []BooksAgree
        /\ []NeverOverdrawn
        /\ []AlertsFollowBreaches /\ MissingNeverClears
        /\ []FeedIsSound
        /\ []ProvidersAreSound
        /\ [](ServedIsCurrent /\ PricesAreSound /\ LayoutsStayHome)
<1>1. ServicesSpec => [](FilesKept /\ ArchivedIsSettled) /\ JournalHolds /\ []BackupsAreTrue
  BY EachServiceAsSpecified, NoFileLost, ArchivedFilesSettled, JournalStands, BackupsTruthful, PTL
<1>2. ServicesSpec => []BooksAgree /\ []NeverOverdrawn
  BY EachServiceAsSpecified, BooksAlwaysAgree, AccountsNeverOverdrawn, PTL
<1>3. ServicesSpec => []AlertsFollowBreaches /\ MissingNeverClears
  BY EachServiceAsSpecified, AlertsFollow, MissingIsUndetermined
<1>4. ServicesSpec => []FeedIsSound /\ []ProvidersAreSound
  BY EachServiceAsSpecified, FeedSound, ProvidersSound
<1>5. ServicesSpec => [](ServedIsCurrent /\ PricesAreSound /\ LayoutsStayHome)
  BY EachServiceAsSpecified, ServedCurrent, PricesSound, LayoutsAtHome, PTL
<1> QED
  BY <1>1, <1>2, <1>3, <1>4, <1>5
=============================================================================
