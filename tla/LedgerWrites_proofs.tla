------------------------ MODULE LedgerWrites_proofs ------------------------
(***************************************************************************)
(* Proofs about LedgerWrites, for any set of transactions and writers, any *)
(* kinds, terms and references and any bound on the versions.              *)
(*                                                                         *)
(* What makes the properties inductive: a posting's row is in created from *)
(* its flush on and nobody else's (SessionInv); references differ among    *)
(* the flushed rows, not only the committed ones (FlushedInv); the row     *)
(* lock has one holder, so that what it checked still holds when it        *)
(* inserts the revision (SessionInv).                                      *)
(*                                                                         *)
(* A session by itself commits what it has replayed: the order of a        *)
(* posting's replay and the order of the next reading differ only in the   *)
(* entries of one day, and with the days apart both are the order of days  *)
(* (LedgerByDay, CandidateByDay).                                          *)
(***************************************************************************)
EXTENDS LedgerWrites, SequenceTheorems, TLAPS

Posting(w) == pc[w] \in {"flushed", "replayed"}
Revising(w) == pc[w] \in {"locked", "revised"}
Flushed(t) == \E i \in DOMAIN created : created[i] = t

FlushedInv ==
    /\ \A i \in DOMAIN created : original[created[i]] # NoTerms
    /\ \A i, j \in DOMAIN created :
           /\ created[i] = created[j] => i = j
           /\ (Reference[created[i]] = Reference[created[j]]
                   /\ Reference[created[i]] # NoReference) => i = j
    /\ \A t \in rows : Flushed(t)

SessionInv ==
    \A w \in Writers :
        /\ pc[w] # "idle" => work[w] \in Request
        /\ Posting(w) => Flushed(work[w].txn) /\ work[w].txn \notin rows
        /\ Revising(w) => work[w].txn \in rows /\ work[w].action # "POST"
        /\ pc[w] = "revised" =>
               ~Void(work[w].txn) /\ work[w].before = Effective(work[w].txn)
        /\ \A v \in Writers :
               (((Posting(v) /\ Posting(w)) \/ (Revising(v) /\ Revising(w)))
                    /\ work[v].txn = work[w].txn) => v = w

RevisionInv ==
    /\ \A t \in Txns \ rows : revisions[t] = <<>>
    /\ \A t \in Txns : \A i \in DOMAIN revisions[t] :
           revisions[t][i].after = NoTerms <=> revisions[t][i].action = "VOID"

IInv == TypeOK /\ FlushedInv /\ SessionInv /\ RevisionInv /\ RevisionChain

-----------------------------------------------------------------------------
LEMMA Initially == Init => IInv
<1> SUFFICES ASSUME Init PROVE IInv
  OBVIOUS
<1>1. TypeOK
  BY LedgerAssumption DEF Init, TypeOK
<1>2. FlushedInv
  BY DEF Init, FlushedInv
<1>3. SessionInv
  BY DEF Init, SessionInv, Posting, Revising
<1>4. RevisionInv /\ RevisionChain
  BY DEF Init, RevisionInv, RevisionChain
<1> QED
  BY <1>1, <1>2, <1>3, <1>4 DEF IInv

\* Where a flushed row stands among the flushed rows.
LEMMA ArrivalIsPlace ==
    ASSUME NEW t \in Txns, Flushed(t)
    PROVE  Arrival(t) \in DOMAIN created /\ created[Arrival(t)] = t
BY DEF Flushed, Arrival

\* A sequence without its element at k.
LEMMA Removed ==
    ASSUME NEW S, NEW s \in Seq(S), NEW k \in 1 .. Len(s)
    PROVE  /\ RemoveAt(s, k) \in Seq(S)
           /\ Len(RemoveAt(s, k)) = Len(s) - 1
           /\ \A i \in 1 .. (Len(s) - 1) :
                  RemoveAt(s, k)[i] = IF i < k THEN s[i] ELSE s[i + 1]
<1> DEFINE front == SubSeq(s, 1, k - 1)
           back == SubSeq(s, k + 1, Len(s))
<1>1. front \in Seq(S) /\ Len(front) = k - 1 /\ \A i \in 1 .. (k - 1) : front[i] = s[i]
  OBVIOUS
<1>2. back \in Seq(S) /\ Len(back) = Len(s) - k
        /\ \A i \in 1 .. (Len(s) - k) : back[i] = s[k + i]
  OBVIOUS
<1> HIDE DEF front, back
<1>3. RemoveAt(s, k) = front \o back
  BY DEF RemoveAt, front, back
<1>4. /\ front \o back \in Seq(S)
      /\ Len(front \o back) = Len(front) + Len(back)
      /\ \A i \in 1 .. Len(front) + Len(back) :
             (front \o back)[i] = IF i <= Len(front) THEN front[i] ELSE back[i - Len(front)]
  BY <1>1, <1>2, ConcatProperties
<1>5. Len(s) \in Nat
  OBVIOUS
<1>6. ASSUME NEW i \in 1 .. (Len(s) - 1)
      PROVE  (front \o back)[i] = IF i < k THEN s[i] ELSE s[i + 1]
  <2>1. CASE i < k
    BY <1>1, <1>2, <1>4, <1>5, <2>1
  <2>2. CASE ~(i < k)
    <3>1. i - (k - 1) \in 1 .. (Len(s) - k) /\ k + (i - (k - 1)) = i + 1
      BY <1>5, <2>2
    <3> QED
      BY <1>1, <1>2, <1>4, <1>5, <2>2, <3>1
  <2> QED
    BY <2>1, <2>2
<1> QED
  BY <1>1, <1>2, <1>3, <1>4, <1>5, <1>6

\* What a row that is rolled back leaves of the flushed rows.
LEMMA RolledBack ==
    ASSUME IInv, NEW t \in Txns, Flushed(t), RollBack(t)
    PROVE  /\ original' \in [Txns -> Terms \cup {NoTerms}]
           /\ created' \in Seq(Txns)
           /\ \A i \in DOMAIN created' : \E j \in DOMAIN created :
                  created'[i] = created[j] /\ created[j] # t
                  /\ j = IF i < Arrival(t) THEN i ELSE i + 1
           /\ \A j \in DOMAIN created : created[j] # t =>
                  \E i \in DOMAIN created' : created'[i] = created[j]
           /\ \A s \in Txns : s # t => original'[s] = original[s]
<1> DEFINE k == Arrival(t)
<1>1. created \in Seq(Txns) /\ k \in 1 .. Len(created) /\ created[k] = t
  BY ArrivalIsPlace DEF IInv, TypeOK
<1>2. created' = RemoveAt(created, k)
  BY DEF RollBack
<1> HIDE DEF k
<1>3. /\ created' \in Seq(Txns)
      /\ Len(created') = Len(created) - 1
      /\ \A i \in 1 .. (Len(created) - 1) :
             created'[i] = IF i < k THEN created[i] ELSE created[i + 1]
  BY <1>1, <1>2, Removed
<1>4. original' \in [Txns -> Terms \cup {NoTerms}]
        /\ \A s \in Txns : s # t => original'[s] = original[s]
  BY DEF RollBack, IInv, TypeOK
<1>5. ASSUME NEW i \in DOMAIN created'
      PROVE  \E j \in DOMAIN created : created'[i] = created[j] /\ created[j] # t
                 /\ j = IF i < k THEN i ELSE i + 1
  <2> DEFINE j == IF i < k THEN i ELSE i + 1
  <2>1. j \in DOMAIN created /\ j # k /\ created'[i] = created[j]
    BY <1>1, <1>3
  <2>2. created[j] # t
    BY <1>1, <2>1 DEF IInv, FlushedInv
  <2> QED
    BY <2>1, <2>2
<1>6. ASSUME NEW j \in DOMAIN created, created[j] # t
      PROVE  \E i \in DOMAIN created' : created'[i] = created[j]
  <2> DEFINE i == IF j < k THEN j ELSE j - 1
  <2>1. j # k /\ j \in 1 .. Len(created) /\ Len(created) \in Nat
    BY <1>1, <1>6
  <2>2. i \in 1 .. (Len(created) - 1)
    BY <1>1, <2>1
  <2>3. created'[i] = created[j]
    BY <1>1, <1>3, <2>1, <2>2
  <2> QED
    BY <1>3, <2>2, <2>3
<1> QED
  BY <1>3, <1>4, <1>5, <1>6 DEF k

\* The effective terms of a committed row that is not void.
LEMMA EffectiveTerms ==
    ASSUME IInv, NEW t \in rows
    PROVE  /\ t \in Txns
           /\ original[t] \in Terms
           /\ Effective(t) \in Terms
           /\ ~Void(t) => Effective(t) = IF revisions[t] = <<>> THEN original[t]
                                         ELSE revisions[t][Len(revisions[t])].after
           /\ Void(t) => revisions[t] # <<>> /\ revisions[t][Len(revisions[t])].action = "VOID"
<1>1. t \in Txns /\ original[t] \in Terms
  BY DEF IInv, TypeOK, FlushedInv, Flushed
<1>2. revisions[t] \in Seq(Revision)
  BY <1>1 DEF IInv, TypeOK
<1>3. CASE revisions[t] = <<>>
  BY <1>1, <1>3 DEF Effective, Void
<1>4. CASE revisions[t] # <<>>
  <2>1. Len(revisions[t]) \in DOMAIN revisions[t] /\ Latest(t) \in Revision
    BY <1>2, <1>4 DEF Latest
  <2>2. Latest(t).after = NoTerms <=> Latest(t).action = "VOID"
    BY <1>1, <2>1 DEF IInv, RevisionInv, Latest
  <2>3. Latest(t).before \in Terms /\ Latest(t).after \in Terms \cup {NoTerms}
    BY <2>1 DEF Revision
  <2> QED
    BY <1>1, <1>4, <2>1, <2>2, <2>3 DEF Effective, Void, Latest
<1> QED
  BY <1>3, <1>4

-----------------------------------------------------------------------------
(***************************************************************************)
(* One session moves, the others stay where they are.                      *)
(***************************************************************************)
Others(w) == Writers \ {w}

LEMMA EnterType ==
    ASSUME TypeOK, NEW w \in Writers,
           NEW phase \in {"idle", "flushed", "replayed", "locked", "revised"},
           NEW request \in Request \cup {NoWork}, Enter(w, phase, request)
    PROVE  /\ pc' \in [Writers -> {"idle", "flushed", "replayed", "locked", "revised"}]
           /\ work' \in [Writers -> Request \cup {NoWork}]
           /\ pc'[w] = phase /\ work'[w] = request
           /\ \A v \in Others(w) : pc'[v] = pc[v] /\ work'[v] = work[v]
BY DEF TypeOK, Enter, Others

\* A session keeps what SessionInv says of it when the rows it relies on are kept.
LEMMA SessionStep ==
    ASSUME SessionInv, NEW w \in Writers,
           \A v \in Others(w) : pc'[v] = pc[v] /\ work'[v] = work[v],
           \A v \in Others(w) : Posting(v) => Flushed(work[v].txn)' /\ work[v].txn \notin rows',
           \A v \in Others(w) : Revising(v) => work[v].txn \in rows',
           \A v \in Others(w) : pc[v] = "revised" =>
               Void(work[v].txn)' = Void(work[v].txn)
               /\ Effective(work[v].txn)' = Effective(work[v].txn),
           pc'[w] # "idle" => work'[w] \in Request,
           Posting(w)' => Flushed(work[w].txn)' /\ work'[w].txn \notin rows',
           Revising(w)' => work'[w].txn \in rows' /\ work'[w].action # "POST",
           pc'[w] = "revised" =>
               ~Void(work[w].txn)' /\ work'[w].before = Effective(work[w].txn)',
           \A v \in Others(w) :
               ((Posting(v) /\ Posting(w)') \/ (Revising(v) /\ Revising(w)'))
                   => work[v].txn # work'[w].txn
    PROVE  SessionInv'
<1>1. \A v \in Others(w) : Posting(v)' = Posting(v) /\ Revising(v)' = Revising(v)
  BY DEF Posting, Revising
<1>2. ASSUME NEW v \in Others(w)
      PROVE  /\ pc'[v] # "idle" => work'[v] \in Request
             /\ Posting(v)' => Flushed(work[v].txn)' /\ work'[v].txn \notin rows'
             /\ Revising(v)' => work'[v].txn \in rows' /\ work'[v].action # "POST"
  BY <1>1 DEF SessionInv, Others
<1>3. ASSUME NEW v \in Others(w), pc'[v] = "revised"
      PROVE  ~Void(work[v].txn)' /\ work'[v].before = Effective(work[v].txn)'
  BY <1>3 DEF SessionInv, Others
<1>4. ASSUME NEW u \in Writers, NEW v \in Writers,
             (Posting(v)' /\ Posting(u)') \/ (Revising(v)' /\ Revising(u)'),
             work'[v].txn = work'[u].txn
      PROVE  v = u
  <2>1. CASE u = w \/ v = w
    BY <1>1, <1>4, <2>1 DEF Others
  <2>2. CASE u # w /\ v # w
    BY <1>1, <1>4, <2>2 DEF SessionInv, Others
  <2> QED
    BY <2>1, <2>2
<1> QED
  BY <1>2, <1>3, <1>4 DEF SessionInv, Others

-----------------------------------------------------------------------------
(***************************************************************************)
(* add                                                                     *)
(***************************************************************************)
LEMMA FlushKeeps ==
    ASSUME IInv, NEW w \in Writers, NEW t \in Txns, NEW terms \in Offers[t], Flush(w, t, terms)
    PROVE  IInv'
<1> DEFINE request == [txn |-> t, action |-> "POST", before |-> NoTerms,
                       after |-> terms, expected |-> 0]
<1>1. terms \in Terms /\ request \in Request
  BY LedgerAssumption DEF Request
<1>2. Enter(w, "flushed", request)
  BY DEF Flush
<1>3. /\ pc' \in [Writers -> {"idle", "flushed", "replayed", "locked", "revised"}]
      /\ work' \in [Writers -> Request \cup {NoWork}]
      /\ pc'[w] = "flushed" /\ work'[w] = request
      /\ \A v \in Others(w) : pc'[v] = pc[v] /\ work'[v] = work[v]
  BY <1>1, <1>2, EnterType DEF IInv
<1>4. /\ created \in Seq(Txns) /\ created' \in Seq(Txns)
      /\ Len(created') = Len(created) + 1
      /\ \A i \in 1 .. Len(created) : created'[i] = created[i]
      /\ created'[Len(created) + 1] = t
  BY DEF Flush, IInv, TypeOK
<1>5. /\ original' \in [Txns -> Terms \cup {NoTerms}]
      /\ original'[t] = terms /\ original[t] = NoTerms /\ terms # NoTerms
      /\ \A s \in Txns : s # t => original'[s] = original[s]
  BY <1>1, LedgerAssumption DEF Flush, IInv, TypeOK
<1>6. \A i \in DOMAIN created : created[i] # t
  BY <1>5 DEF IInv, FlushedInv
<1>7. rows' = rows /\ revisions' = revisions /\ t \notin rows
  BY <1>6 DEF Flush, IInv, FlushedInv, Flushed
<1>8. \A i \in DOMAIN created :
          Reference[t] # NoReference => Reference[created[i]] # Reference[t]
  BY DEF Flush, ReferenceFree
<1>9. TypeOK'
  BY <1>3, <1>4, <1>5, <1>7 DEF IInv, TypeOK
<1>10. FlushedInv'
  <2>1. \A i \in DOMAIN created' : original'[created'[i]] # NoTerms
    BY <1>4, <1>5 DEF IInv, FlushedInv
  <2>2. ASSUME NEW i \in DOMAIN created', NEW j \in DOMAIN created'
        PROVE  /\ created'[i] = created'[j] => i = j
               /\ (Reference[created'[i]] = Reference[created'[j]]
                       /\ Reference[created'[i]] # NoReference) => i = j
    BY <1>4, <1>6, <1>8 DEF IInv, FlushedInv
  <2>3. ASSUME NEW s \in rows'
        PROVE  Flushed(s)'
    BY <1>4, <1>7 DEF IInv, FlushedInv, Flushed
  <2> QED
    BY <2>1, <2>2, <2>3 DEF FlushedInv
<1>11. SessionInv'
  <2>1. \A v \in Others(w) : Posting(v) => Flushed(work[v].txn)' /\ work[v].txn \notin rows'
    BY <1>3, <1>4, <1>7 DEF IInv, SessionInv, Flushed, Others
  <2>2. \A v \in Others(w) : Revising(v) => work[v].txn \in rows'
    BY <1>7 DEF IInv, SessionInv, Others
  <2>3. \A v \in Others(w) : pc[v] = "revised" =>
            Void(work[v].txn)' = Void(work[v].txn)
            /\ Effective(work[v].txn)' = Effective(work[v].txn)
    <3>1. \A v \in Others(w) : pc[v] = "revised" => work[v].txn \in rows
      BY DEF IInv, SessionInv, Others, Revising
    <3>2. \A v \in Others(w) : pc[v] = "revised" =>
              original'[work[v].txn] = original[work[v].txn]
      BY <3>1, <1>5, <1>7 DEF IInv, TypeOK
    <3> QED
      BY <3>2, <1>3, <1>7 DEF Void, Effective, Latest
  <2>4. Posting(w)' => Flushed(work[w].txn)' /\ work'[w].txn \notin rows'
    BY <1>3, <1>4, <1>7 DEF Flushed
  <2>5. pc'[w] = "flushed" /\ work'[w] \in Request
    BY <1>1, <1>3
  <2>6. \A v \in Others(w) : Posting(v) => work[v].txn # t
    BY <1>6 DEF IInv, SessionInv, Flushed, Others
  <2> QED
    BY <1>3, <2>1, <2>2, <2>3, <2>4, <2>5, <2>6, SessionStep DEF IInv, Posting, Revising
<1>12. RevisionInv'
  BY <1>7 DEF IInv, RevisionInv
<1>13. RevisionChain'
  BY <1>5, <1>7 DEF IInv, TypeOK, RevisionChain
<1> QED
  BY <1>9, <1>10, <1>11, <1>12, <1>13 DEF IInv

\* The row of a posting that is rejected, or of a session that is lost.
LEMMA RollBackKeeps ==
    ASSUME IInv, NEW w \in Writers, Posting(w), RollBack(work[w].txn), Return(w),
           UNCHANGED <<rows, revisions>>
    PROVE  IInv'
<1> DEFINE t == work[w].txn
<1>1. t \in Txns /\ Flushed(t) /\ t \notin rows
  BY DEF IInv, SessionInv, Posting, Request
<1>2. /\ pc' \in [Writers -> {"idle", "flushed", "replayed", "locked", "revised"}]
      /\ work' \in [Writers -> Request \cup {NoWork}]
      /\ pc'[w] = "idle"
      /\ \A v \in Others(w) : pc'[v] = pc[v] /\ work'[v] = work[v]
  BY EnterType DEF IInv, Return
<1>3. /\ original' \in [Txns -> Terms \cup {NoTerms}]
      /\ created' \in Seq(Txns)
      /\ \A i \in DOMAIN created' : \E j \in DOMAIN created :
             created'[i] = created[j] /\ created[j] # t
             /\ j = IF i < Arrival(t) THEN i ELSE i + 1
      /\ \A j \in DOMAIN created : created[j] # t =>
             \E i \in DOMAIN created' : created'[i] = created[j]
      /\ \A s \in Txns : s # t => original'[s] = original[s]
  BY <1>1, RolledBack
<1>4. created \in Seq(Txns) /\ Arrival(t) \in DOMAIN created
  BY <1>1, ArrivalIsPlace DEF IInv, TypeOK
<1> HIDE DEF t
<1>5. TypeOK'
  BY <1>2, <1>3 DEF IInv, TypeOK
<1>6. FlushedInv'
  <2>1. ASSUME NEW i \in DOMAIN created'
        PROVE  original'[created'[i]] # NoTerms
    <3>1. PICK j \in DOMAIN created : created'[i] = created[j] /\ created[j] # t
      BY <1>3
    <3>2. created[j] \in Txns /\ original[created[j]] # NoTerms
      BY <1>4 DEF IInv, FlushedInv
    <3> QED
      BY <1>3, <3>1, <3>2
  <2>2. ASSUME NEW i \in DOMAIN created', NEW j \in DOMAIN created'
        PROVE  /\ created'[i] = created'[j] => i = j
               /\ (Reference[created'[i]] = Reference[created'[j]]
                       /\ Reference[created'[i]] # NoReference) => i = j
    <3>1. PICK k \in DOMAIN created :
              created'[i] = created[k] /\ k = IF i < Arrival(t) THEN i ELSE i + 1
      BY <1>3
    <3>2. PICK l \in DOMAIN created :
              created'[j] = created[l] /\ l = IF j < Arrival(t) THEN j ELSE j + 1
      BY <1>3
    <3>3. i \in Nat /\ j \in Nat /\ Arrival(t) \in Nat
      <4>1. created' \in Seq(Txns)
        BY <1>3
      <4> QED
        BY <1>4, <4>1
    <3>4. k = l => i = j
      BY <3>1, <3>2, <3>3
    <3> QED
      BY <3>1, <3>2, <3>4 DEF IInv, FlushedInv
  <2>3. ASSUME NEW s \in rows'
        PROVE  Flushed(s)'
    <3>1. s \in rows /\ s # t
      BY <1>1
    <3>2. PICK j \in DOMAIN created : created[j] = s
      BY <3>1 DEF IInv, FlushedInv, Flushed
    <3> QED
      BY <1>3, <3>1, <3>2 DEF Flushed
  <2> QED
    BY <2>1, <2>2, <2>3 DEF FlushedInv
<1>7. SessionInv'
  <2>1. ASSUME NEW v \in Others(w), Posting(v)
        PROVE  Flushed(work[v].txn)' /\ work[v].txn \notin rows'
    <3>1. work[v].txn # t /\ Flushed(work[v].txn) /\ work[v].txn \notin rows
      BY <2>1 DEF IInv, SessionInv, Others, t
    <3> QED
      BY <1>2, <1>3, <3>1 DEF Flushed
  <2>2. \A v \in Others(w) : Revising(v) => work[v].txn \in rows'
    BY DEF IInv, SessionInv, Others
  <2>3. \A v \in Others(w) : pc[v] = "revised" =>
            Void(work[v].txn)' = Void(work[v].txn)
            /\ Effective(work[v].txn)' = Effective(work[v].txn)
    <3>1. \A v \in Others(w) : pc[v] = "revised" => work[v].txn \in rows
      BY DEF IInv, SessionInv, Others, Revising
    <3>2. \A v \in Others(w) : pc[v] = "revised" =>
              original'[work[v].txn] = original[work[v].txn]
      BY <3>1, <1>1, <1>3 DEF IInv, TypeOK
    <3> QED
      BY <3>2, <1>2 DEF Void, Effective, Latest
  <2> QED
    BY <1>2, <2>1, <2>2, <2>3, SessionStep DEF IInv, Posting, Revising
<1>8. RevisionInv'
  BY DEF IInv, RevisionInv
<1>9. RevisionChain'
  BY <1>1, <1>3 DEF IInv, TypeOK, RevisionChain
<1> QED
  BY <1>5, <1>6, <1>7, <1>8, <1>9 DEF IInv

LEMMA CommitKeeps ==
    ASSUME IInv, NEW w \in Writers, Commit(w)
    PROVE  IInv'
<1> DEFINE t == work[w].txn
<1>1. t \in Txns /\ Flushed(t) /\ t \notin rows /\ Posting(w)
  BY DEF Commit, IInv, SessionInv, Posting, Request
<1>2. /\ pc' \in [Writers -> {"idle", "flushed", "replayed", "locked", "revised"}]
      /\ work' \in [Writers -> Request \cup {NoWork}]
      /\ pc'[w] = "idle"
      /\ \A v \in Others(w) : pc'[v] = pc[v] /\ work'[v] = work[v]
  BY EnterType DEF IInv, Commit, Return
<1>3. rows' = rows \cup {t} /\ UNCHANGED <<original, created, revisions>>
  BY DEF Commit
<1>4. revisions[t] = <<>>
  BY <1>1 DEF IInv, RevisionInv
<1> HIDE DEF t
<1>5. TypeOK'
  BY <1>1, <1>2, <1>3 DEF IInv, TypeOK
<1>6. FlushedInv'
  BY <1>1, <1>3 DEF IInv, FlushedInv, Flushed
<1>7. SessionInv'
  <2>1. ASSUME NEW v \in Others(w), Posting(v)
        PROVE  Flushed(work[v].txn)' /\ work[v].txn \notin rows'
    <3>1. work[v].txn # t /\ Flushed(work[v].txn) /\ work[v].txn \notin rows
      BY <1>1, <2>1 DEF IInv, SessionInv, Others, t
    <3> QED
      BY <1>2, <1>3, <3>1 DEF Flushed
  <2>2. \A v \in Others(w) : Revising(v) => work[v].txn \in rows'
    BY <1>3 DEF IInv, SessionInv, Others
  <2>3. \A v \in Others(w) : pc[v] = "revised" =>
            Void(work[v].txn)' = Void(work[v].txn)
            /\ Effective(work[v].txn)' = Effective(work[v].txn)
    BY <1>2, <1>3 DEF Void, Effective, Latest
  <2> QED
    BY <1>2, <2>1, <2>2, <2>3, SessionStep DEF IInv, Posting, Revising
<1>8. RevisionInv'
  BY <1>3 DEF IInv, RevisionInv
<1>9. RevisionChain'
  BY <1>3, <1>4 DEF IInv, RevisionChain
<1> QED
  BY <1>5, <1>6, <1>7, <1>8, <1>9 DEF IInv

-----------------------------------------------------------------------------
(***************************************************************************)
(* revise                                                                  *)
(***************************************************************************)
\* The steps that move a session and nothing else.
LEMMA SessionOnly ==
    ASSUME IInv, SessionInv', NEW w \in Writers,
           NEW phase \in {"idle", "flushed", "replayed", "locked", "revised"},
           NEW request \in Request \cup {NoWork}, Enter(w, phase, request),
           UNCHANGED <<original, created, rows, revisions>>
    PROVE  IInv'
<1>1. TypeOK'
  BY EnterType DEF IInv, TypeOK
<1>2. FlushedInv'
  BY DEF IInv, FlushedInv, Flushed
<1>3. RevisionInv' /\ RevisionChain'
  BY DEF IInv, RevisionInv, RevisionChain
<1> QED
  BY <1>1, <1>2, <1>3 DEF IInv

\* What is left to show of a session when no row and no revision changes.
LEMMA SessionMoves ==
    ASSUME IInv, NEW w \in Writers,
           NEW phase \in {"idle", "replayed", "locked", "revised"},
           NEW request \in Request \cup {NoWork}, Enter(w, phase, request),
           UNCHANGED <<original, created, rows, revisions>>,
           phase # "idle" => request \in Request,
           phase = "replayed" => Posting(w) /\ request = work[w],
           phase \in {"locked", "revised"} =>
               /\ request.txn \in rows /\ request.action # "POST"
               /\ \A v \in Others(w) : Revising(v) => work[v].txn # request.txn,
           phase = "revised" => ~Void(request.txn) /\ request.before = Effective(request.txn)
    PROVE  IInv'
<1>1. /\ pc'[w] = phase /\ work'[w] = request
      /\ \A v \in Others(w) : pc'[v] = pc[v] /\ work'[v] = work[v]
  BY EnterType DEF IInv
<1>2. \A v \in Others(w) : Posting(v) => Flushed(work[v].txn)' /\ work[v].txn \notin rows'
  BY <1>1 DEF IInv, SessionInv, Others, Flushed
<1>3. \A v \in Others(w) : Revising(v) => work[v].txn \in rows'
  BY DEF IInv, SessionInv, Others
<1>4. \A v \in Others(w) : pc[v] = "revised" =>
          Void(work[v].txn)' = Void(work[v].txn)
          /\ Effective(work[v].txn)' = Effective(work[v].txn)
  BY <1>1 DEF Void, Effective, Latest
<1>5. Posting(w)' => Flushed(work[w].txn)' /\ work'[w].txn \notin rows'
  BY <1>1 DEF IInv, SessionInv, Posting, Flushed
<1>6. Revising(w)' => work'[w].txn \in rows' /\ work'[w].action # "POST"
  BY <1>1 DEF Revising
<1>7. pc'[w] = "revised" => ~Void(work[w].txn)' /\ work'[w].before = Effective(work[w].txn)'
  BY <1>1 DEF Void, Effective, Latest
<1>8. \A v \in Others(w) :
          ((Posting(v) /\ Posting(w)') \/ (Revising(v) /\ Revising(w)'))
              => work[v].txn # work'[w].txn
  BY <1>1 DEF IInv, SessionInv, Posting, Revising, Others
<1>9. SessionInv'
  BY <1>1, <1>2, <1>3, <1>4, <1>5, <1>6, <1>7, <1>8, SessionStep DEF IInv
<1> QED
  BY <1>9, SessionOnly

LEMMA ReplayKeeps ==
    ASSUME IInv, NEW w \in Writers, Replay(w)
    PROVE  IInv'
<1>1. Posting(w) /\ work[w] \in Request
  BY DEF Replay, Posting, IInv, SessionInv
<1>2. CASE Postable(work[w].txn)
  BY <1>1, <1>2, SessionMoves DEF Replay
<1>3. CASE ~Postable(work[w].txn)
  BY <1>1, <1>3, RollBackKeeps DEF Replay
<1> QED
  BY <1>2, <1>3

LEMMA LockKeeps ==
    ASSUME IInv, NEW w \in Writers, NEW t \in rows, NEW action \in {"AMEND", "VOID"},
           NEW terms \in Offers[t], NEW expected \in 1 .. Version(t),
           Lock(w, t, action, terms, expected)
    PROVE  IInv'
<1> DEFINE request == [txn |-> t, action |-> action, before |-> NoTerms,
                       after |-> terms, expected |-> expected]
<1>1. t \in Txns
  BY DEF IInv, TypeOK
<1>2. request \in Request
  BY <1>1, LedgerAssumption DEF Request
<1>3. \A v \in Others(w) : Revising(v) => work[v].txn # t
  BY DEF Lock, Revising, Others
<1> QED
  BY <1>2, <1>3, SessionMoves DEF Lock

LEMMA CheckKeeps ==
    ASSUME IInv, NEW w \in Writers, Check(w)
    PROVE  IInv'
<1> DEFINE r == work[w]
           revised == [r EXCEPT !.before = Before(r)]
<1>1. Revising(w) /\ r \in Request /\ r.txn \in rows /\ r.action # "POST"
  BY DEF Check, Revising, IInv, SessionInv
<1>2. CASE Current(r) /\ Effectual(r) /\ CandidateReplays(r)
  <2>1. Effective(r.txn) \in Terms
    BY <1>1, EffectiveTerms
  <2>2. /\ revised \in Request /\ revised.txn = r.txn /\ revised.action = r.action
        /\ revised.before = Effective(revised.txn)
    BY <1>1, <2>1 DEF Before, Request
  <2>3. ~Void(revised.txn)
    BY <1>2, <2>2 DEF Current
  <2>4. \A v \in Others(w) : Revising(v) => work[v].txn # revised.txn
    BY <1>1, <2>2 DEF IInv, SessionInv, Others
  <2>5. Enter(w, "revised", revised) /\ UNCHANGED <<original, created, rows, revisions>>
    BY <1>2 DEF Check
  <2> HIDE DEF revised
  <2> QED
    BY <1>1, <2>2, <2>3, <2>4, <2>5, SessionMoves
<1>3. CASE ~(Current(r) /\ Effectual(r) /\ CandidateReplays(r))
  BY <1>3, SessionMoves DEF Check, Return
<1> QED
  BY <1>2, <1>3

LEMMA CommitRevisionKeeps ==
    ASSUME IInv, NEW w \in Writers, CommitRevision(w)
    PROVE  IInv'
<1> DEFINE r == work[w]
           t == r.txn
           revision == [action |-> r.action, before |-> r.before,
                        after |-> IF r.action = "VOID" THEN NoTerms ELSE r.after]
<1>1. /\ Revising(w) /\ r \in Request /\ t \in rows /\ t \in Txns /\ r.action # "POST"
      /\ ~Void(t) /\ r.before = Effective(t)
  BY DEF CommitRevision, Revising, IInv, SessionInv, TypeOK
<1>2. revision \in Revision /\ (revision.after = NoTerms <=> revision.action = "VOID")
  <2>1. Effective(t) \in Terms
    BY <1>1, EffectiveTerms
  <2> QED
    BY <1>1, <2>1, LedgerAssumption DEF Revision, Request
<1>3. /\ pc' \in [Writers -> {"idle", "flushed", "replayed", "locked", "revised"}]
      /\ work' \in [Writers -> Request \cup {NoWork}]
      /\ pc'[w] = "idle"
      /\ \A v \in Others(w) : pc'[v] = pc[v] /\ work'[v] = work[v]
  BY EnterType DEF IInv, CommitRevision, Return
<1>4. revisions[t] \in Seq(Revision) /\ revisions \in [Txns -> Seq(Revision)]
  BY <1>1 DEF IInv, TypeOK
<1>5. /\ revisions' = [revisions EXCEPT ![t] = Append(revisions[t], revision)]
      /\ UNCHANGED <<original, created, rows>>
  BY DEF CommitRevision
<1>6. revision.before = IF revisions[t] = <<>> THEN original[t]
                        ELSE revisions[t][Len(revisions[t])].after
  BY <1>1, EffectiveTerms
<1>7. \A i \in DOMAIN revisions[t] : revisions[t][i].action # "VOID"
  <2>1. ASSUME NEW i \in DOMAIN revisions[t], revisions[t][i].action = "VOID"
        PROVE  FALSE
    <3>1. i = Len(revisions[t])
      BY <1>1, <2>1 DEF IInv, RevisionChain
    <3> QED
      BY <1>1, <1>4, <2>1, <3>1 DEF Void, Latest
  <2> QED
    BY <2>1
<1> HIDE DEF revision, t, r
<1>8. /\ revisions' \in [Txns -> Seq(Revision)]
      /\ \A s \in Txns : s # t => revisions'[s] = revisions[s]
      /\ Len(revisions'[t]) = Len(revisions[t]) + 1
      /\ \A i \in 1 .. Len(revisions[t]) : revisions'[t][i] = revisions[t][i]
      /\ revisions'[t][Len(revisions[t]) + 1] = revision
  BY <1>1, <1>2, <1>4, <1>5
<1>9. TypeOK'
  BY <1>3, <1>5, <1>8 DEF IInv, TypeOK
<1>10. FlushedInv'
  BY <1>5 DEF IInv, FlushedInv, Flushed
<1>11. SessionInv'
  <2>1. \A v \in Others(w) : Posting(v) => Flushed(work[v].txn)' /\ work[v].txn \notin rows'
    BY <1>3, <1>5 DEF IInv, SessionInv, Others, Flushed
  <2>2. \A v \in Others(w) : Revising(v) => work[v].txn \in rows'
    BY <1>5 DEF IInv, SessionInv, Others
  <2>3. \A v \in Others(w) : pc[v] = "revised" =>
            Void(work[v].txn)' = Void(work[v].txn)
            /\ Effective(work[v].txn)' = Effective(work[v].txn)
    <3>1. \A v \in Others(w) : pc[v] = "revised" =>
              work[v].txn \in rows /\ work[v].txn # t
      BY <1>1 DEF IInv, SessionInv, Others, Revising, t, r
    <3>2. \A v \in Others(w) : pc[v] = "revised" =>
              revisions'[work[v].txn] = revisions[work[v].txn]
      BY <3>1, <1>8 DEF IInv, TypeOK
    <3>3. \A v \in Others(w) : work'[v] = work[v]
      BY <1>3
    <3>4. original' = original
      BY <1>5
    <3> QED
      BY <3>2, <3>3, <3>4 DEF Void, Effective, Latest
  <2> QED
    BY <1>3, <2>1, <2>2, <2>3, SessionStep DEF IInv, Posting, Revising
<1>12. RevisionInv'
  <2>1. \A s \in Txns \ rows' : revisions'[s] = <<>>
    BY <1>1, <1>5, <1>8 DEF IInv, RevisionInv
  <2>2. ASSUME NEW s \in Txns, NEW i \in DOMAIN revisions'[s]
        PROVE  revisions'[s][i].after = NoTerms <=> revisions'[s][i].action = "VOID"
    <3>1. CASE s # t
      BY <1>8, <3>1 DEF IInv, RevisionInv
    <3>2. CASE s = t /\ i \in 1 .. Len(revisions[t])
      BY <1>1, <1>4, <1>8, <3>2 DEF IInv, RevisionInv
    <3>3. CASE s = t /\ i = Len(revisions[t]) + 1
      BY <1>2, <1>8, <3>3
    <3> QED
      BY <1>4, <1>8, <3>1, <3>2, <3>3
  <2> QED
    BY <2>1, <2>2 DEF RevisionInv
<1>13. RevisionChain'
  <2>1. ASSUME NEW s \in rows', NEW i \in DOMAIN revisions'[s]
        PROVE  /\ revisions'[s][i].before =
                      IF i = 1 THEN original'[s] ELSE revisions'[s][i - 1].after
               /\ revisions'[s][i].action = "VOID" => i = Len(revisions'[s])
    <3>1. s \in rows /\ s \in Txns
      BY <1>5 DEF IInv, TypeOK
    <3>2. CASE s # t
      BY <1>5, <1>8, <3>1, <3>2 DEF IInv, RevisionChain
    <3>3. CASE s = t /\ i \in 1 .. Len(revisions[t])
      BY <1>4, <1>5, <1>7, <1>8, <3>1, <3>3 DEF IInv, RevisionChain
    <3>4. CASE s = t /\ i = Len(revisions[t]) + 1
      <4>1. revisions[t] = <<>> <=> i = 1
        BY <1>4, <3>4
      <4>2. i # 1 => revisions'[t][i - 1] = revisions[t][Len(revisions[t])]
        BY <1>4, <1>8, <3>4
      <4> QED
        BY <1>5, <1>6, <1>8, <3>4, <4>1, <4>2
    <3> QED
      BY <1>4, <1>8, <3>1, <3>2, <3>3, <3>4
  <2> QED
    BY <2>1 DEF RevisionChain
<1> QED
  BY <1>9, <1>10, <1>11, <1>12, <1>13 DEF IInv

LEMMA AbortKeeps ==
    ASSUME IInv, NEW w \in Writers, Abort(w)
    PROVE  IInv'
<1>1. CASE Posting(w)
  BY <1>1, RollBackKeeps DEF Abort, Posting
<1>2. CASE ~Posting(w)
  BY <1>2, SessionMoves DEF Abort, Posting, Return
<1> QED
  BY <1>1, <1>2

-----------------------------------------------------------------------------
LEMMA Steps == IInv /\ [Next]_vars => IInv'
<1> SUFFICES ASSUME IInv, [Next]_vars PROVE IInv'
  OBVIOUS
<1>1. CASE Next
  <2>1. PICK w \in Writers : Post(w) \/ Revise(w) \/ Abort(w)
    BY <1>1 DEF Next
  <2>2. CASE Post(w)
    BY <2>2, FlushKeeps, ReplayKeeps, CommitKeeps DEF Post
  <2>3. CASE Revise(w)
    BY <2>3, LockKeeps, CheckKeeps, CommitRevisionKeeps DEF Revise
  <2>4. CASE Abort(w)
    BY <2>4, AbortKeeps
  <2> QED
    BY <2>1, <2>2, <2>3, <2>4
<1>2. CASE UNCHANGED vars
  BY <1>2 DEF vars, IInv, TypeOK, FlushedInv, Flushed, SessionInv, Posting, Revising,
              RevisionInv, RevisionChain, Void, Latest, Effective
<1> QED
  BY <1>1, <1>2

LEMMA Invariance == Spec => []IInv
BY Initially, Steps, PTL DEF Spec

\* Every variable of the ledger keeps its type, whatever sessions post, revise,
\* roll back and abandon.
THEOREM TypeCorrect == Spec => []TypeOK
BY Invariance, PTL DEF IInv

\* The corrections of a transaction (revise, under the row lock) are one chain,
\* however many editors hold stale versions.
THEOREM CorrectionsChained == Spec => []RevisionChain
BY Invariance, PTL DEF IInv

\* Racing postings of one external reference (add) leave one committed row.
THEOREM ReferencesDeduplicated == Spec => []ReferenceOnce
<1>1. IInv => ReferenceOnce
  BY DEF IInv, FlushedInv, Flushed, ReferenceOnce
<1> QED
  BY <1>1, Invariance, PTL

-----------------------------------------------------------------------------
(***************************************************************************)
(* One session at a time: what a check saw is still so when it commits.    *)
(***************************************************************************)
SoloInv ==
    /\ IInv
    /\ NeverEmptied
    /\ \A w \in Writers : pc[w] = "revised" => CandidateRows(work[w]) # {}

\* "Cannot void the only ledger entry" (revise) holds of sessions that do not
\* overlap; of two at once each may void what the other left.
THEOREM SerialNeverEmpties == Spec => ([]OneAtATime => []NeverEmptied)
<1>1. Init => SoloInv
  <2>1. Init => NeverEmptied /\ \A w \in Writers : pc[w] # "revised"
    BY DEF Init, NeverEmptied
  <2> QED
    BY <2>1, Initially DEF SoloInv
<1>2. SoloInv /\ OneAtATime /\ [Next]_vars => SoloInv'
  <2> SUFFICES ASSUME SoloInv, OneAtATime, [Next]_vars PROVE SoloInv'
    OBVIOUS
  <2>1. IInv /\ IInv'
    <3>1. IInv /\ [Next]_vars => IInv'
      BY Steps
    <3> QED
      BY <3>1 DEF SoloInv
  <2>2. \A s \in Txns : revisions'[s] = revisions[s] => Void(s)' = Void(s)
    BY DEF Void, Latest
  <2>3. rows \subseteq Txns
    BY <2>1 DEF IInv, TypeOK
  <2>4. CASE UNCHANGED <<rows, revisions>>
    <3>1. Active' = Active
      BY <2>2, <2>3, <2>4 DEF Active
    <3>2. ASSUME NEW w \in Writers, pc'[w] = "revised"
          PROVE  CandidateRows(work[w])' # {}
      <4>1. CASE UNCHANGED vars
        BY <3>1, <3>2, <4>1 DEF SoloInv, CandidateRows, vars
      <4>2. CASE Next
        <5>1. CASE pc[w] = "revised" /\ work'[w] = work[w]
          BY <3>1, <3>2, <5>1, <2>4 DEF SoloInv, CandidateRows
        <5>2. CASE Check(w) /\ pc[w] = "locked" /\ pc'[w] # "idle"
          <6>1. Effectual(work[w]) /\ work' = [work EXCEPT ![w] = [work[w] EXCEPT !.before = Before(work[w])]]
            BY <2>1, <5>2 DEF Check, Enter, Return, IInv, TypeOK
          <6>2. work[w] \in Request
            BY <2>1, <5>2 DEF IInv, SessionInv
          <6>3. work'[w].txn = work[w].txn /\ work'[w].action = work[w].action
            BY <2>1, <6>1, <6>2 DEF IInv, TypeOK, Request
          <6> QED
            BY <3>1, <6>1, <6>3 DEF Effectual, CandidateRows
        <5>3. \/ pc[w] = "revised" /\ work'[w] = work[w]
              \/ Check(w) /\ pc[w] = "locked" /\ pc'[w] # "idle"
          <6>1. PICK v \in Writers : Post(v) \/ Revise(v) \/ Abort(v)
            BY <4>2 DEF Next
          <6>2. CASE v # w
            BY <2>1, <3>2, <6>1, <6>2
               DEF Post, Flush, Replay, Commit, Revise, Lock, Check, CommitRevision, Abort,
                   Enter, Return, RollBack, IInv, TypeOK
          <6>3. CASE v = w
            BY <2>1, <3>2, <6>1, <6>3
               DEF Post, Flush, Replay, Commit, Revise, Lock, Check, CommitRevision, Abort,
                   Enter, Return, RollBack, IInv, TypeOK
          <6> QED
            BY <6>2, <6>3
        <5> QED
          BY <5>1, <5>2, <5>3
      <4> QED
        BY <4>1, <4>2
    <3> QED
      BY <2>1, <2>4, <3>1, <3>2 DEF SoloInv, NeverEmptied
  <2>5. ASSUME NEW w \in Writers, Commit(w)
        PROVE  SoloInv'
    <3>1. work[w].txn \in Txns \ rows /\ revisions[work[w].txn] = <<>>
      BY <2>1, <2>5 DEF Commit, IInv, SessionInv, Posting, Request, RevisionInv
    <3>2. work[w].txn \in Active'
      BY <2>5, <3>1 DEF Commit, Active, Void
    <3>3. \A v \in Writers : pc'[v] # "revised"
      BY <2>1, <2>5 DEF Commit, Return, Enter, IInv, TypeOK, OneAtATime
    <3> QED
      BY <2>1, <3>2, <3>3 DEF SoloInv, NeverEmptied
  <2>6. ASSUME NEW w \in Writers, CommitRevision(w)
        PROVE  SoloInv'
    <3> DEFINE t == work[w].txn
    <3>1. t \in rows /\ work[w].action # "POST" /\ ~Void(t) /\ work[w] \in Request
      BY <2>1, <2>6 DEF CommitRevision, IInv, SessionInv, Revising
    <3>2. \A s \in Txns \ {t} : revisions'[s] = revisions[s]
      BY <2>1, <2>6 DEF CommitRevision, IInv, TypeOK
    <3>3. Active \ {t} \subseteq Active'
      BY <2>2, <2>3, <2>6, <3>2 DEF CommitRevision, Active
    <3>4. work[w].action = "VOID" => Active' # {}
      <4>1. work[w].action = "VOID" => Active \ {t} # {}
        BY <2>6 DEF SoloInv, CommitRevision, CandidateRows
      <4> QED
        BY <3>3, <4>1
    <3>5. ASSUME work[w].action # "VOID"
          PROVE  Active' # {}
      <4>1. revisions[t] \in Seq(Revision) /\ revisions' = [revisions EXCEPT ![t] =
                Append(@, [action |-> work[w].action, before |-> work[w].before,
                           after |-> work[w].after])]
        BY <2>1, <2>3, <2>6, <3>1, <3>5 DEF CommitRevision, IInv, TypeOK
      <4>2. revisions'[t][Len(revisions'[t])].action # "VOID"
        BY <2>1, <2>3, <3>1, <3>5, <4>1 DEF IInv, TypeOK
      <4>3. t \in Active'
        BY <2>6, <3>1, <4>2 DEF CommitRevision, Active, Void, Latest
      <4> QED
        BY <4>3
    <3>6. Active' # {}
      BY <3>4, <3>5
    <3>7. \A v \in Writers : pc'[v] # "revised"
      BY <2>1, <2>6 DEF CommitRevision, Return, Enter, IInv, TypeOK, OneAtATime
    <3> QED
      BY <2>1, <3>6, <3>7 DEF SoloInv, NeverEmptied
  <2>7. (\E w \in Writers : Commit(w) \/ CommitRevision(w)) \/ UNCHANGED <<rows, revisions>>
    BY DEF Next, Post, Flush, Replay, Revise, Lock, Check, Abort, vars
  <2> QED
    BY <2>4, <2>5, <2>6, <2>7
<1> QED
  BY <1>1, <1>2, PTL DEF Spec, SoloInv

(***************************************************************************)
(* One session, and no two transactions on one day: the day of an entry    *)
(* says where it stands in every order the ledger is replayed in.          *)
(***************************************************************************)
DaysApart ==
    \A s, t \in Txns : s # t => \A a \in Offers[s], b \in Offers[t] : a.day # b.day

DayReplays(S, terms) ==
    \A t \in S : Accepts(t, terms[t].quantity,
                         Holding({s \in S : terms[s].day < terms[t].day}, terms))

LEMMA ReplaysByDay ==
    ASSUME NEW S, NEW terms, NEW key, NEW n \in Nat \ {0},
           \A s \in S : /\ DOMAIN key[s] = 1 .. n
                        /\ \A i \in 1 .. n : key[s][i] \in Nat
                        /\ key[s][1] = terms[s].day,
           \A s, t \in S : s # t => terms[s].day # terms[t].day
    PROVE  Replays(S, terms, key) <=> DayReplays(S, terms)
<1>1. ASSUME NEW s \in S, NEW t \in S
      PROVE  Precedes(key[s], key[t]) <=> terms[s].day < terms[t].day
  <2>1. 1 \in 1 .. n /\ key[s][1] \in Nat /\ key[t][1] \in Nat
    OBVIOUS
  <2>2. CASE s = t
    BY <2>1, <2>2 DEF Precedes
  <2>3. CASE s # t
    <3>1. key[s][1] # key[t][1]
      BY <2>3
    <3>2. ASSUME Precedes(key[s], key[t]) PROVE key[s][1] < key[t][1]
      <4>1. PICK i \in 1 .. n : key[s][i] < key[t][i]
                                /\ \A k \in 1 .. (i - 1) : key[s][k] = key[t][k]
        BY <3>2 DEF Precedes
      <4>2. i = 1
        BY <3>1, <4>1
      <4> QED
        BY <4>1, <4>2
    <3>3. ASSUME key[s][1] < key[t][1] PROVE Precedes(key[s], key[t])
      BY <2>1, <3>3 DEF Precedes
    <3> QED
      BY <3>2, <3>3
  <2> QED
    BY <2>2, <2>3
<1>2. \A t \in S : {s \in S : Precedes(key[s], key[t])} = {s \in S : terms[s].day < terms[t].day}
  BY <1>1
<1> QED
  BY <1>2 DEF Replays, DayReplays

\* What clients offer is all that rows, revisions and requests are made of.
OfferedInv ==
    /\ \A t \in Txns : original[t] # NoTerms => original[t] \in Offers[t]
    /\ \A t \in Txns : \A i \in DOMAIN revisions[t] :
           revisions[t][i].after # NoTerms => revisions[t][i].after \in Offers[t]
    /\ \A w \in Writers : pc[w] # "idle" => work[w].after \in Offers[work[w].txn]

AloneInv ==
    /\ IInv
    /\ OfferedInv
    /\ CommittedReplays
    /\ \A w \in Writers : pc[w] = "replayed" => LedgerReplays(Active \cup {work[w].txn})
    /\ \A w \in Writers : pc[w] = "revised" => CandidateReplays(work[w])

\* The effective terms of an active row are on offer, and its key starts with their day.
LEMMA ActiveTerms ==
    ASSUME IInv, OfferedInv, NEW t \in Active
    PROVE  /\ t \in Txns /\ t \in rows
           /\ Effective(t) \in Terms /\ Effective(t) \in Offers[t]
           /\ LoadKey(t) \in Seq(Nat) /\ Len(LoadKey(t)) = 3
           /\ LoadKey(t)[1] = Effective(t).day
<1>1. /\ t \in Txns /\ t \in rows /\ original[t] \in Terms /\ Effective(t) \in Terms
      /\ Effective(t) = IF revisions[t] = <<>> THEN original[t]
                        ELSE revisions[t][Len(revisions[t])].after
  BY EffectiveTerms DEF Active
<1>2. revisions[t] \in Seq(Revision) /\ NoTerms \notin Terms
  BY <1>1, LedgerAssumption DEF IInv, TypeOK
<1>3. Effective(t) \in Offers[t]
  <2>1. CASE revisions[t] = <<>>
    BY <1>1, <1>2, <2>1 DEF OfferedInv
  <2>2. CASE revisions[t] # <<>>
    <3>1. Len(revisions[t]) \in DOMAIN revisions[t]
      BY <1>2, <2>2
    <3> QED
      BY <1>1, <1>2, <2>2, <3>1 DEF OfferedInv
  <2> QED
    BY <2>1, <2>2
<1>4. Arrival(t) \in Nat
  <2>1. Flushed(t) /\ created \in Seq(Txns)
    BY <1>1 DEF IInv, FlushedInv, TypeOK
  <2> QED
    BY <1>1, <2>1, ArrivalIsPlace
<1>5. Effective(t).day \in Nat /\ original[t].day \in Nat
  BY <1>1 DEF Terms
<1>6. LoadKey(t) \in Seq(Nat) /\ Len(LoadKey(t)) = 3 /\ LoadKey(t)[1] = Effective(t).day
  BY <1>4, <1>5 DEF LoadKey
<1> QED
  BY <1>1, <1>3, <1>6

\* The committed ledger replays in its order if it does by days ...
LEMMA LedgerByDay ==
    ASSUME IInv, OfferedInv, DaysApart
    PROVE  CommittedReplays <=> DayReplays(Active, [t \in Active |-> Effective(t)])
<1> DEFINE terms == [t \in Active |-> Effective(t)]
           key == [t \in Active |-> LoadKey(t)]
<1>1. \A s \in Active : /\ DOMAIN key[s] = 1 .. 3
                        /\ \A i \in 1 .. 3 : key[s][i] \in Nat
                        /\ key[s][1] = terms[s].day
  BY ActiveTerms
<1>2. \A s, t \in Active : s # t => terms[s].day # terms[t].day
  BY ActiveTerms DEF DaysApart
<1> HIDE DEF terms, key
<1>3. Replays(Active, terms, key) <=> DayReplays(Active, terms)
  <2>1. 3 \in Nat \ {0}
    OBVIOUS
  <2> HIDE DEF Active
  <2> QED
    BY <1>1, <1>2, <2>1, ReplaysByDay, Zenon
<1> QED
  BY <1>3 DEF CommittedReplays, LedgerReplays, terms, key

\* ... and so does the candidate of a correction.
LEMMA CandidateByDay ==
    ASSUME IInv, OfferedInv, DaysApart, NEW r, r.after \in Offers[r.txn],
           r.txn \in Txns, r.after \in Terms, CandidateReplays(r)
    PROVE  DayReplays(CandidateRows(r), [t \in CandidateRows(r) |-> CandidateTerms(r, t)])
<1> DEFINE S == CandidateRows(r)
           terms == [t \in S |-> CandidateTerms(r, t)]
           key == [t \in S |-> <<CandidateTerms(r, t).day>> \o LoadKey(t)]
<1>1. ASSUME NEW t \in S
      PROVE  /\ t \in Txns /\ CandidateTerms(r, t) \in Offers[t]
             /\ CandidateTerms(r, t).day \in Nat
             /\ LoadKey(t) \in Seq(Nat) /\ Len(LoadKey(t)) = 3
  <2>1. t \in Active
    BY DEF CandidateRows
  <2> QED
    BY <2>1, ActiveTerms DEF CandidateTerms, Terms
<1>2. ASSUME NEW d \in Nat, NEW k \in Seq(Nat), Len(k) = 3
      PROVE  /\ DOMAIN (<<d>> \o k) = 1 .. 4 /\ (<<d>> \o k)[1] = d
             /\ \A i \in 1 .. 4 : (<<d>> \o k)[i] \in Nat
  <2> DEFINE e == <<d>>
  <2>1. e \in Seq(Nat) /\ Len(e) = 1 /\ e[1] = d
    OBVIOUS
  <2> HIDE DEF e
  <2>2. /\ e \o k \in Seq(Nat) /\ Len(e \o k) = Len(e) + Len(k)
        /\ \A i \in 1 .. Len(e) + Len(k) :
               (e \o k)[i] = IF i <= Len(e) THEN e[i] ELSE k[i - Len(e)]
    BY <1>2, <2>1, ConcatProperties
  <2> DEFINE ek == e \o k
  <2>3. ek \in Seq(Nat) /\ Len(ek) = 4 /\ ek[1] = d
    BY <1>2, <2>1, <2>2
  <2> HIDE DEF ek
  <2>4. DOMAIN ek = 1 .. 4 /\ \A i \in 1 .. 4 : ek[i] \in Nat
    BY <2>3, LenProperties, ElementOfSeq
  <2> QED
    BY <2>3, <2>4 DEF e, ek
<1>3. \A s \in S : /\ DOMAIN key[s] = 1 .. 4
                   /\ \A i \in 1 .. 4 : key[s][i] \in Nat
                   /\ key[s][1] = terms[s].day
  BY <1>1, <1>2
<1>4. \A s, t \in S : s # t => terms[s].day # terms[t].day
  BY <1>1 DEF DaysApart
<1>5. Replays(S, terms, key)
  BY DEF CandidateReplays
<1> HIDE DEF terms, key, S
<1>6. DayReplays(S, terms)
  <2>1. 4 \in Nat \ {0}
    OBVIOUS
  <2> QED
    BY <1>3, <1>4, <1>5, <2>1, ReplaysByDay, Zenon
<1> QED
  BY <1>6 DEF terms, S

\* What is offered stays offered.
LEMMA OfferedKept ==
    ASSUME IInv, OfferedInv, [Next]_vars
    PROVE  OfferedInv'
<1>1. ASSUME NEW w \in Writers, NEW t \in Txns, NEW terms \in Offers[t], Flush(w, t, terms)
      PROVE  OfferedInv'
  <2>1. \A v \in Writers : pc'[v] # "idle" => work'[v].after \in Offers[work'[v].txn]
    BY <1>1 DEF Flush, Enter, IInv, TypeOK, OfferedInv
  <2> QED
    BY <1>1, <2>1 DEF Flush, IInv, TypeOK, OfferedInv
<1>2. ASSUME NEW w \in Writers, NEW t \in rows, NEW terms \in Offers[t],
             NEW action \in {"AMEND", "VOID"}, NEW expected, Lock(w, t, action, terms, expected)
      PROVE  OfferedInv'
  <2>1. \A v \in Writers : pc'[v] # "idle" => work'[v].after \in Offers[work'[v].txn]
    BY <1>2 DEF Lock, Enter, IInv, TypeOK, OfferedInv
  <2> QED
    BY <1>2, <2>1 DEF Lock, IInv, TypeOK, OfferedInv
<1>3. ASSUME NEW w \in Writers, pc[w] # "idle", NEW phase,
             NEW request, request = work[w] \/ phase = "idle", Enter(w, phase, request)
      PROVE  \A v \in Writers : pc'[v] # "idle" => work'[v].after \in Offers[work'[v].txn]
  BY <1>3 DEF Enter, IInv, TypeOK, OfferedInv
<1>4. ASSUME NEW w \in Writers, Replay(w) \/ Abort(w) PROVE OfferedInv'
  <2>1. pc[w] # "idle" /\ (Enter(w, "replayed", work[w]) \/ Enter(w, "idle", NoWork))
    BY <1>4 DEF Replay, Abort, Return
  <2>2. \A v \in Writers : pc'[v] # "idle" => work'[v].after \in Offers[work'[v].txn]
    BY <1>3, <2>1
  <2>3. original' = original \/ \E t : original' = [original EXCEPT ![t] = NoTerms]
    BY <1>4 DEF Replay, Abort, RollBack
  <2>4. \A t \in Txns : original'[t] # NoTerms => original'[t] \in Offers[t]
    BY <2>3 DEF IInv, TypeOK, OfferedInv
  <2>5. revisions' = revisions
    BY <1>4 DEF Replay, Abort
  <2> QED
    BY <2>2, <2>4, <2>5 DEF OfferedInv
<1>5. ASSUME NEW w \in Writers, Commit(w) PROVE OfferedInv'
  <2>1. \A v \in Writers : pc'[v] # "idle" => work'[v].after \in Offers[work'[v].txn]
    BY <1>3, <1>5 DEF Commit, Return
  <2> QED
    BY <1>5, <2>1 DEF Commit, OfferedInv
<1>6. ASSUME NEW w \in Writers, Check(w) PROVE OfferedInv'
  <2> DEFINE r == [work[w] EXCEPT !.before = Before(work[w])]
  <2>1. work[w] \in Request /\ pc[w] # "idle"
    BY <1>6 DEF Check, IInv, SessionInv
  <2>2. r.after = work[w].after /\ r.txn = work[w].txn
    BY <2>1 DEF Request
  <2>3. Enter(w, "revised", r) \/ Enter(w, "idle", NoWork)
    BY <1>6 DEF Check, Return
  <2> HIDE DEF r
  <2>4. \A v \in Writers : pc'[v] # "idle" => work'[v].after \in Offers[work'[v].txn]
    BY <2>1, <2>2, <2>3 DEF Enter, IInv, TypeOK, OfferedInv
  <2> QED
    BY <1>6, <2>4 DEF Check, OfferedInv
<1>7. ASSUME NEW w \in Writers, CommitRevision(w) PROVE OfferedInv'
  <2> DEFINE r == work[w]
             a == [action |-> r.action, before |-> r.before,
                   after |-> IF r.action = "VOID" THEN NoTerms ELSE r.after]
  <2>1. r \in Request /\ r.txn \in Txns /\ r.after \in Offers[r.txn] /\ pc[w] # "idle"
    BY <1>7 DEF CommitRevision, IInv, SessionInv, OfferedInv, Request
  <2>2. revisions[r.txn] \in Seq(Revision)
    BY <2>1 DEF IInv, TypeOK
  <2>3. revisions' = [revisions EXCEPT ![r.txn] = Append(revisions[r.txn], a)]
        /\ original' = original
    BY <1>7 DEF CommitRevision
  <2>4. a.after # NoTerms => a.after \in Offers[r.txn]
    BY <2>1
  <2> HIDE DEF r, a
  <2>5. ASSUME NEW t \in Txns, NEW i \in DOMAIN revisions'[t], revisions'[t][i].after # NoTerms
        PROVE  revisions'[t][i].after \in Offers[t]
    <3>1. CASE t # r.txn
      BY <2>1, <2>3, <2>5, <3>1 DEF IInv, TypeOK, OfferedInv
    <3>2. CASE t = r.txn
      <4>1. revisions'[t] = Append(revisions[t], a)
        BY <2>1, <2>3, <3>2 DEF IInv, TypeOK
      <4>2. \/ i \in DOMAIN revisions[t] /\ revisions'[t][i] = revisions[t][i]
            \/ revisions'[t][i] = a
        BY <2>2, <3>2, <4>1
      <4> QED
        BY <2>4, <2>5, <3>2, <4>2 DEF OfferedInv
    <3> QED
      BY <3>1, <3>2
  <2>6. \A v \in Writers : pc'[v] # "idle" => work'[v].after \in Offers[work'[v].txn]
    BY <1>3, <1>7, <2>1 DEF CommitRevision, Return
  <2> QED
    BY <2>3, <2>5, <2>6 DEF OfferedInv
<1>8. CASE UNCHANGED vars
  BY <1>8 DEF vars, OfferedInv
<1> QED
  BY <1>1, <1>2, <1>4, <1>5, <1>6, <1>7, <1>8 DEF Next, Post, Revise

\* Steps that commit nothing leave the committed ledger as it is.
LEMMA NothingCommitted ==
    ASSUME IInv, IInv', OfferedInv, OfferedInv', DaysApart, CommittedReplays,
           UNCHANGED <<rows, revisions>>, \A t \in rows : original'[t] = original[t]
    PROVE  CommittedReplays'
<1>1. Active' = Active
  BY DEF Active, Void, Latest
<1>2. \A t \in Active : Effective(t)' = Effective(t)
  BY DEF Active, Effective, Void, Latest
<1>3. DayReplays(Active, [t \in Active |-> Effective(t)])
  BY LedgerByDay
<1>4. DayReplays(Active', [t \in Active' |-> Effective(t)'])
  BY <1>1, <1>2, <1>3
<1>5. (CommittedReplays <=> DayReplays(Active, [t \in Active |-> Effective(t)]))'
  BY LedgerByDay, PTL
<1> QED
  BY <1>4, <1>5

\* A correction commits what was replayed.
LEMMA CorrectionReplays ==
    ASSUME IInv, IInv', OfferedInv, OfferedInv', DaysApart, NEW w \in Writers, CommitRevision(w),
           CandidateReplays(work[w])
    PROVE  CommittedReplays'
<1> DEFINE r == work[w]
           a == [action |-> r.action, before |-> r.before,
                 after |-> IF r.action = "VOID" THEN NoTerms ELSE r.after]
<1>1. /\ r \in Request /\ r.txn \in Txns /\ r.txn \in rows /\ r.action \in {"AMEND", "VOID"}
      /\ r.after \in Terms /\ r.after \in Offers[r.txn] /\ ~Void(r.txn)
  BY DEF CommitRevision, IInv, SessionInv, OfferedInv, Request, Revising
<1>2. revisions[r.txn] \in Seq(Revision) /\ rows \subseteq Txns
  BY <1>1 DEF IInv, TypeOK
<1>3. /\ revisions' = [revisions EXCEPT ![r.txn] = Append(revisions[r.txn], a)]
      /\ UNCHANGED <<original, rows>>
  BY DEF CommitRevision
<1>4. a \in Revision /\ a.action = r.action
      /\ a.after = IF r.action = "VOID" THEN NoTerms ELSE r.after
  <2>1. r.before = Effective(r.txn) /\ Effective(r.txn) \in Terms
    BY <1>1, EffectiveTerms DEF CommitRevision, IInv, SessionInv
  <2> QED
    BY <1>1, <2>1 DEF Revision
<1>5. DayReplays(CandidateRows(r), [t \in CandidateRows(r) |-> CandidateTerms(r, t)])
  BY <1>1, CandidateByDay
<1> HIDE DEF r, a
<1>6. /\ \A t \in Txns : t # r.txn => revisions'[t] = revisions[t]
      /\ revisions'[r.txn] # <<>> /\ revisions'[r.txn][Len(revisions'[r.txn])] = a
  <2>1. revisions'[r.txn] = Append(revisions[r.txn], a)
        /\ \A t \in Txns : t # r.txn => revisions'[t] = revisions[t]
    BY <1>1, <1>3 DEF IInv, TypeOK
  <2> QED
    BY <1>2, <1>4, <2>1
<1> DEFINE c == r.txn
<1>7. \A t \in rows : t # c => Void(t)' = Void(t) /\ Effective(t)' = Effective(t)
  BY <1>2, <1>3, <1>6 DEF Void, Effective, Latest
<1>8. \A t \in rows : t = c =>
          /\ Void(t)' <=> r.action = "VOID"
          /\ r.action = "AMEND" => Effective(t)' = r.after
  BY <1>1, <1>3, <1>4, <1>6 DEF Void, Effective, Latest
<1>9. /\ Active' = CandidateRows(r)
      /\ \A t \in Active' : Effective(t)' = CandidateTerms(r, t)
  <2>1. \A t \in rows : ~Void(t)' <=> t \in CandidateRows(r)
    BY <1>1, <1>7, <1>8 DEF Active, CandidateRows
  <2>2. Active' = CandidateRows(r)
    BY <1>3, <2>1 DEF Active, CandidateRows
  <2>3. \A t \in Active' : t \in rows /\ (t = c => r.action = "AMEND")
    BY <1>1, <2>2 DEF Active, CandidateRows
  <2> QED
    BY <1>7, <1>8, <2>2, <2>3 DEF CandidateTerms
<1>10. DayReplays(Active', [t \in Active' |-> Effective(t)'])
  BY <1>5, <1>9
<1>11. (CommittedReplays <=> DayReplays(Active, [t \in Active |-> Effective(t)]))'
  BY LedgerByDay, PTL
<1> QED
  BY <1>10, <1>11

\* A posting commits what was replayed.
LEMMA PostingReplays ==
    ASSUME IInv, NEW w \in Writers, Commit(w), LedgerReplays(Active \cup {work[w].txn})
    PROVE  CommittedReplays'
<1>1. /\ work[w].txn \in Txns \ rows /\ revisions[work[w].txn] = <<>>
      /\ rows' = rows \cup {work[w].txn} /\ UNCHANGED <<original, created, revisions>>
  BY DEF Commit, IInv, SessionInv, Posting, Request, RevisionInv
<1>2. Active' = Active \cup {work[w].txn}
  BY <1>1 DEF Active, Void, Latest
<1>3. \A t : Effective(t)' = Effective(t) /\ LoadKey(t)' = LoadKey(t)
  BY <1>1 DEF Effective, Void, Latest, LoadKey, Arrival
<1> QED
  BY <1>2, <1>3 DEF CommittedReplays, LedgerReplays

(***************************************************************************)
(* "Posting replays the entire chronological ledger": when sessions do not *)
(* overlap, and the transactions have days of their own, what add and      *)
(* revise commit is what they replayed, so that the committed ledger       *)
(* always replays, and is not emptied.                                     *)
(***************************************************************************)
THEOREM SerialSessionsKeep ==
    ASSUME DaysApart
    PROVE  Spec => SerialLedgerStands
<1>1. Init => AloneInv
  <2> SUFFICES ASSUME Init PROVE AloneInv
    OBVIOUS
  <2>1. OfferedInv /\ CommittedReplays /\ \A w \in Writers : pc[w] = "idle"
    BY DEF Init, OfferedInv, CommittedReplays, LedgerReplays, Replays, Active
  <2> QED
    BY <2>1, Initially DEF AloneInv
<1>2. AloneInv /\ OneAtATime /\ OneAtATime' /\ [Next]_vars => AloneInv'
  <2> SUFFICES ASSUME AloneInv, OneAtATime, OneAtATime', [Next]_vars PROVE AloneInv'
    OBVIOUS
  <2>1. IInv /\ IInv' /\ OfferedInv /\ OfferedInv' /\ CommittedReplays
    BY Steps, OfferedKept DEF AloneInv
  <2>2. CASE UNCHANGED vars
    <3>1. \A t : Effective(t)' = Effective(t) /\ LoadKey(t)' = LoadKey(t)
      BY <2>2 DEF vars, Effective, Void, Latest, LoadKey, Arrival
    <3>2. Active' = Active /\ pc' = pc /\ work' = work
      BY <2>2 DEF vars, Active, Void, Latest
    <3> QED
      BY <2>1, <3>1, <3>2 DEF AloneInv, CommittedReplays, LedgerReplays, CandidateReplays,
                              CandidateRows, CandidateTerms
  <2>3. ASSUME NEW w \in Writers, Commit(w) \/ CommitRevision(w) PROVE AloneInv'
    <3>1. CommittedReplays'
      BY <2>1, <2>3, PostingReplays, CorrectionReplays DEF AloneInv, Commit, CommitRevision
    <3>2. \A v \in Writers : pc'[v] = "idle"
      BY <2>1, <2>3 DEF Commit, CommitRevision, Return, Enter, IInv, TypeOK, OneAtATime
    <3> QED
      BY <2>1, <3>1, <3>2 DEF AloneInv
  <2>4. ASSUME NEW w \in Writers,
               \/ \E t \in Txns : \E terms \in Offers[t] : Flush(w, t, terms)
               \/ \E t \in rows : \E terms \in Offers[t], action \in {"AMEND", "VOID"}, n \in Nat :
                      Lock(w, t, action, terms, n)
               \/ Abort(w)
               \/ (Replay(w) \/ Check(w)) /\ Return(w)
        PROVE  AloneInv'
    <3>1. UNCHANGED <<rows, revisions>> /\ \A t \in rows : original'[t] = original[t]
      <4>1. CASE Abort(w) \/ Replay(w)
        <5>1. \/ original' = original
              \/ Posting(w) /\ original' = [original EXCEPT ![work[w].txn] = NoTerms]
          BY <4>1 DEF Abort, Replay, RollBack, Posting
        <5> QED
          BY <2>1, <4>1, <5>1 DEF Abort, Replay, IInv, SessionInv, TypeOK
      <4>2. CASE \E t \in Txns : \E terms \in Offers[t] : Flush(w, t, terms)
        BY <2>1, <4>2 DEF Flush, IInv, FlushedInv, Flushed, TypeOK
      <4>3. CASE Check(w) \/ \E t \in rows : \E terms \in Offers[t], action \in {"AMEND", "VOID"},
                                 n \in Nat : Lock(w, t, action, terms, n)
        BY <4>3 DEF Check, Lock
      <4> QED
        BY <2>4, <4>1, <4>2, <4>3
    <3>2. \A v \in Writers : pc'[v] \notin {"replayed", "revised"}
      BY <2>1, <2>4 DEF Flush, Lock, Abort, Replay, Check, Return, Enter, IInv, TypeOK, OneAtATime
    <3> QED
      BY <2>1, <3>1, <3>2, NothingCommitted DEF AloneInv
  <2>5. ASSUME NEW w \in Writers, Replay(w), ~Return(w) PROVE AloneInv'
    <3>1. /\ LedgerReplays(Active \cup {work[w].txn})
          /\ Enter(w, "replayed", work[w])
          /\ UNCHANGED <<original, created, rows, revisions>>
      BY <2>5 DEF Replay, Postable
    <3>2. /\ pc'[w] = "replayed" /\ work'[w] = work[w]
          /\ \A v \in Writers : v # w => pc'[v] = "idle"
      BY <2>1, <2>5, <3>1 DEF Replay, Enter, IInv, TypeOK, OneAtATime
    <3>3. /\ Active' = Active /\ \A S : LedgerReplays(S)' <=> LedgerReplays(S)
      BY <3>1 DEF LedgerReplays, Active, Void, Latest, Effective, LoadKey, Arrival
    <3> QED
      BY <2>1, <3>1, <3>2, <3>3 DEF AloneInv, CommittedReplays
  <2>6. ASSUME NEW w \in Writers, Check(w), ~Return(w) PROVE AloneInv'
    <3> DEFINE r == [work[w] EXCEPT !.before = Before(work[w])]
    <3>1. /\ CandidateReplays(work[w]) /\ Enter(w, "revised", r)
          /\ UNCHANGED <<original, created, rows, revisions>>
      BY <2>6 DEF Check
    <3>2. work[w] \in Request
      BY <2>1, <2>6 DEF Check, IInv, SessionInv
    <3>3. r.txn = work[w].txn /\ r.action = work[w].action /\ r.after = work[w].after
      BY <3>2 DEF Request
    <3> HIDE DEF r
    <3>4. /\ pc'[w] = "revised" /\ work'[w] = r
          /\ \A v \in Writers : v # w => pc'[v] = "idle"
      BY <2>1, <2>6, <3>1 DEF Check, Enter, IInv, TypeOK, OneAtATime
    <3>5. Active' = Active /\ \A t : Effective(t)' = Effective(t) /\ LoadKey(t)' = LoadKey(t)
      BY <3>1 DEF Active, Void, Latest, Effective, LoadKey, Arrival
    <3>6. CommittedReplays'
      BY <2>1, <3>1, NothingCommitted
    <3>7. \A v \in Writers : pc'[v] = "revised" => CandidateReplays(work[v])'
      BY <3>1, <3>3, <3>4, <3>5 DEF CandidateReplays, CandidateRows, CandidateTerms
    <3> QED
      BY <2>1, <3>4, <3>6, <3>7 DEF AloneInv
  <2> QED
    BY <2>2, <2>3, <2>4, <2>5, <2>6 DEF Next, Post, Revise
<1>3. AloneInv => CommittedReplays
  BY DEF AloneInv
<1> QED
  BY <1>1, <1>2, <1>3, SerialNeverEmpties, PTL DEF Spec, SerialLedgerStands
=============================================================================
