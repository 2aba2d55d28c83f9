---------------------------- MODULE LedgerWrites ----------------------------
(***************************************************************************)
(* Writing to the portfolio ledger: services/api/app/{portfolio_operations,*)
(* ledger_revisions,ledger_models,portfolio_valuation,portfolio_api}.py    *)
(* and portfolio_domain/cost_basis.py.                                     *)
(*                                                                         *)
(* One portfolio and one instrument.  Transactions are never changed: an   *)
(* amendment or a void appends a revision to the transaction's own chain.  *)
(* A posting inserts its row and replays the ledger it can see; a revision *)
(* locks its transaction, replays the ledger with the correction and       *)
(* inserts the revision.  Both commit later, at READ COMMITTED: whatever   *)
(* other sessions committed after the replay was not looked at.            *)
(***************************************************************************)
EXTENDS Integers, Sequences, FiniteSets, SequencesExt

CONSTANTS
    Txns,         \* transactions that clients may post
    Kind,         \* [Txns -> Kinds]
    Offers,       \* [Txns -> sets of Terms]: what a client may post or amend to
    Reference,    \* [Txns -> external references, or NoReference]
    NoReference,
    Writers,      \* API sessions
    NoTerms,      \* null
    MaxVersion    \* bound: versions per transaction

Kinds == {"BUY", "SELL", "SHORT", "COVER"}

\* The day and the quantity of an entry; price, fees and FX are left out.
Terms == [day: Nat, quantity: Nat \ {0}]

ASSUME LedgerAssumption ==
    /\ Kind \in [Txns -> Kinds]
    /\ Offers \in [Txns -> SUBSET Terms]
    /\ Txns \subseteq DOMAIN Reference
    /\ NoTerms \notin Terms
    /\ MaxVersion \in Nat \ {0}

VARIABLES
    original,  \* the columns of a flushed row of portfolio_transactions
    created,   \* the flushed rows ordered by created_at
    rows,      \* the committed rows
    revisions, \* the committed transaction_revisions of each row, by version
    pc, work   \* phase and request of each session

vars == <<original, created, rows, revisions, pc, work>>

Revision == [action: {"AMEND", "VOID"}, before: Terms, after: Terms \cup {NoTerms}]
Request == [txn: Txns, action: {"POST", "AMEND", "VOID"},
            before: Terms \cup {NoTerms}, after: Terms, expected: Nat]
NoWork == [txn |-> NoTerms]

TypeOK ==
    /\ original \in [Txns -> Terms \cup {NoTerms}]
    /\ created \in Seq(Txns)
    /\ rows \subseteq Txns
    /\ revisions \in [Txns -> Seq(Revision)]
    /\ pc \in [Writers -> {"idle", "flushed", "replayed", "locked", "revised"}]
    /\ work \in [Writers -> Request \cup {NoWork}]

Init ==
    /\ original = [t \in Txns |-> NoTerms]
    /\ created = <<>>
    /\ rows = {}
    /\ revisions = [t \in Txns |-> <<>>]
    /\ pc = [w \in Writers |-> "idle"]
    /\ work = [w \in Writers |-> NoWork]

-----------------------------------------------------------------------------
(***************************************************************************)
(* load_entries and apply_revisions: the effective ledger.                 *)
(***************************************************************************)
Version(t) == Len(revisions[t]) + 1
Latest(t) == revisions[t][Len(revisions[t])]
Void(t) == revisions[t] # <<>> /\ Latest(t).action = "VOID"
Effective(t) ==
    IF revisions[t] = <<>> THEN original[t]
    ELSE IF Void(t) THEN Latest(t).before ELSE Latest(t).after
Active == {t \in rows : ~Void(t)}

\* Rows come ordered by their original date, then by creation; the stable sort
\* by the effective date keeps that order within a day.
Arrival(t) == CHOOSE i \in DOMAIN created : created[i] = t
LoadKey(t) == <<Effective(t).day, original[t].day, Arrival(t)>>

Precedes(key, other) ==
    \E i \in DOMAIN key : key[i] < other[i] /\ \A k \in 1 .. (i - 1) : key[k] = other[k]

(***************************************************************************)
(* LedgerState.apply: lots of the instrument, as their signed total.       *)
(***************************************************************************)
Sign(t) == IF Kind[t] \in {"BUY", "COVER"} THEN 1 ELSE -1

Holding(S, terms) == MapThenSumSet(LAMBDA t : Sign(t) * terms[t].quantity, S)

\* open_position rejects an opposite position, close_position one that is too
\* small or opposite.
Accepts(t, quantity, held) ==
    CASE Kind[t] = "BUY" -> held >= 0
      [] Kind[t] = "SHORT" -> held <= 0
      [] Kind[t] = "SELL" -> quantity <= held
      [] Kind[t] = "COVER" -> quantity <= -held

\* The replay, in the order of the keys, raises no ValueError.
Replays(S, terms, key) ==
    \A t \in S : Accepts(t, terms[t].quantity,
                         Holding({s \in S : Precedes(key[s], key[t])}, terms))

LedgerReplays(S) == Replays(S, [t \in S |-> Effective(t)], [t \in S |-> LoadKey(t)])

-----------------------------------------------------------------------------
Enter(w, phase, request) ==
    /\ pc' = [pc EXCEPT ![w] = phase]
    /\ work' = [work EXCEPT ![w] = request]

Return(w) == Enter(w, "idle", NoWork)

\* A rejected or lost posting takes its row back.
RollBack(t) ==
    /\ original' = [original EXCEPT ![t] = NoTerms]
    /\ created' = RemoveAt(created, Arrival(t))

(***************************************************************************)
(* PortfolioLedgerService.add.                                             *)
(***************************************************************************)
\* external_key is unique: an insert waits for an uncommitted one, and fails on
\* a committed one.  Mutant: only the SELECT before the insert.
ReferenceUnseen(t) == \A s \in rows : Reference[s] # Reference[t]
ReferenceFree(t) ==
    Reference[t] # NoReference =>
        \A i \in DOMAIN created : Reference[created[i]] # Reference[t]

\* Value the ledger up to the trade date, insert and flush the row.
Flush(w, t, terms) ==
    /\ pc[w] = "idle"
    /\ original[t] = NoTerms
    /\ LedgerReplays({s \in Active : Effective(s).day <= terms.day})
    /\ ReferenceFree(t)
    /\ original' = [original EXCEPT ![t] = terms]
    /\ created' = Append(created, t)
    /\ Enter(w, "flushed", [txn |-> t, action |-> "POST", before |-> NoTerms,
                            after |-> terms, expected |-> 0])
    /\ UNCHANGED <<rows, revisions>>

\* The replay a posting must pass.  Mutant: later transactions are not replayed.
PostableSoFar(t) == LedgerReplays({s \in Active \cup {t} : Effective(s).day <= Effective(t).day})
Postable(t) == LedgerReplays(Active \cup {t})

Replay(w) ==
    /\ pc[w] = "flushed"
    /\ LET t == work[w].txn IN
       IF Postable(t)
       THEN Enter(w, "replayed", work[w]) /\ UNCHANGED <<original, created>>
       ELSE RollBack(t) /\ Return(w)
    /\ UNCHANGED <<rows, revisions>>

Commit(w) ==
    /\ pc[w] = "replayed"
    /\ rows' = rows \cup {work[w].txn}
    /\ Return(w)
    /\ UNCHANGED <<original, created, revisions>>

-----------------------------------------------------------------------------
(***************************************************************************)
(* PortfolioTransactionService.revise.                                     *)
(***************************************************************************)
\* SELECT .. FOR UPDATE of the transaction; the client names a version it saw.
Lock(w, t, action, terms, expected) ==
    /\ pc[w] = "idle"
    /\ t \in rows
    /\ \A v \in Writers : pc[v] \in {"locked", "revised"} => work[v].txn # t
    /\ expected <= Version(t)
    /\ Enter(w, "locked", [txn |-> t, action |-> action, before |-> NoTerms,
                           after |-> terms, expected |-> expected])
    /\ UNCHANGED <<original, created, rows, revisions>>

\* RevisionConflict: the version is not the current one, or the entry is void.
\* Mutant: the void is not looked at.
CurrentVersion(r) == r.expected = Version(r.txn)
Current(r) == r.expected = Version(r.txn) /\ ~Void(r.txn)

\* The candidate ledger: the effective one with the correction, sorted again by
\* day, so that entries of one day keep their order in the effective ledger.
CandidateRows(r) == IF r.action = "VOID" THEN Active \ {r.txn} ELSE Active
CandidateTerms(r, t) == IF t = r.txn THEN r.after ELSE Effective(t)
CandidateReplays(r) ==
    LET S == CandidateRows(r) IN
    Replays(S, [t \in S |-> CandidateTerms(r, t)],
               [t \in S |-> <<CandidateTerms(r, t).day>> \o LoadKey(t)])

\* "Cannot void the only ledger entry", "no effective change".
\* Mutant: the last entry may be voided.
Changes(r) == r.action = "AMEND" => r.after # Effective(r.txn)
Effectual(r) ==
    /\ CandidateRows(r) # {}
    /\ r.action = "AMEND" => r.after # Effective(r.txn)

\* The "before" snapshot.  Mutants: it is taken from the stored row; a void has
\* none.
BeforeStored(r) == original[r.txn]
BeforeAmended(r) == IF r.action = "VOID" THEN NoTerms ELSE Effective(r.txn)
Before(r) == Effective(r.txn)

Check(w) ==
    /\ pc[w] = "locked"
    /\ LET r == work[w] IN
       IF Current(r) /\ Effectual(r) /\ CandidateReplays(r)
       THEN Enter(w, "revised", [r EXCEPT !.before = Before(r)])
       ELSE Return(w)
    /\ UNCHANGED <<original, created, rows, revisions>>

\* The revision and its audit are committed together, or rolled back.  No other
\* session holds the row lock, so (transaction_id, version) cannot be taken.
CommitRevision(w) ==
    /\ pc[w] = "revised"
    /\ LET r == work[w] IN
       revisions' = [revisions EXCEPT ![r.txn] =
           Append(@, [action |-> r.action, before |-> r.before,
                      after |-> IF r.action = "VOID" THEN NoTerms ELSE r.after])]
    /\ Return(w)
    /\ UNCHANGED <<original, created, rows>>

\* A session is lost before it commits: everything it flushed is rolled back.
Abort(w) ==
    /\ pc[w] # "idle"
    /\ IF pc[w] \in {"flushed", "replayed"}
       THEN RollBack(work[w].txn)
       ELSE UNCHANGED <<original, created>>
    /\ Return(w)
    /\ UNCHANGED <<rows, revisions>>

-----------------------------------------------------------------------------
Post(w) ==
    \/ \E t \in Txns : \E terms \in Offers[t] : Flush(w, t, terms)
    \/ Replay(w) \/ Commit(w)

Revise(w) ==
    \/ \E t \in rows : \E terms \in Offers[t], action \in {"AMEND", "VOID"} :
          \E expected \in 1 .. Version(t) :
             /\ Version(t) < MaxVersion
             /\ Lock(w, t, action, terms, expected)
    \/ Check(w) \/ CommitRevision(w)

Next == \E w \in Writers : Post(w) \/ Revise(w) \/ Abort(w)

Spec == Init /\ [][Next]_vars

-----------------------------------------------------------------------------
(***************************************************************************)
(* Properties.                                                             *)
(***************************************************************************)

\* "Append-only corrections, optimistic versions" (ledger_revisions.py:1): the
\* corrections of a transaction form one chain from the original row, each made
\* to what the one before it left, and nothing follows a void, whatever stale
\* versions the editors hold.
RevisionChain ==
    \A t \in rows : \A i \in DOMAIN revisions[t] :
        /\ revisions[t][i].before = IF i = 1 THEN original[t] ELSE revisions[t][i - 1].after
        /\ revisions[t][i].action = "VOID" => i = Len(revisions[t])

\* "External references are deduplicated" (docs/PORTFOLIO_LEDGER.md:22): racing
\* postings of one reference leave one row.
ReferenceOnce ==
    \A s, t \in rows : (Reference[s] = Reference[t] /\ Reference[s] # NoReference) => s = t

\* "Posting replays the entire chronological ledger, including later
\* transactions.  Oversales and overcovers fail" (docs/PORTFOLIO_LEDGER.md:20):
\* the committed ledger can always be replayed.
CommittedReplays == LedgerReplays(Active)

\* "Cannot void the only ledger entry" (ledger_revisions.py:134): corrections
\* never leave a portfolio with rows but without an entry.
NeverEmptied == rows # {} => Active # {}

\* Neither holds of sessions that overlap: each validates what it read without the other.
\* Sessions that do not overlap, whatever they post, amend or void late, leave a ledger that
\* replays and is not empty.
OneAtATime == \A v, w \in Writers : pc[v] # "idle" /\ pc[w] # "idle" => v = w
SerialLedgerStands == []OneAtATime => [](CommittedReplays /\ NeverEmptied)
=============================================================================
