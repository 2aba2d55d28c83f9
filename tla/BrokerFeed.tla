------------------------------ MODULE BrokerFeed ------------------------------
(***************************************************************************)
(* The read-only broker feed of one portfolio: pairing and revoking agents *)
(* (data_drop_api.py), snapshots of a paper account sent by a reader       *)
(* (broker_api.py, broker_reader.py), what the account view shows of them, *)
(* and the approval of their fills into the ledger.                        *)
(*                                                                         *)
(* Requests check, work and commit in separate steps.  Readers have clocks *)
(* of their own: the stamp of a snapshot may differ from the server's time *)
(* by up to Window.  The cash and the positions of a snapshot are left     *)
(* out; every snapshot repeats the fills of the day, and the commission of *)
(* a fill may be reported later than the fill.                             *)
(***************************************************************************)
EXTENDS Null, Integers, FiniteSets

CONSTANTS
    Readers,        \* agents that may be paired
    Codes,          \* pairing codes
    Executions,     \* fills of stocks, by account and execution id
    Validity,       \* of a code: 10 minutes
    Window,         \* a snapshot's stamp may be off by 5 minutes
    Fresh,          \* a snapshot is current for 90 seconds
    MaxClock,       \* bound on the time
    MaxSnapshots,   \* bound on the snapshots stored
    MaxApprovals    \* bound on the approvals begun

VARIABLES
    clock,
    codes,       \* AgentPairing: when a code expires and whether it was claimed
    claims,      \* the claim each machine has begun: the code and the time it has read
    paired,      \* LocalAgent: by which code, whether revoked, and last_seen
    posts,       \* the snapshot each reader has sent, once it is authenticated
    snapshots,   \* BrokerAccountSnapshot rows, with the time they arrived
    approvals,   \* approvals that have found no posting of their fill
    approved,    \* approvals begun so far
    posted_fills \* postings of the ledger made from fills

brokerVars == <<clock, codes, claims, paired, posts, snapshots, approvals, approved, posted_fills>>

Fills == [Executions -> {"absent", "pending", "complete"}]  \* pending: no commission yet
Snapshot == [reader: Readers, as_of: Int, received: Nat, fills: Fills]
Approval == [snapshot: Snapshot, fill: Executions]
Pairing == [expires: Nat, claimed: BOOLEAN]
PairingClaim == [code: Codes, now: Nat]
Agent == [code: Codes, revoked: BOOLEAN, seen: Nat \cup {None}]

ASSUME BrokerAssumption ==
    /\ None \notin Readers \cup Codes \cup Executions
    /\ None \notin Snapshot /\ None \notin Pairing /\ None \notin PairingClaim /\ None \notin Agent
    /\ Validity \in Nat /\ Window \in Nat /\ Fresh \in Nat
    /\ MaxClock \in Nat /\ MaxSnapshots \in Nat /\ MaxApprovals \in Nat

BrokerTypeOK ==
    /\ clock \in Nat
    /\ codes \in [Codes -> Pairing \cup {None}]
    /\ claims \in [Readers -> PairingClaim \cup {None}]
    /\ paired \in [Readers -> Agent \cup {None}]
    /\ posts \in [Readers -> Snapshot \cup {None}]
    /\ snapshots \subseteq Snapshot
    /\ approvals \subseteq Approval
    /\ approved \in Nat
    /\ posted_fills \subseteq Approval

BrokerInit ==
    /\ clock = 0
    /\ codes = [c \in Codes |-> None]
    /\ claims = [r \in Readers |-> None]
    /\ paired = [r \in Readers |-> None]
    /\ posts = [r \in Readers |-> None]
    /\ snapshots = {}
    /\ approvals = {}
    /\ approved = 0
    /\ posted_fills = {}

feed == <<posts, snapshots>>
imports == <<approvals, approved, posted_fills>>

-----------------------------------------------------------------------------
(***************************************************************************)
(* pair, claim, revoke                                                     *)
(***************************************************************************)
Pair(c) ==
    /\ codes[c] = None
    /\ codes' = [codes EXCEPT ![c] = [expires |-> clock + Validity, claimed |-> FALSE]]
    /\ UNCHANGED <<clock, claims, paired>> /\ UNCHANGED feed /\ UNCHANGED imports

ClaimRead(r, c) ==
    /\ paired[r] = None
    /\ claims[r] = None
    /\ codes[c] # None
    /\ ~codes[c].claimed
    /\ codes[c].expires > clock
    /\ claims' = [claims EXCEPT ![r] = [code |-> c, now |-> clock]]
    /\ UNCHANGED <<clock, codes, paired>> /\ UNCHANGED feed /\ UNCHANGED imports

\* The conditions of the UPDATE, with the time read before.  Mutant: by primary key.
ClaimKnown(claim) == TRUE
ClaimUpdates(claim) == ~codes[claim.code].claimed /\ codes[claim.code].expires > claim.now
\* Claim and agent in one transaction; no row updated is an error.
ClaimCommit(r) ==
    /\ claims[r] # None
    /\ IF ClaimUpdates(claims[r])
       THEN /\ codes' = [codes EXCEPT ![claims[r].code].claimed = TRUE]
            /\ paired' = [paired EXCEPT ![r] = [code |-> claims[r].code, revoked |-> FALSE,
                                                seen |-> None]]
       ELSE UNCHANGED <<codes, paired>>
    /\ claims' = [claims EXCEPT ![r] = None]
    /\ UNCHANGED clock /\ UNCHANGED feed /\ UNCHANGED imports

Revoke(r) ==
    /\ paired[r] # None
    /\ ~paired[r].revoked
    /\ paired' = [paired EXCEPT ![r].revoked = TRUE]
    /\ UNCHANGED <<clock, codes, claims>> /\ UNCHANGED feed /\ UNCHANGED imports

-----------------------------------------------------------------------------
(***************************************************************************)
(* receive_snapshot, heartbeat                                             *)
(***************************************************************************)
Authenticated(r) == paired[r] # None /\ ~paired[r].revoked

\* Mutant: only old stamps are refused.
NotOld(as_of) == clock - as_of <= Window
WithinWindow(as_of) == clock - as_of <= Window /\ as_of - clock <= Window

\* The agent is authenticated, the stamp is checked and unknown ...
Receive(r, as_of, fills) ==
    /\ Authenticated(r)
    /\ posts[r] = None
    /\ WithinWindow(as_of)
    /\ Cardinality(snapshots) < MaxSnapshots
    /\ \A s \in snapshots : ~(s.reader = r /\ s.as_of = as_of)
    /\ posts' = [posts EXCEPT ![r] = [reader |-> r, as_of |-> as_of, received |-> clock,
                                      fills |-> fills]]
    /\ UNCHANGED <<clock, codes, claims, paired, snapshots>> /\ UNCHANGED imports

\* ... and the row stored with last_seen, or the request fails.
Store(r) ==
    /\ posts[r] # None
    /\ \/ /\ snapshots' = snapshots \cup {posts[r]}
          /\ paired' = [paired EXCEPT ![r].seen = posts[r].received]
       \/ UNCHANGED <<snapshots, paired>>
    /\ posts' = [posts EXCEPT ![r] = None]
    /\ UNCHANGED <<clock, codes, claims>> /\ UNCHANGED imports

Heartbeat(r) ==
    /\ Authenticated(r)
    /\ paired[r].seen # clock
    /\ paired' = [paired EXCEPT ![r].seen = clock]
    /\ UNCHANGED <<clock, codes, claims>> /\ UNCHANGED feed /\ UNCHANGED imports

\* current_snapshot: the newest stamp, and whether it is shown as connected.
Newer(s) == \A other \in snapshots : other.as_of <= s.as_of
Active(s) ==
    /\ ~paired[s.reader].revoked
    /\ paired[s.reader].seen # None
    /\ clock - paired[s.reader].seen < Fresh
    /\ clock - s.as_of < Fresh
\* account_view: the broker's account when it is connected, or the internal ledger.
AccountView(s) == IF Newer(s) /\ Active(s) THEN "BROKER" ELSE "INTERNAL LEDGER"

-----------------------------------------------------------------------------
(***************************************************************************)
(* approve_fill                                                            *)
(***************************************************************************)
\* Mutant: fills are told apart by the snapshot they were seen in.
SnapshotReference(a) == <<a.snapshot, a.fill>>
FillReference(a) == a.fill
PostedBefore(a) == \E other \in posted_fills : FillReference(other) = FillReference(a)

\* A fill of any stored snapshot that has its commission; the ledger has none with its
\* reference yet ...
ApproveFill(s, fill) ==
    /\ approved < MaxApprovals
    /\ s \in snapshots
    /\ s.fills[fill] = "complete"
    /\ LET a == [snapshot |-> s, fill |-> fill] IN
       /\ a \notin approvals
       /\ ~PostedBefore(a)
       /\ approvals' = approvals \cup {a}
    /\ approved' = approved + 1
    /\ UNCHANGED <<clock, codes, claims, paired, posted_fills>> /\ UNCHANGED feed

\* ... and still has none at the commit (the unique constraint), or the request fails.
PostFill(a) ==
    /\ a \in approvals
    /\ approvals' = approvals \ {a}
    /\ posted_fills' \in {posted_fills} \cup
          (IF PostedBefore(a) THEN {} ELSE {posted_fills \cup {a}})
    /\ UNCHANGED <<clock, codes, claims, paired, approved>> /\ UNCHANGED feed

Tick ==
    /\ clock < MaxClock
    /\ clock' = clock + 1
    /\ UNCHANGED <<codes, claims, paired>> /\ UNCHANGED feed /\ UNCHANGED imports

BrokerNext ==
    \/ \E c \in Codes : Pair(c) \/ \E r \in Readers : ClaimRead(r, c)
    \/ \E r \in Readers :
          \/ ClaimCommit(r) \/ Revoke(r) \/ Store(r) \/ Heartbeat(r)
          \/ \E as_of \in -Window .. MaxClock + Window, fills \in Fills : Receive(r, as_of, fills)
    \/ \E s \in snapshots, fill \in Executions : ApproveFill(s, fill)
    \/ \E a \in approvals : PostFill(a)
    \/ Tick

BrokerSpec == BrokerInit /\ [][BrokerNext]_brokerVars

-----------------------------------------------------------------------------
\* A pairing code makes one agent, whoever races for it and however late its request
\* commits (data_drop_api.py:285-296).
PairedOnce ==
    \A r, q \in Readers : r # q /\ paired[r] # None /\ paired[q] # None =>
        paired[r].code # paired[q].code

\* An execution enters the ledger once, though every snapshot of the day repeats it and
\* several reviewers approve it from different snapshots (broker_api.py:330).
FillPostedOnce == \A a, b \in posted_fills : a.fill = b.fill => a = b

\* "CONNECTED READ ONLY" is never shown for data that arrived longer ago than both
\* tolerances, whatever the clock of the reader said, nor for a revoked agent whose last
\* request was still on its way (broker_api.py:238-257).
ConnectedIsRecent ==
    \A s \in snapshots : AccountView(s) = "BROKER" =>
        /\ clock - s.received < Window + Fresh
        /\ ~paired[s.reader].revoked

\* What the feed adds to the desk can be relied on.
FeedIsSound == PairedOnce /\ FillPostedOnce /\ ConnectedIsRecent
=============================================================================
