# Terminal: a TLA+ development of its queues, its ledger, its files and its services

The repository is a private investment terminal: a FastAPI service over PostgreSQL
and an S3-compatible object store, worker daemons that execute queued work, a
desktop agent that uploads files, and a browser client. This directory models the
parts of it in which several processes or several sessions touch the same rows,
files or requests, and the accounting and price selection they all rest on. It
checks them with TLC on small instances, and proves every safety property those
checks pass with TLAPS, for every instance. `A/` below abbreviates `services/api/app/`.

How to run: `tlc -config X.cfg M` for each row of the table in section 4, and
`tlapm M.tla` for each `*_proofs.tla` (section 5).

## 1. Inventory

### Conventions of the code every model rests on

* PostgreSQL at READ COMMITTED, sessions with `autoflush=False` and
  `expire_on_commit=False` (`A/database.py:54`). A SELECT sees what is committed
  at that moment; an UPDATE waits for a row lock and then re-evaluates its WHERE
  clause on the committed row.
* So a conditional UPDATE (`WHERE id = .. AND status = ..`) with its commit is one
  atomic step, while "load the row, decide, assign attributes, commit" is two: the
  flush at the commit writes by primary key whatever the row has become.
* The ORM sends only the columns whose value differs from the loaded one, and a row
  that is already loaded is not refreshed by a later SELECT, a locking one included.
* Synchronous endpoints run in a thread pool: any two requests overlap. The two
  upload endpoints are `async def` and call their service synchronously: they
  exclude each other, and nothing else.

### Components

| Component (sources) | State | Operations | Hard because | Module |
|---|---|---|---|---|
| **Analytical runs** (`analysis_lifecycle`, `terminal_api`, `terminal_worker`, `queue_worker`) | rows of `analysis_runs`, model artifacts | create and launch, cancel, claim, execute, publish, fail | two claimants per run, cancellation racing publication, crashes, launch errors | `AnalysisRuns` |
| **Report jobs** (`report_api`, `report_jobs`, `report_engine`, `object_storage`) | rows of `report_jobs`, objects, audit rows | submit, expire, claim, render, store once, publish, fail, download | lease expiry against a slow worker, overlapping dispatchers, object and row apart | `ReportJobs` |
| **Ledger** (`portfolio_operations`, `ledger_revisions`, `load_entries`) | append-only transactions, revision chains | post, amend, void, each with a replay | concurrent writers, back-dated entries, stale editors | `LedgerWrites` |
| **Accounting** (`portfolio_domain/`) | cash, lots, component postings, attributed profit | replay of 19 kinds of entries, close of a day | three derivations of one ledger, rounding, corporate actions | `Accounting` |
| **Data drop** (`data_drop`, `data_drop_api`, `data_mapping`) | rows of `external_files`, `file_hashes`, raw objects, dataset versions | receive, retry, map, import, reject, archive | read-work-write handlers without locks, retries, racing imports | `DataDrop` |
| **Local agent** (`services/local-agent/agent.py`) | SQLite queue, files in folders | scan, upload, sync, archive | a rename and its commit are two steps; lost replies; restarts | `LocalAgent` |
| **Valuation cache** (`portfolio_valuation.latest`, `fingerprint`) | runs by fingerprint | fingerprint, calculate, store, serve | fingerprint and data are read piece by piece while others commit, in any order | `ValuationCache` |
| **Sources of prices** (`price_sources` and its writers and readers) | observations, bars, rates, rules, mode | observe, set a rule, resolve, value | late and future rows, two directions of a rate, rules that change | `PriceSources` |
| **Balance adjustments** (`portfolio_balances`) | adjustments | add under the portfolio lock | two that are each fine and together are not; back-dating | `Balances` |
| **Risk limits** (`risk_limits`, `risk_api`) | limits, breaches, alerts, audit | configure, evaluate, settings, acknowledge | sessions work with what they loaded before the lock | `RiskLimits` |
| **Provider jobs** (`provider_api`, `provider_data`, `provider_probe`, `queue_worker`) | connection row, versions, observations, jobs | control, test, import, refresh, probe | a session, or another control, commits what it read before | `Providers` |
| **Broker reader and fills** (`broker_api`, `data_drop_api`, `broker_reader.py`) | pairing codes, agents, snapshots, approvals | pair, claim, revoke, heartbeat, receive, view, approve | clocks of their own, racing claims and approvals, late requests | `BrokerFeed` |
| **Backups** (`managed_backup.py`, `managed_postgres.py`, `backup_health`) | archives, receipts, restores | back up, restore test, show health | two stores are copied while both are written; any step may fail | `Backups` |
| **Web application** (`apps/terminal-web`, `terminal_api` workspaces) | list, timer, local storage; saved workspaces | open, edit, switch, save, act, close | debounced posts that overtake one another, late answers | `Workspaces` |
| Worker health, accounts, quantitative engines, research, rendering, CRUD endpoints, seeds, shell, TypeScript packages | | | see section 6 | none |

`PROJECT.json` lists every component with its status, and under "hazards" what is
hard to test in each of them, at its line.

*How they interact.* Imports, broker fills and users all write the ledger through
one service; `LedgerWrites` lets any sessions post, so they are among its writers.
The agent talks to the data drop over HTTP only: `LocalAgent` has the server as the agent
sees it, `DataDrop` has agents as its environment, with the same states and
the same promise between them (an acknowledged file is stored, a hash has one
original). Valuations read the ledger, the prices and the rules; that a
cached one is as good as a fresh one is `ValuationCache`, what a fresh one
computes is `Accounting` and `PriceSources`. Otherwise the components share
no rows, no locks and no files, which is why `Services` (section 3) need not
interleave them.

### What makes each component correct

* *Runs*: one executor per run; no transition loses another's history; result,
  error and artifact agree with the status; one audit row per cancellation; a crashed
  run is left alone until it is cancelled; a queued run leaves the queue.
* *Reports*: a succeeded report is backed by the bytes its row describes, for ever;
  an expired worker never publishes; a job is claimed once; the quota holds; a job
  has one outcome, audited once; every job ends.
* *Ledger*: the committed ledger replays; corrections form one chain per
  transaction; a reference is posted once; a portfolio is never emptied.
* *Accounting*: cash equals what entered, was earned and was paid, at cost; the
  postings explain it; the profit attributed to positions, and to none, is the portfolio's
  with cash at its recorded value.
* *Data drop*: one original per content; files under review are stored, imported
  ones have a version; no version comes from a mapping that does not validate;
  the versions of a `datasets` row are numbered consecutively; every transition is recorded.
* *Local agent*: no file is lost or overwritten wherever it dies; nothing is
  marked archived before the server has settled it; a pending archive can be resumed.
* *Cache*: what is served holds every posting and observation committed when it was asked
  for, and every rule change but those that committed against the order of their
  `updated_at`; a valuation of today holds everything as of the start of its minute.
* *Prices*: each day goes by the newest row of its foremost source; a rate is the
  same there and back; a day that is over stands.
* *Balances*: no account is ever negative on any day.
* *Risk*: alerts, breaches and audit agree; missing data never clears a breach.
* *Providers*: a late commit does not undo a revocation, unless it is the control of another
  administrator; the versions of a dataset are consecutive; a job succeeds only when what it
  received is stored; one session per job.
* *Broker*: one agent per code; one posting per execution; data shown as connected is recent.
* *Backups*: an archive is one cut of both stores; VERIFIED means the latest attempt
  verified and its file is intact; a restore test restores what it was asked to.
* *Web*: a layout reaches its own workspace and no other; what is not saved is announced.

## 2. Plan

| Step | State |
|---|---|
| 1. `JobLifecycle`, the abstract promise of a persisted queue | done |
| 2. `AnalysisRuns`, with refinement and liveness | modelled, checked, safety proved |
| 3. `ReportJobs`, with refinement and liveness | modelled, checked, safety proved |
| 4. `LedgerWrites` | modelled, checked, proved |
| 5. `DataDrop` | modelled, checked, proved |
| 6. `LocalAgent` | modelled, checked, proved |
| 7. `ValuationCache` | modelled, checked, proved |
| 8. `Balances`, `BrokerFeed`, `RiskLimits`, `Providers`, `Backups` | modelled, checked, proved |
| 9. `Accounting` | modelled, checked, proved |
| 10. `PriceSources`, `Workspaces` | modelled, checked, proved |
| 11. Worth doing next: `terminal_analytics.history`; two browser pages | open |

Abstract specifications: `JobLifecycle` is implemented by both queues
(`INSTANCE ... WITH` in `AnalysisRuns` and `ReportJobs`). The other components
have no shorter account of what they promise than their properties.

## 3. Modules

| Module | Models | Proofs |
|---|---|---|
| `Null` | the value of an empty column | |
| `JobLifecycle` | the promise of a job row: one action per change of status, output only with success | |
| `AnalysisRuns` | analytical runs | `AnalysisRuns_proofs` |
| `ReportJobs` | report jobs | `ReportJobs_proofs` |
| `LedgerWrites` | posting and corrections of one instrument | `LedgerWrites_proofs` |
| `DataDrop` | the server side of the file inbox | `DataDrop_proofs` |
| `LocalAgent` | the desktop agent | `Files_proofs` |
| `Backups` | backups, restore tests, their receipts | `Files_proofs` |
| `Accounting` | replay, postings, attribution | `Books_proofs` |
| `Balances` | balance adjustments | `Books_proofs` |
| `RiskLimits` | limits, breaches, alerts | `Portfolio_proofs` |
| `BrokerFeed` | pairing, snapshots, fills | `Services_proofs` |
| `Providers` | one external provider | `Services_proofs` |
| `ValuationCache` | the fingerprint cache | `Portfolio_proofs` |
| `PriceSources` | which price and rate is taken | `Portfolio_proofs` |
| `Workspaces` | layouts of the browser client | `Portfolio_proofs` |
| `Services` | the ten services from `LocalAgent` on, side by side | `Services_proofs` |
| `MC*` | instances for TLC | |

Operators used by the mutants of `PROJECT.json` stand directly before the operator
they alter, under a comment "Mutant"; no behaviour refers to them.

**AnalysisRuns.** A row is `status`, `history`, `result`, `error`. Payloads are
abstract: a result or an artifact is the worker that computed it. `transition_run` is
split where the code can be interrupted: `Observe` is its SELECT (and `Legal` its
early return), `Matches` the WHERE clause of its UPDATE, `Write` its VALUES. Every
caller is an Observe action followed by an Update action: the claim, the publication
and the failure of a worker, the cancellation of a user, the failure of the request
whose `Popen` raised. A launched process is named by its run, so `Workers` is the set
of runs and dispatchers. `_execute_run` is `Load`, `Compute`, then `Publish..` or `Raise`
and `Fail..`; `Crash` may strike in any phase. `orphaned` only observes: it lists the
runs whose executing process died. `crashes` is bounded by `MaxCrashes`.

**ReportJobs.** A submission is three steps because the user row is locked from the
first. A pass of `run_once` is `ExpireSelect`, `ExpireCommit` (the write by primary key),
`Select`, `Claim`, `Store` (create-only), `Publish` or `Raise`, `FailCheck`, `FailCommit`.
Time appears only as `LeaseRunsOut`. `content` stands for the object key, hash and size the
row records. `delivered` records the downloads served.

**LedgerWrites.** Transactions have a kind, a day and a quantity. A posting is `Flush`
(insert), `Replay` (with its own row visible), `Commit`; a correction is `Lock`, `Check`,
`CommitRevision`. `Effective`, `Void` and `LoadKey` are `apply_revisions` and the order of
`load_entries`; `Accepts` is what `open_position` and `close_position` refuse, on the signed
total of the lots. The validation of a correction sorts the effective ledger by day,
the next load sorts the rows by their original date first: `CandidateReplays` and
`LedgerReplays` keep the two orders apart, as the code does. Prices, charges, cash, lots and
corporate actions are in `Accounting`: they do not decide whether a sale is covered.

**DataDrop.** `Successors` is `TRANSITIONS`. A handler is `..Load` and `..Commit`; `Sent` is the
ORM's rule that an unchanged column is not written, which is why a stale mapping can
change the mapping and the history of a row without its state. `receive` is one step
for a new content (nobody else can see the row) and two for the retry of a failed
upload, whose row is visible. An import holds the row lock from `ImportFlush`, which looks up
the `datasets` row of the name, source and type, and creates one when none is committed; a
dataset is known by the file whose import created it, and racing first imports create one
each. All imports of an instance are of one name, source and type. The data
are a verdict per mapping; `stored` lists the rows whose bytes are in storage.
`MaxHistory` and `MaxUploads` bound the cycles through MAPPED and UPLOADING.

**LocalAgent.** A path is a folder and the key put before the name (a digest or a unique
stamp); `queue` is the SQLite table, keyed by path as in the code. Every rename and every
commit of the agent is a step (`ScanMove` / `ScanInsert`, `UploadPost` / `UploadCommit` /
`UploadMove` / `UploadFollow`, `ArchivePlan` / `ArchivePlace` / `ArchiveAcknowledge` /
`ArchiveCommit`), and `AgentCrash` may fall between any two; `ScanRecover` is what the next
start does with files that have no row. A post may succeed although its reply is lost.

**Backups.** A backup is the sequence of `create_backup`: list, dump, copy object by
object, list again, link the verified archive to its name, receipts. The services write
objects and rows in between (`PutObject` before the row that names it, `EndWrite`). Every
step may raise (`BackupFail`) or be the last (`BackupCrash`); an operator may damage or
remove an archive, a day may pass. `BackupHealth` is `backup_state`. One backup or restore
test runs at a time: the code takes no lock, so this is an assumption about the schedule.

**Accounting.** An entry is replayed (`Replay`) into `open` (lots per instrument, in
order of matching), `book` (cash and totals) and, a second time and independently,
`posted` (component postings); `session` is what the attribution of the day keeps. As in
`finish`, the cash of an entry is its instrument's only for the kinds in `CashKinds`: a
conversion, an adjustment, a deposit or a withdrawal may name an instrument, and is on no
position all the same (`other`). `BookWorth` is the marked positions and cash at its recorded
value; what foreign cash gains at the rates of the day (`cash_fx`) is not modelled. One
operator per kind of entry, with the refusals of the code as guards. `Allocate` is the
pro-rata allocation with the remainder given to the last part; the method (FIFO or average
cost) and what is capitalized are chosen initially.

**Balances.** A request is `Lock`, `Read`, `Commit` or `Rollback`. `NeverNegative` is the
running balance over all days from the requested one.

**RiskLimits.** A request is `Begin` (what it loads before the lock), `TakeLock` (what it
reads under it), then `Evaluate`, `Configure`, `UpdateSettings` or `Abandon`;
`Acknowledge` takes no lock, as in `main.py`. `Write` is the JSON column of the profile,
built from the row loaded before. `Revalue` is the environment.

**BrokerFeed.** `ClaimRead` / `ClaimCommit` is the conditional UPDATE of a pairing code;
`Receive` / `Store` a snapshot, whose reader is authenticated when it is received.
`AccountView` is `account_view`: what is shown as connected. `ApproveFill` / `PostFill` is
the approval with its unique external reference.

**Providers.** Each session of the code (`import`, `refresh`, `probe`, the dispatcher) is
`Begin..`, `LoadConnection`, `Reply`, `ReadStored`, `CommitWork`, `EndJob`, and may end anywhere
(`AbortWork`). A control is `BeginControl` (reads the row) and `CommitControl` (writes the
columns that differ from what it read, `ColumnWritten`); two administrators may overlap.
`decided` only observes: what the last control to commit wanted, or what it left when another had
committed since it read. `Found` is the lookup of the dataset, which an import creates when
it sees none; a dataset is known by the session that created it.

**ValuationCache.** A request is `CountRows` and `StampRules` (the fingerprint), then
`ServeCached`, or `LoadRows`, `LoadRules`, `StoreRun`. Of the tables in the fingerprint those that only
grow are one count, and one whose rows change has stamps; the tables that are read but not in it
(bars, rates, instruments, the portfolio, the risk policy) are `uncounted`. A change of a rule is
`EditRule` (the flush, which draws the stamp) and `CommitRule`, by any number of requests at
once, for `source_rule` takes no lock. `overtaken` has the rules whose last change committed
after one with a later stamp, and `passed` those that were overtaken when a request came in or since;
`dawn` is what was committed when a minute of the freshness epoch began. The three only observe.

**PriceSources.** `Resolve` and `ResolveRate` translate `MarketPriceResolver` and
`FxRateResolver`; the writers are the three ways a row arrives. `closes` only observes what
was valued at the end of each day. A seed is a table the demo or an earlier import left.

**Workspaces.** `timer` is what the running 700 ms timer will post; a post is a member of `saves`
until it is answered, so posts may overtake each other. `StartAction`, `ActionServed`,
`ActionAnswered` is `workspaceAction`, with what the closure captured in `acting`.
`made` only observes which configuration was made in which workspace.

**Services.** It runs ten specifications in one instance. They share no
variables, so a property of one cannot depend on how its steps are interleaved with
another's; the module therefore chooses in the initial state which one works,
and the state space is the sum of theirs and not their product.

## 4. What the runs show

| Run (module, cfg) | Question | Instance | Result |
|---|---|---|---|
| `analysis_runs` (`MCAnalysisRuns`) | Do racing claims, publications, cancellations, launch errors and a crash keep a run consistent? | 2 runs, one a model run; 1 dispatcher beside the 2 processes; 2 users; 1 crash | holds; 677,772 states |
| `analysis_runs_live` (`MCAnalysisRunsLive.cfg`) | Does a queued run always leave the queue, and a running one end? | the same, 1 user, no model run (artifacts do not decide who proceeds) | holds; 143,694 states |
| `report_jobs` (`MCReportJobs`) | Are reports claimed once, stored once, never altered, with two overlapping dispatchers? | 2 jobs, 1 owner with quota 1, 2 dispatchers, 1 crash | holds; 99,088 states |
| `report_jobs_single` (`MCReportJobsSingle.cfg`) | With the one dispatcher of docker-compose: one audited outcome, the lifecycle, an end for each job? | 3 jobs, 2 owners, 1 dispatcher, 2 crashes | holds; 145,221 states |
| `ledger_writes` (`MCLedgerWrites`) | Do concurrent editors keep one chain, and references one row? Do sessions that do not overlap leave a ledger that replays, and not empty (`SerialLedgerStands`)? | either 2 writers with a purchase and two sales of one reference, or 1 writer with long and short entries, all on days of their own; 3 versions | holds; 38,849 states |
| `ledger_skew` (`MCLedgerSkew.cfg`) | Does the committed ledger replay with two writers? | a purchase and two sales | **violated** |
| `ledger_ties` (`MCLedgerTies.cfg`) | And with one writer, and entries on one day? | two purchases and a sale | **violated** |
| `data_drop` (`MCDataDrop`) | Do stale handlers, retries and racing imports, also of a dataset that does not exist yet, break identity, backing, validity or numbering? | 2 files, 3 contents, 2 agents, 2 threads, 3 mappings | holds; 934,668 states up to symmetry |
| `data_drop_race` (`MCDataDropRace.cfg`) | Is every transition recorded? | the same | **violated** |
| `desk_services` (`MCServices`) | Do the ten services keep their promises, with their races, failures and crashes? | see below | holds; 719,094 states up to symmetry |
| `agent_interrupted` (`MCAgent`) | Can every interrupted archive be resumed? | 1 content dropped twice, 1 crash | **violated** |
| `workspace_edits` (`Workspaces`, `MCWorkspaces.cfg`) | Is a change either posted or announced as not saved? | 3 workspaces, 1 edit, 2 posts | **violated** |

`desk_services` is the sum of ten instances:

| Service | Properties | Instance | States | Larger instance that was also checked |
|---|---|---|---|---|
| agent | `FilesKept`, `ArchivedIsSettled`, `JournalHolds` | 1 folder, 1 content dropped twice, 2 stamps, 2 months, 1 crash | 28,218 | |
| backups | `BackupsAreTrue` | 1 object, 2 bytes, 3 puts, 2 backups | 92,042 | 2 objects: 489,580 |
| accounting | `BooksAgree` | 17 entries, one for each branch of the ledger, any 4 of them in any order, prices 3 and 4, 2 days, both methods | 137,066 | |
| balances | `NeverOverdrawn` | 3 requests of +1 or -1, 1 account, 2 days | 9,360 | |
| risk | `AlertsFollowBreaches`, `MissingNeverClears` | 1 limit, 2 sessions at a time, 4 in all, 2 revaluations | 39,472 | 5 sessions: 297,544 |
| broker | `FeedIsSound` | 2 readers, 1 code, 1 execution, tolerances 1, clock to 2, 2 snapshots, 2 approvals | 76,171 | clock to 3: 259,698 |
| providers | `ProvidersAreSound` | 2 sessions, 2 administrators, 1 job, 1 response, 2 begun, an earlier version or none | 19,742 | 3 begun: 330,082 |
| cache | `ServedIsCurrent` | 2 viewers, 2 rules, 2 changes of any table, 1 minute, 2 requests | 273,027 up to symmetry |  |
| prices | `PricesAreSound` | 4 sources, 4 price feeds, 4 rate feeds, 2 seeds, 1 order besides the default, 2 rows, 1 day | 28,010 | 2 orders: 98,260 |
| workspaces | `LayoutsStayHome` | 2 workspaces, 1 edit, 1 post | 15,986 | 2 edits, 2 posts: 935,481; 3 workspaces: 258,725 |

*Why the bounds are enough.* The hazards are pairwise: two claimants of one row, an
editor against a writer, a handler against the one that overtook it. Two runs with one
dispatcher give each run two claimants and the dispatcher a choice; two users give
racing cancellations; a second crash would only repeat the first on another worker.
The single report dispatcher may crash twice, so that one expiry finds two jobs.
Two dispatchers and two jobs give the expiry a job of the other dispatcher while it
has its own. Three transactions are the fewest with a purchase and two sales that
compete for it, and three versions let a correction be corrected. In `DataDrop` the
mappings are three because a stale invalid mapping is only sent when it differs from
the invalid one loaded; two parseable files are needed for two imports to ask for
one version number. In `LocalAgent` files of different names never meet; one content
dropped twice is what makes two rows compete for one path, and the second month is
what a plan must not be recomputed in. Two backups give VERIFIED an earlier attempt to be
mistaken about. Two administrators give controls that cross, two sessions imports that
race to create a dataset. Two rules and two changes give the cache a change that is overtaken, with a
request before and one after it. Four entries are two lots, a corporate action and a sale. One row of each
direction and two of one category give every tie the resolvers break. For the services
the bounds matter to the run only: the same properties are proved for any bounds (section 5). Symmetry is used in runs of
safety properties only, over constants that no definition tells apart.

*Violations.* Each is a disagreement of the code with a sentence of the repository;
PROJECT.json quotes it.

1. `portfolio_operations.py:281`: two sales posted at once each replay a ledger without
   the other; both commit and the ledger is oversold, against "Oversales and overcovers
   fail" (`docs/PORTFOLIO_LEDGER.md:20`).
2. `ledger_revisions.py:136`: a correction that puts a purchase and a sale on one day is
   validated in one order and replayed in another; the committed ledger can fail its own replay.
3. `data_drop.py:78`: a mapping that loaded a file before its rejection puts it back to
   AWAITING_APPROVAL and erases the rejection from the history, against "Every
   transition records time and explanation" (`docs/DATA_LINEAGE.md:12`). What still
   holds in spite of such writes is the subject of `data_drop`.
4. `agent.py:286`: two copies of one file plan the same archive path while neither has been
   moved; the second can never commit, and the agent ends on every start, against
   "interrupted rename can resume after restart" (`docs/LOCAL_DATA_AGENT.md:32-33`).
5. `shell.tsx:182`: the timer of a change is cleared when another workspace is shown, and
   nothing posts the change unless the user comes back to it, against "Changes are
   debounced to the server" (`docs/WORKSPACES.md:8`).

Two more limits are stated by the properties themselves and have no run of their own. Imports that
race to be the first of a name, source and type create a `datasets` row each, both with a version
1, where `docs/DATA_LINEAGE.md:18` has "Same dataset name, type and source creates the next
version" (`data_drop.py:341-356`, `provider_data.py:243-255`); `VersionsNumbered` and
`VersionsInOrder` are about each row. And a valuation can be served without a rule change that was
overtaken, or without a change of a table that is not in the fingerprint
(`portfolio_valuation.py:173-187`); `ServedIsCurrent` says which ones and, for a valuation of
today, for how long.

With two report dispatchers at once the expiry (`report_jobs.py:134`) can also declare a report
failed that was published in between. The deployment has one (`docker-compose.yml`), so
the outcome is checked and proved with that assumption (`OneAuditedOutcome`), and what holds
without it is `report_jobs`.

*Deadlock* is checked where the instance never stops: a report dispatcher polls for ever.
The other instances that pass stop when all work is finished or a bound is reached, so there it is not.

*Fairness.* `AnalysisRuns!Fairness` is weak fairness of each worker's steps: the loop of
`queue_worker.main` swallows every exception and sleeps (`A/queue_worker.py:126-137`), and
a launched process runs its code to the end unless it crashes. `ReportJobs!Fairness` is weak
fairness of each dispatcher's poll, for the loop of `report_engine.dispatch`, and of time
(`LeaseRunsOut`). Users, submissions and crashes are under no fairness. With the crash
bound a daemon crashes finitely often, which is the container's restart policy.
`EveryRunProceeds` excepts orphaned runs because the code does:
`docs/OPERATIONS_VERIFICATION.md:28` tells the operator to cancel them. The services state
safety properties only: what each should eventually do waits for a person, a network or a clock.

## 5. What is proved

Eight modules hold the proofs, checked by `tlapm M.tla`. Each theorem is for any sets of
the named constants and any bounds, under the assumption the component's module names
(`RunsAssumption`, `ReportAssumption`, ...): null is not one of the values, the bounds are natural
numbers, and what the tables guarantee of their initial rows. None of the safety properties is
inductive: a commit is only right because of what its session saw earlier. So each
proof has an inductive invariant that says **what an earlier reading is still
worth**, and the component's section below says what that is.

| Theorems (module) | State |
|---|---|
| `TypeCorrect`, `OneExecutor`, `ResultCorrect`, `CancelAudited`, `HistoryAppendOnly`, `LaunchErrorHarmless`, `OrphansOnlyCancelled`, `Refinement` (`AnalysisRuns_proofs`) | `TypeOK`, `AtMostOneExecutor`, `ResultMatchesStatus`, `CancelledOnce`, `HistoryKept`, `LaunchErrorSparesClaimed`, `OrphanOnlyCancelled`, `ImplementsLifecycle` |
| `TypeCorrect`, `SucceededBacked`, `DownloadsUnaltered`, `QuotaCorrect`, `FailedForEver`, `OneClaim`; with at most one dispatcher `OutcomeAudited`, `Refinement` (`ReportJobs_proofs`) | `TypeOK`, `SucceededIsBacked`, `DeliveredUnaltered`, `QuotaHeld`, `ExpiredCannotPublish`, `ClaimedOnce`; `OneAuditedOutcome`, `ImplementsLifecycle` |
| `TypeCorrect`, `CorrectionsChained`, `ReferencesDeduplicated`; for sessions that do not overlap `SerialNeverEmpties`, and with days of their own (`DaysApart`) `SerialSessionsKeep` (`LedgerWrites_proofs`) | `TypeOK`, `RevisionChain`, `ReferenceOnce`; `NeverEmptied`, `SerialLedgerStands` |
| `TypeCorrect`, `OriginalUnique`, `FilesBacked`, `ImportsValid`, `VersionsConsecutive`, `AcknowledgedStored` (`DataDrop_proofs`) | `TypeOK`, `OneOriginal`, `Backed`, `ImportedValid`, `VersionsNumbered`, `AcknowledgedIsStored` |
| `BackupTypeCorrect`, `BackupsTruthful` (`Files_proofs`) | `BackupTypeOK`, `BackupsAreTrue` |
| `AgentTyped`, `NoFileLost`, `ArchivedFilesSettled`, `JournalStands` (`Files_proofs`) | `AgentTypeOK`, `FilesKept`, `ArchivedIsSettled`, `JournalHolds` |
| `AccountingTypeCorrect`, `BooksAlwaysAgree`, `BalanceTypeCorrect`, `AccountsNeverOverdrawn` (`Books_proofs`) | `AccountingTypeOK`, `BooksAgree`, `BalanceTypeOK`, `NeverOverdrawn` |
| `ProviderTypeCorrect`, `ProvidersSound` (`Services_proofs`) | `ProviderTypeOK`, `ProvidersAreSound` |
| `BrokerTypeCorrect`, `FeedSound` (`Services_proofs`) | `BrokerTypeOK`, `FeedIsSound` |
| `RiskTypeCorrect`, `AlertsFollow`, `MissingIsUndetermined`, `ServedCurrent`, `PricesSound`, `LayoutsAtHome`, and of their types `CacheTypeCorrect`, `PriceTypeCorrect`, `WorkspaceTypeCorrect` (`Portfolio_proofs`) | `RiskTypeOK`, `AlertsFollowBreaches`, `MissingNeverClears`, `ServedIsCurrent`, `PricesAreSound`, `LayoutsStayHome`; `CacheTypeOK`, `PriceTypeOK`, `WorkspaceTypeOK` |
| `ServicesTypeCorrect`, `PromisesKept` (`Services_proofs`) | `ServicesTypeOK`; the other thirteen properties of `desk_services`, together |

**Analytical runs.** `StartInv` ties the phase of a request to its row and to the launched
process; `WorkerInv` says that no worker is past the claim of a run that is not yet
RUNNING; `CallInv` is about the open calls: the status one saw may legally be left, and **if
the row still has that status, it still has the history the call saw**. This is what makes
"match the status" enough to protect the history: a row never returns to a status it
left, because every transition goes from QUEUED to RUNNING to an end. So a claim that
matches saw QUEUED, and nobody was executing; a publication or failure that matches saw RUNNING,
and the caller is the one executor; a cancellation that matches is the first to end the run.
A generic lemma (`UpdateKeeps`) treats what all UPDATEs share. The refinement maps `result` to
the abstract output: every UPDATE that matches is one abstract action, everything else stutters.
`OrphanInv` adds that nobody executes an orphan again.

**Report jobs.** `RowInv` orders the columns of a row; `HolderInv` says what the phase of a
dispatcher implies: whoever executes a job holds its claim, the job is RUNNING or was failed by an
expiry, and **a job an expiry has loaded was claimed before**: the write by primary key
cannot reopen a job or alter what was stored. `LockInv` says that an owner's lock has one
holder whose count stays below the quota: dispatchers only make jobs inactive, and nobody else may
enqueue for that owner. With one dispatcher `SoleInv` says that the jobs it has loaded are RUNNING
until it writes them back.

**Ledger.** `FlushedInv` states the uniqueness of references of the flushed rows, not only
of the committed ones. `SessionInv` says that a row being posted is nobody else's, and that
the holder of the row lock knows the current terms until it inserts its revision. While
sessions do not overlap (`OneAtATime`), `SoloInv` adds that a correction which passed its check leaves
something, even if entries share days. That the committed ledger replays needs `DaysApart` as well, that
no two transactions can be put on one day: entries of one day are validated in one order and reloaded in
another (`ledger_ties`). With it the holding before an entry is the sum over the earlier days, whatever
the order of the ties (`ReplaysByDay`), and `AloneInv` says that the ledger a session has replayed is the
one it will leave. Without either assumption the property is false, as the two violations show.

**Data drop.** Handlers write rows loaded earlier, so the state of a row cannot be relied on.
`SessionInv` is what a loaded row says for ever: its bytes are stored, an archived one has a
version, a duplicate is never loaded, a version number read earlier is at most one beyond
those its dataset has been given since.

**Local agent.** The agent may die between a move and the commit that follows it, so `RowSound` says what a
committed row means wherever the process stands: an archive is planned exactly while it is pending, the
plan fits what the server said, and the file is at one of the two ends. `MovedInv`, `AnsweredInv` and
`PlannedInv` are what the process holds between two of its steps, which a crash forgets. Whatever
reviewers and other uploaders do, the server's record of a content only becomes more final
(`ServerGrows`), so a sound row stays sound. That files are neither lost nor overwritten is `MoveKeeps`:
every move starts where a file is and ends where none is.

**Backups.** `CutInv`: every write of an object draws a new stamp, so an object that still has
the stamp of the first listing had the same bytes when the dump was taken. `ReceiptInv` is the
order of the receipts: an attempt is later than the receipt from its start to its own receipt.

**Accounting.** `BooksAgree` compares three derivations of one ledger, and says nothing of how they
come to agree; a sale, say, keeps the profit right only if the lots it matches were all on one side. `BooksInv`
adds: the lots of an instrument are on one side, in order of matching, and none is empty (`LotsInv`,
`AccountingTypeOK`); the attribution has the same units as the lots (`UnitsInv`); cash plus the cost
of what is held is what was put in, earned, realised and adjusted, less what was paid and not capitalized
(`CashInv`); what has come to the positions and to none since the day began is the change of cash less
capital (`FlowInv`). Each kind of entry has a lemma, down to the allocation, whose parts add up to the whole
whatever the rounding gives away (`AllocateIs`). TLC checked `BooksInv` on the instance
first. Sums over lots and instruments are folds, and the prover has no induction
over data to offer; the section "Sums" proves what is needed of them by looking at a least counterexample among the
subsets of one finite set, which is a statement about sets.

**Balances.** `LockedInv`: whoever is past the lock holds it, and what it has read of an account is still all
there is; an adjustment that passed `NeverNegative` therefore passes it on the rows it joins. A back-dated one
moves every later balance, which is why the balances after its day are all compared.

**Services.** A step of the ten together is a step of the one at work and a stutter of the other nine
(`EachServiceAsSpecified`), so each keeps beside the others what it keeps alone.

**Providers.** `WorkInv`: the number an import will insert is at most one beyond the versions its dataset
has, the points of a reply are stored or about to be, the session's job is open and nobody else's.
`ControlInv`: a control that no other has crossed read `enabled` as it still is, so writing the columns
that differ from what it read is writing what it wanted.

**Broker feed.** `CodeInv`: an agent's code is claimed for ever, and a claim that was begun names a
code that exists. `StampInv`: every stamp, the one of a snapshot still on its way included,
was near the server's time when it arrived.

**Risk limits.** `LockInv` and `RegisterInv`: what a session has read under the lock is still true
when it commits, but for the acknowledgement of an alert, which takes no lock: an alert read
as open may be resolved by then, never the other way.

**Valuation cache.** A fingerprint has the newest stamp of the rules and no version, and the newest stamp
may come back: when the rule that had it is written by a change with an older one. `EditingInv` says that
a change under way has a stamp of its own, so none brings back the stamp of a fingerprint that was read (`Past`).
`GoodInv` is what a calculation is worth while some rule still has the stamp of its fingerprint: it lacks
changes of overtaken rules only, and of rules with a later stamp. When a request reads the same
fingerprint no rule has a later one, so what it finds lacks those of overtaken rules only (`MatchInv`);
`ViewInv` adds that what was read for a fingerprint was read after it. `DawnInv` is what bounds the rest: a
run with the fingerprint of a minute was calculated in it or later.

**Prices.** `Topmost` and `TopmostFor` are choices; the lemmas `HasTop` (by the
well-foundedness of strict inclusion of finite sets) and `RatesInLine` (the order of rates is total and
transitive in both directions) show that the choice exists and is unique. Then the newest of each group,
of the first category, is the newest of all rows of that category (`ResolveIsForemost`,
`RateIsForemost`), and there and back differ only for two equally new rows (`BothWays`). `PriceInv`
adds what is needed of the tables: a row has an id of its own, and is ingested on the current day, after
every day that is closed.

**Workspaces.** `HomeInv`: whatever a list, a timer or a post carries for a workspace was made for it.
`ActionInv`: what an action has captured stays usable until its answer arrives.

### Only model-checked

* `EveryRunProceeds`, `EveryReportEnds`: liveness under fairness is out of the prover's reach.
* The five violations.

## 6. Not modelled, and why

* Quantitative engines, equity and options research, report layout, the demo data services and
  repositories: numerics on decimals, floats and data frames, or reads of one row, without control
  state. Together with the table definitions and the pages of the client they are most of the
  repository's lines, so the share of all lines that the definitions stand for stays small; of the code that
  decides who writes what and when, little is left out.
* Accounts and sessions: authentication is outside this development.
* CRUD endpoints, seeds, application shell, TypeScript packages: no protocol of their own.
* Worker health: heartbeats are read by nobody in the models.
* Histories: `terminal_analytics.history` and `price_frame` read the bars of an instrument that has no
  observation without asking the rule, although `docs/DATA_SOURCE_PRECEDENCE.md` names histories among the
  users of the resolver. Only quotes and valuations are modelled.
* An ingestion job whose dispatcher died stays RUNNING (`A/queue_worker.py:34`): the model has it and the
  operator's guide says so; nothing is claimed of it.
* Inside the modelled parts: the parameters and outputs of templates; report retention (410 after 30 days);
  settlement dates, contract multipliers and rounding digits of the accounting; the revaluation of foreign
  cash at the rates of the day, which the code reports apart (`cash_fx`, `A/portfolio_valuation.py:823`), so
  that the profit of `AttributionComplete` is the one with cash at its recorded value; the effect of balance
  adjustments on a valuation; rates that are not positive; backups that overlap; the older SQLite backup
  scripts; a second browser page; parsing.
  Object storage is assumed to keep what it acknowledged, except in `Backups`, where an archive may be damaged:
  `DeliveredUnaltered` is about retries and overlapping claimants, not about objects altered from outside.
