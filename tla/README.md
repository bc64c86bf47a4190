# CareerSignals: TLA+ models, checks and proofs

CareerSignals collects job postings from several sources into one shared data
set and matches them to each user's preferences. This directory holds TLA+
models of the part of it where processes meet: the two work queues in
PostgreSQL, the workers that drain them under advisory locks, the API requests
that fill them, the workflow that carries a new user's first refresh across
both, the user's settings, which several pages and endpoints write at once, the
accounts administrators act on, what a global refresh collects and publishes,
and the statuses and metrics behind the dashboard.
The models are translated from the code under `packages/`, `apps/` and
`src/pipelines/`; where a comment or a document says something the code does not
do, a run shows it (see *Disagreements*).

## Inventory

| Component | State it keeps | Operations | Interacts with | What is hard | What makes it correct |
|---|---|---|---|---|---|
| Advisory locks (`tasks/locks.py`) | session locks of PostgreSQL: one global, one per user, N writer slots | try, unlock, loss of a session | both workers | a dead session keeps a lock until the server notices; slots are tried one at a time | a lock has one holder; who cannot get the inner lock gives the outer one back |
| Global refresh (`tasks/connector_refresh_worker.py`, `repositories/connector_runs.py`, `tasks/connector_refresh_task.py`) | `connector_refresh_runs`, audit and source rows | enqueue, claim, plan, publish, finish, requeue, fail, close stale | locks, publication, bootstrap, scheduler, admin API | exceptions and crashes between any two transactions; `finish` looks at no status; recovery only at start | one refresh owns the publication path; a row has one owner; a success is backed by what was written |
| Personal runs (`tasks/user_pipeline_worker.py`, `repositories/pipeline_runs.py`) | `user_pipeline_runs`, its events | submit under a quota, cancel, claim, publish, requeue, fail | locks, publication, bootstrap, API | count then insert; cancel against claim; no recovery at all | one worker per run and per user; ended runs stay ended; quota |
| Publication of results (`publication/user_results.py`) | `user_job_matches` and summaries, the current flag, the profile's pointer | one merging transaction | personal worker | rows of several runs stay current together | one current result, only published rows of that user, moving forward only |
| Publication of postings (`publication/shared_jobs.py`) | `job_postings` | upsert and deactivate | global worker | which run wrote last | see global refresh |
| First-refresh bootstrap (`repositories/bootstrap.py`) | `user_bootstrap_workflows` | start or get, six marks | API and both workers | spans two queues and five transactions; marks that look at no status | hand-off only after publication, bound to that refresh; at most one open workflow; it ends |
| Configuration bundles (`repositories/preferences.py`, `repositories/configs.py`) | documents, versions, bundle revisions | save, restore, reset, edits of one document, direct update | API, migration triggers, snapshots of personal runs | optimistic concurrency next to edits that do not take part in it | a bundle stays what its documents, versions and pages say; a save replaces what it read; what was asked for is in force |
| Users, entitlements, administration (`services/admin_service.py`, `repositories/entitlements.py`, `repositories/users.py`) | profiles, `entitlement_events`, audit log; the address also in Supabase | register, activate, grant, reduce, expire, suspend, restore, delete, set the address, update the row directly | API, Supabase auth, row-level security | several commits and external calls per operation; two administrators at once; direct updates that write no event and tell Supabase nothing; check constraints that refuse | ledger and audit log explain the expiry; the API and SQL let the same users in; no account that was active is stuck; a deletion stays |
| Authentication (`services/auth_service.py`, `dependencies/authorization.py`) | none of its own | register and its rollback; who is let in | accounts | the rollback | see accounts |
| Acquisition plan and job processing (`pipelines/shared_connector_refresh.py`, `src/processing`) | none | union of the users' documents, pairs to ask, freshness, deduplication | collection | budgets of titles × locations, "no location means all", records that look alike | no user's document hides what another wants |
| Collection, Greenhouse cache, publication of postings (`pipelines/shared_connector_refresh.py`, `connectors/`, `storage/ingestion.py`) | job details, raw, processed and observed rows, marts, `job_postings` | list, fetch, search, retry, record, build, publish | global worker, sources | the sources change and fail while they are asked; the details are remembered before the jobs are published; each step commits by itself | what is wanted and shown is published, from current details, traceably; withdrawn only when unseen for long |
| Dashboard and application statuses (`repositories/jobs.py`, `repositories/dashboard_analytics.py`, migrations 0017 and 0019) | statuses, their events, daily metrics | set a status, publish, read funnel and trend | both publications | triggers compute rows from what a transaction sees; midnight | what is read from stored metrics is what the tables say; the history has no gap |
| Scheduler (`apps/scheduler`) | APScheduler's | one enqueue per fire time | global refresh | misfires | covered by `create_if_no_active` |
| PostgreSQL pool, heartbeat, web, exports, scripts, deployment | own or none | wiring, presentation, tools | | | not modelled, reasons in `PROJECT.json` |

All state of the modelled part is in PostgreSQL; a process keeps only the
variables of the turn it is in. Processes meet through rows
(`for update skip locked`, unique indexes, conditional updates) and session
locks. `apps/worker/main.py` runs one loop: a global refresh if there is one,
else a personal run.

## Modules

| Module | Models | Extends / composes |
|---|---|---|
| `AdvisoryLocks` | lock holders, live or dead sessions | |
| `ConnectorRefresh` | the global queue, its enqueuers and workers | `AdvisoryLocks` |
| `PersonalRuns` | the personal queue, the quota, the publication of results | `AdvisoryLocks` |
| `FirstRefresh` | the bootstrap workflow, the API, and the whole worker | instances of the two above |
| `RefreshPromise` | abstract: the promise a first click makes, and what is shown | implemented by `FirstRefresh` |
| `ConfigBundles` | one user's documents, version rows and bundles, and the requests of several clients | |
| `SettingsRegister` | abstract: one register of whole, numbered settings | implemented by `ConfigBundles` |
| `QuotaWindow` | the quota's day against the clock: 6 AM in New York, two changes of the clock, one user's requests | |
| `Accounts` | an account's row, its ledger, its address in two places, requests of administrators and registration | |
| `Acquisition` | what is asked of the sources and kept of their answers, as operators | |
| `Collection` | global refreshes from the users' documents to the postings, beside sources that change | `Acquisition` |
| `Dashboard` | statuses, matches, postings and the metrics kept of them | |
| `ConnectorRefreshProofs` | theorems about `ConnectorRefresh` | `ConnectorRefresh`, TLAPS |
| `PersonalRunsProofs` | theorems about `PersonalRuns` | `PersonalRuns`, TLAPS |
| `FirstRefreshProofs` | theorems about `FirstRefresh`, the refinements included | `FirstRefresh`, instances of the two proof modules above, TLAPS |
| `ConfigBundlesProofs` | theorems about tables, reads, the register, and what bundles keep of preferences and sources | `ConfigBundles`, TLAPS |
| `AccountsProofs` | theorems about `Accounts` | `Accounts`, TLAPS |
| `QuotaWindowProofs` | theorems about `QuotaWindow` | `QuotaWindow`, TLAPS |
| `CollectionProofs` | theorems about `Collection` | `Collection`, TLAPS |
| `DashboardProofs` | theorems about `Dashboard` | `Dashboard`, TLAPS |
| `MC...` | symmetry sets and finite constants for TLC | the module they are named for |

What composes what: `FirstRefresh` instantiates `ConnectorRefresh` and
`PersonalRuns` over the same writer slots and faults, and is checked to implement
both. `Collection` and `Dashboard` are the insides of single labels of theirs
(`collect` to `publish`, and `build` to `publish`): there one refresh is at work at a
time, which is what the two queue modules show. `QuotaWindow` refines what
`PersonalRuns` leaves open, when the window turns and which run is of which day, for one
user and without what a run goes through. `ConfigBundles` and `Accounts` share
no state with the rest beyond what is read at the start of a refresh.

### How state and actions correspond to the code

One action is one committed transaction, one lock statement or one external
call of the code; between two actions anything may happen, a crash included.

* **Labels.** `cpc[w]` and `ppc[w]` say where worker *w* is in the two
  `process_one` functions; labels are named for what the worker is about to do.
  `InTry` are the labels inside the `try`: an exception there (`Raise`,
  `RaiseInRun`) runs the `finally` clauses and goes to the handler `fail`. A
  failure outside of it ends the process, as does a kill (`Crash`).
* **A failing call** may fail before or after it took effect: raising at a label
  is the failure of the call before effect, raising at the next label the failure
  of the reply.
* **Locks.** A holder is a worker, `Free`, or `Dead`: the session of a process
  that is gone and that PostgreSQL has not dropped. `Drop…Session` is the server
  noticing. All locks are tried without waiting, as in the code. Only sessions of dead
  processes are lost: the lock lives on a pooled connection (`locks.py:32-46`), and one
  that drops while its worker goes on publishing, and so lets a second worker in, is
  not modelled. Every property about locks is under this assumption.
* **Rows** are numbered in the order of creation and start `"absent"`.
  `refresh[r]` is a row of `connector_refresh_runs` with, folded into it, whether
  its audit is planned or final (`audit`) and its source results are recorded
  (`sources`). `prun[p]` is a row of `user_pipeline_runs`; `counts` says that its
  submission lies in the quota window and after the last admin reset, so that the
  next 6 AM and an admin reset are the steps `NewQuotaWindow` and `ResetQuota`.
* **Claims** take any queued row although the code orders by time: `skip locked`
  passes over a row that another transaction has locked at that moment.
* **`clock`** orders the values of `completed_at`, which `latest_successful` sorts
  by. Real time is not modelled: at a restart any set of running rows may be
  overdue, the empty one included.
* **`results[u][j]`** is the run of the row of `user_job_matches` that is current
  for user *u* and job *j*. Publication replaces the rows of matched jobs, drops
  those of inactive jobs, keeps the others.
* **A request** (`req`) is between the statements of `submit_pipeline_run`:
  source chosen, quota counted, row inserted. A source of 0 marks a first refresh.
* **`FirstRefresh`** conjoins, for each call, its part in the global queue, in the
  personal queue and in the workflow table: `MarkGlobalSucceeded` is at once a step
  of a worker of `ConnectorRefresh`, `QueueWaiting` of `PersonalRuns` and an update
  of `wf`. A worker is in at most one half: the labels `Personal` of the one stand
  for the other being at work, `away` conversely. `click` holds a request before
  it reaches the quota.
* **`start_or_get`** counts before it inserts and its three inserts commit
  together (`CreateWorkflow`). A request that finds the index taken goes through
  `WorkflowRefused`, where the code's handler fails too.

`ConfigBundles` is about one user, since users share neither rows nor locks there:

* **A request** of a client is between two transactions of the API. `PutPreferences`
  loads, compares, compiles and commits the aliases; `SaveCommit` or `Conflict` is
  `save_bundle`, under the bundle lock and the row locks. `RestorePreferences` is the
  router's part and `RestoreLoaded` the service's, which loads again. `ResetField` and
  `ResetFieldSaved` are the two transactions of `reset_field`.
* **A bundle is its revision**; its UUID says no more, and 0 is "no bundle" as well as
  the revision of settings whose documents are in no common bundle, as in the code.
* **A document** is a function from settings to values. A field is a leaf path, or a
  group the compiler writes as a whole. `merge_config`, `sparse_override` and
  `_remove_field` are `Merge`, `SparseOverride` and `Without`.
* **Triggers** are part of the updates they complete: `Updated` is the revision
  counter and the trigger that takes an edited document out of its bundle,
  `NewVersions` the version row with its uniqueness (`FreshForBundle`).
* **`page[c]`** is what a client was last shown, and so the revision it may send;
  `asked` is what it did send, nothing being possible too.
* **Failures.** `RequestFails` ends a request between two transactions, or in one that
  is rolled back; what it had committed stays. The answer to a committed save may not
  arrive: the page then keeps what it showed, and may send the same again.
* **`Deploy`** puts another release with other default documents in place of the
  running one. The requests of the old one are lost, the pages stay open.

`QuotaWindow`:

* **An instant** is an hour of UTC, `Instants` those at which something happens; `Tick`
  goes to the next one. `Offset` and `OffsetOf` are the time zone database for New York
  within one year: what it says of an instant, and of a wall clock time with `fold=0`.
* **`Window`** is `pipeline_quota_window`: take the wall clock, go to 6 AM, go a day back
  if that is to come, add a day, and convert both ends last.
* **`run[r].at`** is `submitted_at`, the time the transaction of the request began
  (`req[c].began`), although the window it is counted against is that of `Count`.
  Window and count are one step: a count made just after 6 AM with the window of before
  is a count before 6 AM that sees more completed runs.

`Accounts`:

* **A request** of an administrator is between two calls: the first read, the
  transaction, its row lock (`write`), the revocation of sessions, the second read,
  the audit row. `now` is the time its transaction began: a grant that waits for a
  row lock computes with an older day. `suspend`, `restore` and `soft_delete` are one
  statement without a look at the status.
* **`RowChecks`** are the check constraints: an update they refuse rolls back.
* **`DirectUpdate`** is the `UPDATE` of `user_profiles` that
  `0010_rls_policies.sql:51-56,364-375` grants to administrators beside the API: status,
  dates, deletion and address become anything the checks allow, with no entitlement
  event and no word to Supabase; the trigger of `0009:414-447` audits it. The other
  columns granted (`username`, `role`, the three `last_...`) are in no property of this
  module and left out; `last_successful_pipeline_run_uuid` is the pointer of
  `OneCurrentResult`, which is about what the workers write.
* **`ledger`** is the rows of `entitlement_events` and those of `admin_audit_logs` for
  direct updates, in the order of their commits: the expiry each found and left.
* **The address** is set in Supabase and then in the profile. `entangled` is a history
  variable: two requests set the address of one account at once, and which one wins
  in which place is open. So is `astray`: the last to set it was a direct update.
* **Registration** is the trigger's pending profile, `create_pending_profile` and the
  rollback, which cannot succeed.

`Acquisition` and `Collection`:

* **An opening** is a job in the world; a *record* is what a source says of it, a
  *posting* a row of `job_postings`. Two kinds of source stand for the five: a board
  read whole, with details fetched one by one and remembered, and a search asked, per
  category, for pairs of a title and a location.
* **A document** is its categories and locations; the titles of a category are
  `SearchTitles`. `Limited` is `limited_search_pairs`: of all pairs the first
  `QueryLimit`, title by title, in whatever order the documents give. `Terms` says by
  which titles a search finds an opening. A pair is answered by one page, or not at all.
* **`Similar`** says which ids have records that deduplication takes for one: the same
  link, or one company and location with titles 92 percent alike, also of two openings
  and of one source. It need not be transitive, and what is kept depends on the order
  (`Deduplications`). It does not change when an opening is revised.
* **Dates** have a time: the values without one, which `freshness_decision` compares by
  day, and those that cannot be parsed are left out.
* **`job`** is what the refresh has in memory; `details`, `raw`, `processed`,
  `observed`, `staged` and `postings` are the tables, each written by an action of its
  own, and `FailRun` may come between any two.
* **`world`** is external: openings are posted, revised and withdrawn while the sources
  are asked. A failed request is an empty answer, as `safe_get_json` makes of it, for
  the board, a detail, or any of a category's pairs (`BoardOutage`, `DetailFails`,
  `SearchOutage`); an exception is retried.
* **`staged`** holds one run: dbt takes the rows of the run that are not older than those
  it has (`stg_job_posts.sql:54-56`), and the post-hook `purge_unscoped_shared_rows`
  deletes every other run's. The three models of the shared build have the same hook,
  and are one step, `BuildShared`; a build that fails half way is `FailRun` before it.
* **`owed`** is a history variable: what this refresh was shown and users want.

`Dashboard`:

* **A transaction** is open, has written what nobody else sees, and commits; `day` is
  its `now()`. `RowFree` and `MetricFree` are the row lock and the advisory lock it
  holds until then. Metrics are computed from what the transaction sees at its write.
* **`umetrics` and `gmetrics`** are the daily rows, functions from the days that have one.
* **`late`** is a history variable: something was committed on a later day than it
  began on.

Definitions marked *Mutant* are plausible bugs (a dropped guard, an off-by-one).
No specification uses them; `PROJECT.json` names for every property one that must
make it fail.

## Runs

| Run | Question | Bounds | Result |
|---|---|---|---|
| `ConnectorSafety` | Do the queue and the locks keep one owner, through crashes and recovery? | 2 workers, 2 refreshes, 1 slot, 1 fault | holds, 0.7 million states |
| `ConnectorOrphan` | Does recovery close what dead workers left? | 1 worker, 2 refreshes, 1 fault | violated |
| `PersonalSafety` | One worker per run and user, ended runs and visible results stable? | 2 workers, 1 user, 2 runs, 2 requests, limit 1, 1 job, 2 faults | holds, 0.8 million states |
| `FirstSafety` | Is the hand-off between the two queues right, does the composition implement both, and is what a click promises kept? | 1 worker, 1 user, 1 request, 2 refreshes, 2 runs, no jobs, 2 faults | holds, 0.4 million states |
| `FirstLiveness` | Does every refresh and first refresh end? | 2 workers, 2 refreshes, 1 personal run, no fault | holds, 0.1 million states |
| `FirstBoundSource` | Is the refresh of a run at work a successful one? | 2 workers, 1 refresh, 1 run, 1 fault | violated |
| `ConfigSafety` | Do documents, versions, bundles and pages agree, implement one register, and keep what was asked for when defaults change? | 1 client, 2 releases, 3 bundles, 1 edit outside of bundles | holds, 0.1 million states |
| `ConfigStaleUpdate` | Is every stale update rejected? | 2 clients, 2 releases, 3 bundles, 2 edits | violated |
| `QuotaSafety` | Is the window the local day, is the allowance back when the page says, and how far does a day exceed its limit? | 1 request at a time, 4 runs, limit 1, 7 instants over 4 days, 1 reset | holds, 0.4 million states |
| `AccountsSafety` | Do ledger, access rules and addresses agree beside several requests and direct updates, and can accounts come back but deletions stay? | 1 user, 2 requests, 2 addresses, 2 days, 2 events or direct updates (dates: none or day 3), 1 fault | holds, 2.9 million states |
| `CollectionSafety` | Is what users want published, current, traceable, and not withdrawn too soon? | 3 openings on 2 sources, 3 titles, budget 2, 2 refreshes, 3 ticks, 2 events of the sources, 2 attempts, 2 faults | holds, 6.7 million states |
| `DashboardSafety` | Do the stored metrics say what the tables say? | 1 user, 2 jobs, 2 status updates at once, 2 days, 3 changes, 3 refreshes, 1 fault | holds, 0.8 million states |

What the properties say is in the comment before each of them. In short:

* `PublicationPathOwned`: from its publication to its unlock, the postings were
  last written by the run of that worker, whatever others do or lose.
* `OneOwnerPerRun`, `WorkerOwnsRunning`, `OneWorkerPerUser`: rows and users are
  served by one worker; the errors the code raises against the contrary never are.
* `OneScheduledActive`: enqueuers that look for an active run exclude each other.
* `SuccessIsBacked`: what a personal run may be bound to was published and audited.
* `NeverRunAgain`, `EndedRunsStay`: ended is ended. For global runs only up to the
  kind of end, since `finish` overwrites; for personal runs exactly.
* `ResultsOnlyMoveForward`, `OneCurrentResult`, `CurrentRowsPublished`: failures keep
  the previous results; current rows are published rows of that user.
* `WindowIsLocalDay`, `ResetsAsPromised`: across the changes of the clock the windows are
  days of New York without gap or overlap, and `resets_at` is kept.
* `DayOverrunBounded`: count and insert are two statements, so the current day may have
  one run per request beyond its limit; requests that begin before 6 AM and count after
  it add as many to the day before. Both bounds are reached: with one less TLC finds a
  counterexample.
* `HandOffReady`, `WorkflowConstraints`: the workflow moves on only with its own,
  published refresh; its index and its check constraint are never what ends an update
  other than the two modelled refusals.
* `ImplementsConnectorRefresh`, `ImplementsPersonalRuns`: the two halves of a worker,
  with the other hidden, are the workers of the two queue modules.
* `ImplementsPromise`: for a user all of it is a promise (`RefreshPromise`): one is open
  at a time, it may fail and be resumed, but nothing gives it up; it counts as delivered
  only from a moment at which the user is shown the results of the very refresh the
  click started, and whatever is shown comes from published jobs.
* `FirstRefreshEnds`, `QueuedRunEnds`: what was queued ends.
* `DocumentsMatchBundle`, `ComponentHistoryComplete`: a document that claims a bundle
  is, in content and revision, what the bundle says, and each bundle has exactly one
  version row per type; a personal run's snapshot names a bundle on this ground.
* `NumberedReads`, `SaveReplacesWhatItRead`: what a page shows under a revision stays
  what that revision is; a save that had loaded a revision replaces just that, and
  what the page whose revision it sent shows.
* `SavedPreferencesApply`, `RestoreKeepsGenerated`: storing only the difference from
  the defaults, and merging it with others later, loses no value that was asked for
  or generated.
* `ImplementsRegister`: all tables and requests together behave like one value with a
  number (`SettingsRegister`).
* `LedgerReplays`: each event, and each direct update in the audit log, starts from the
  expiry the entry before it left, and the last one left today's. The events alone do
  not replay: a direct update writes none.
* `AccessRulesAgree`: the rule in Python, the rule in row-level security and the days
  the account page counts decide alike, to the instant of the expiry.
* `ActivatedCanReturn`: no sequence of operations and direct updates takes an account
  that was activated to where the check constraints refuse whatever would bring it back,
  unless such an update dated the activation into the future.
* `EmailsAgree`: both places know the same address, but for a request under way, a
  failure, two requests at once, or a direct update as the last to set it.
* `DeletedStays`: only a restore that had read the account before its deletion revives
  it, or a direct update.
* `WantedJobsPublished`: what a source showed this refresh, is fresh and is wanted by a
  user, is an active posting afterwards, or a duplicate of it is, of a source no later in
  the order; whatever other sources do and whatever an earlier refresh that failed has
  left in the cache. If all that users name for a category fits its budget, the search
  owes what any of its titles finds; beyond the budget, what the pairs that were asked
  find.
* `StoredDetailCurrent`: a remembered detail that would be used has the board's content.
* `PostingsAreTraceable`: a posting names a refresh that stored a raw record of just that
  content, and observed the job, although it is upserted over an older one and several
  refreshes may have failed in between.
* `WithdrawnWhenUnseen`: an outage or a failed refresh withdraws nothing.
* `FunnelIsLive`, `TrendIsExact`: the numbers read from stored metrics are those of the
  tables, for any window.
* `StatusHistoryChains`: the events of a job are one chain up to its status.

**Why these bounds.** Every property relates at most two workers, two rows or a
row and a request. Two workers show each interleaving of a pair; two refreshes
let one be requeued, closed or overtaken while the other is at work; two requests
beside a run at the limit count, complete and insert in each order. One writer slot
for two workers makes the slots run out and is what production sets
(`USER_PIPELINE_MAX_CONCURRENCY=1`). The queue modules are proved for any number of
all of these. One fault, anywhere, reaches every handler; a second lets a handler
fail too, and in `FirstSafety` it takes two for a user with a completed workflow to
find no successful refresh (`NoSharedData`). `FirstSafety` has one worker, because what
two workers do to each other in one queue is in the runs of the queues, whose steps
its own are (`Implements...`); `FirstLiveness` has two. `MaxRetries` is the column's
default 3. The bounds are guards: rows run out (`MaxRuns`, `MaxPersonal`), `Fault`
stops (`MaxFaults`). Jobs are one or none in the queues, since the merge treats each
job by itself. Symmetry of workers, requests and jobs is used for safety only.

For the settings, one page beside edits of single documents shows each pair of writes;
three bundles are the seed, one saved and one that restores or overwrites it; with two
releases the defaults change once, or back and forth. Two types tell a document in a
bundle from one out of it, and one type compiled from the current document from one
compiled from the default. One edit (`MaxEdits`) takes a document out of its bundle;
`ConfigStaleUpdate` has two clients and two edits, because its question is about
documents that are in no bundle.

For the quota's day, the clocks change on the second and on the fourth of the days, so
windows of 23, 24 and 25 hours follow one another; instants just before and at each 6 AM
are where a window can be wrong. A client that asks again while its run is at work, and
once more over 6 AM, needs no second one; four runs are one more than the bound.

For accounts, two days and activations good for two let an expiry fall on, before and
after the day a transaction began; two events are the least for which one can start
from what another left; a direct update may clear a date, keep it, or write one beyond
the last day. For the collection, one opening is carried by both sources and
looks alike on them, one of the search alone looks like it too, and a third does not;
the engineer has two titles at two locations and a budget of two, so that pairs are cut,
also in the platform's own query when no user is active; there is a user open to all
locations beside one who is not; two refreshes with a failure between them let the second find
what the first left in the cache and in the warehouse; three ticks pass window and
retention, which are one each. That the cases of duplicates and of the budget are
reached was tried: without `Similar` in the property, with every category counted as
within its budget, or with `<` for `<=` between the ranks, TLC finds a counterexample. For the dashboard, two days let a transaction cross
midnight and a window begin before the first row; three refreshes are a shared, a
personal and one more of either.

Deadlock is checked, except in `CollectionSafety`, `DashboardSafety` and `QuotaSafety`: there the
world ends when its bounds (ticks, instants, events, refreshes, changes) are used up, and no
action is left.

**Fairness.** A worker that can go on does, and is started again when it died
(`restart: unless-stopped` in the compose files), and PostgreSQL drops dead
sessions. No one has to enqueue, click or cancel, no fault has to occur, the
quota window need not turn. Strong fairness is not assumed: a worker that is refused a lock
requeues and claims again, and since the one that holds the lock makes progress,
weak fairness per worker suffices. `FirstRefreshEnds` assumes with
`RefreshesInTime` that no refresh still at work is closed as overdue by another
worker that starts; the code can do that (`fail_stale_running` looks at age only)
and then the workflow of the closed row is on its own. With a fault neither liveness property
holds, because nothing in the code picks up a workflow or a personal run whose
worker died.

## Disagreements

1. `OrphansAreClosed` (`repositories/connector_runs.py:183`). Recovery runs once, at
   start, and only on rows older than `connector_refresh_max_seconds`. A worker
   restarted sooner leaves its row running; `create_if_no_active` refuses from then on.
2. `BoundSourceIsSuccessful` (`tasks/connector_refresh_worker.py:168`). A call that
   fails after the hand-off makes the handler overwrite the completed refresh as
   failed, while the personal run bound to it is queued and runs.
3. `StaleUpdateRejected` (`routers/preferences.py:113`, `repositories/preferences.py:240`).
   A restore compares the page's revision in the router and then loads again with
   nothing to compare: what was written in between is overwritten (the trace). A save
   has the same gap when its documents are in no common bundle: the revision is 0
   before and after an edit. `docs/releases/v1.0.0.md:153` says that stale updates are
   rejected. `SaveReplacesWhatItRead` is what remains true, and is proved.

Met on the way and modelled as they are:

* `docs/releases/v1.0.0.md:342` says that four refreshes per user and window are
  enforced. Count and insert are two statements (`pipeline_runs.py:85`): a run that
  completes in between is not counted, and the limit is exceeded by as much as
  `DayOverrunBounded` says.
* `reset_field` (`configs.py:208`) reads a document in one transaction and writes the
  whole override in another; an edit in between is lost, where `v1.0.0.md:152` speaks of
  targeted resets.
* A restore merges the source's generated settings over the current defaults, so
  settings the defaults gained since are in the restored document; the comment at
  `preferences.py:433-434` speaks of the exact document. `RestoreKeepsGenerated`
  is what holds.
* `sparse_override` (`compiler.py:63`) says that it retains explicit clears of
  mappings, but a mapping with no difference gives `None`, so an emptied one is not
  kept.

* `mark_global_failed` and `mark_personal_failed` update whatever status the workflow
  has, so a late failure reopens a completed one, and beside an open workflow of the
  same user the unique index refuses and the exception leaves `process_one`
  (`ReopenRefused`). The handler of the unique violation of `start_or_get`
  (`bootstrap.py:200`) selects inside the transaction the error has aborted: of two
  racing first clicks one gets an internal error (`WorkflowRefused`), where
  `README.md:328` promises the workflow.
* `failed_retryable` workflows are retried by nothing (`bootstrap.py:312`); cancelling
  the queued run of a first refresh (`pipeline_runs.py:216`) leaves its workflow
  `personal_queued`; a crash between `finish` and `mark_global_succeeded`
  (`connector_refresh_worker.py:132`) leaves a successful refresh whose workflow waits.
* `is_completed` is read by itself (`routers/pipeline_runs.py:58`), before the
  transaction that acts on it (`Submit`).
* Accounts: the rollback of a registration deletes the Supabase user, which cascades to
  append-only configuration versions and therefore fails. `suspend` commits, then
  revokes the sessions, then audits; a failure leaves a suspended user with live
  sessions, or a change without the audit row that `0008_activity_and_audit.sql:27-28`
  speaks of. An account expired, or reduced to nothing, before its first activation can
  be neither activated, granted days nor restored. A direct update changes the expiry
  without an entitlement event and the address without Supabase.
* Collection: a source that is down gives empty answers and so the status `completed`
  (`docs/releases/v1.0.0.md:185` lists per-source results). If every source is
  `partial`, the run is `failed` although its jobs were published
  (`shared_connector_refresh.py:784-797`). A title that comes after the budget of its
  category is used up may never be asked for (`http_utils.py:124-130`). A record is
  dropped when any kept one before it has its link, or its company and location and a
  title 92 percent alike (`deduplicate.py:50-61`): it may be another opening, also of the
  same source, and then a user is shown only the one. This is within one refresh only:
  found in different refreshes both stay active postings, where `README.md:43` and
  `v1.0.0.md:190` speak of deduplicated jobs. A
  changed title or location changes the `job_id`, and the old posting stays until it is
  overdue. Countries are not aggregated.
* Dashboard: what crosses midnight is in neither day's new count
  (`0019_dashboard_daily_new_jobs.sql:255-258`); matches of a posting that has become
  inactive are shown until the user's next refresh (`Visible`); a page of jobs is
  ordered by columns that need not be unique, and counted in another transaction
  (`jobs.py:1591`); summary rows whose key is missing from a newer result stay current
  (`user_results.py:361`).

## Proofs

The runs check the properties that could be wrong; that every variable keeps its type is
proved instead, in all modules.

`ConnectorRefreshProofs` proves, for any finite or infinite set of workers and any
values of the bounds, from `WorkersAssumption` and `BoundsAssumption` alone:

| Theorem | Property |
|---|---|
| `TypeCorrect` | the types, and a worker in the `try` has a row claimed |
| `GlobalLockExcludes` | at most one worker is under the global lock |
| `PublicationPathOwnedAlways` | `PublicationPathOwned` |
| `OneOwnerPerRunAlways` | `OneOwnerPerRun` |
| `NeverRunAgainAlways` | `NeverRunAgain` |
| `OneScheduledActiveAlways` | `OneScheduledActive` |
| `SuccessIsBackedAlways` | `SuccessIsBacked` |
| `LocksGivenBackAlways` | outside of its "with" blocks a worker holds no lock and no slot (no run checks it) |

The argument: `TypeInv` adds to the types that a worker with a label inside the
`try` has claimed a row, without which an update of "its" row would mean nothing.
`LockInv` says that a worker whose label is in `InGlobal` holds the global lock;
one holder then gives exclusion. `PublicationPathOwned` alone is not inductive,
because a second worker might publish: with `LockInv` none can be at `publish`
while another is past it (`PathInv`). For the rows, `OwnerInv` says that
a claimed row which its worker may still requeue is running or ended and claimed by no one else; a
claim takes a queued row, which nobody then has. `RowSteps` says what a step may
do to the status of one row (claim it, give it back, end it), and
`NeverRunAgain` and `OneScheduledActive` follow from it case by case. For
`SuccessIsBacked`, `BackedInv` follows the row of a worker that has not finished it:
it is not successful yet, its audit is final from "sources" on and its sources are
recorded at "finish". Others can only close that row as failed, since it has one
owner; that it was published is `PublicationPathOwned`. `SlotInv` says which slot a
worker holds at which label: none outside of the blocks, one inside.

`PersonalRunsProofs` proves, for any users, jobs, workers, finite set of requests and
any limits, from `WorkersAssumption` and `PersonalAssumption`:

| Theorem | Property |
|---|---|
| `TypeCorrect` | the types, and a worker holds a row exactly while it is in `process_one` |
| `EndedRunsStayAlways` | `EndedRunsStay` |
| `WorkerOwnsRunningAlways` | `WorkerOwnsRunning` |
| `OneWorkerPerUserAlways` | `OneWorkerPerUser` |
| `OneCurrentResultAlways` | `OneCurrentResult` |
| `CurrentRowsPublishedAlways` | `CurrentRowsPublished` |
| `ResultsOnlyMoveForwardAlways` | `ResultsOnlyMoveForward` |
| `UserLocksGivenBack` | who holds a user lock works on a run of that user (no run checks it) |
| `QuotaOverrunBoundedAlways` | used, active and admitted stay within the limit and one per request (no run checks it) |

The argument: every step leaves the table of runs as it is or moves one row along its
life (`TableSteps`), which is `EndedRunsStay`. `RowInv` adds what the unique index
gives over time: rows are created in order, and of one user only the last may not have
ended. `OwnInv` is that a row is held by one worker, and is running while its worker
works; a requeue gives it up in the same step, and a cancel takes queued rows only.
`LockInv` says that who works under a user lock holds the lock of the user of its row,
also after another session was lost and not yet dropped; `BackInv` is the converse.
`ResultInv` then needs only
that the run which publishes is the last of its user, so what becomes current is newer
than all that was. The bound on the quota is inductive by itself, given that a user
has at most one active run: whatever a step does is one of four things to the sum of
counted runs, active runs and admitted requests (`Fewer`, `Admits`, `Creates`,
`Completes`), and only an admission, below the limit, adds to it.

`FirstRefreshProofs` proves, for any users, jobs, workers, finite set of requests and
any limits, from `WorkersAssumption` and `FirstAssumption` (which asks for at least
three retries: the default of the column, which nothing sets otherwise), every
property `FirstSafety` checks:

| Theorem | Property |
|---|---|
| `GlobalQueueImplemented` | `ImplementsConnectorRefresh` |
| `PersonalQueueImplemented` | `ImplementsPersonalRuns` |
| `PromiseKept` | `ImplementsPromise` |
| `HandOffReadyAlways` | `HandOffReady` |
| `CompletedIsPublishedAlways` | `CompletedIsPublished` (no run checks it: `PromiseKept` says more) |
| `WorkflowConstraintsAlways` | `WorkflowConstraints` |
| `LocksAreGivenBack` | `NothingHeldBeyondWork`: one slot at most, under the one lock of what is worked on (no run checks it) |
| `TypeCorrect` | the types |

The argument: `Halves` couples the labels of the two halves of a worker: one works only
while the other is away, and both are down together. With it each action is, for
either queue, a step of one worker, a request, or a stutter. The global queue needs
nothing else (`GlobalNext`). The personal queue needs `BootInv`, that what is marked has
a workflow with a run, and that rests on invariants of the global queue, which the first
refinement carries over: `CP` is the instance of `ConnectorRefreshProofs`, whose lemmas
are cited for the steps of the whole. The second refinement carries over those of
`PersonalRunsProofs` (`PP`) in the same way.

What each queue knows of its locks then holds of the whole (`LockedInv`), and with
`Halves` a worker holds the global lock or a user lock, never both, and a slot only under
one of them: a lock stays taken only by work or by a session not yet dropped. The guard
of `GlobalTakesSlot` that the worker has no slot yet therefore refuses nothing.

For the hand-off, `Linked` says that refreshes with the bootstrap trigger, workflows and
bootstrap runs are one to one to one; `MarkOk` and `BootHolds` that a worker about to
mark a workflow marks its own, with the result the queues have recorded.
`WorkflowSteps` then reduces every step to one of six: no workflow changes, one is
added, or one is marked running, failed, bound or as the personal queue went
(`WorkflowMark`). Case by case `HandOffReady` is inductive, `OneOpen` holds since each
mark that reopens a workflow passes `MayReopen`, and `RetryInv` counts: only the worker
that has claimed a refresh marks it failed, once under the lock and once more if a later
call raises (`Spent`), so the counter ends at two: the table's check, which allows
`max_retries`, is never violated and no workflow becomes `failed_terminal`.

`PromiseKept` maps each mark of a workflow to a step of the promise of its refresh, a
publication of either kind to `Publish` or `Show`, and the rest to stutters. "Delivered"
asks that the user is shown the promised refresh when `mark_personal_completed` runs,
which is two commits after the publication: between them another run of the user might
have replaced the result. `ShownInv` (in `PersonalRunsProofs`) says that none can: the
worker holds the user lock from one to the other. That the source of what is shown was
published is `SourcesPublished`, which needs to know where a run takes its source
from: `SourceSteps` says it is the request's, or the bound refresh's, and `BackedInv`
that a refresh one may be bound to was published; `OwnRuns` says that a workflow and its
run are of one user. That no promise is given up is `RetryInv`, that a user has one
promise at a time `OneOpen`. The abstract `Fail` may take back what was delivered, since
the code does (a failure after `mark_personal_completed`), but nothing shown is hidden.

`AccountsProofs` proves, for any users, addresses, requests and days, from
`AccountsAssumption`, every property `AccountsSafety` checks:

| Theorem | Property |
|---|---|
| `TypeCorrect` | the types |
| `AccessRulesAgreeAlways` | `AccessRulesAgree` |
| `ActivatedCanReturnAlways` | `ActivatedCanReturn` |
| `DeletedStaysAlways` | `DeletedStays` |
| `LedgerReplaysAlways` | `LedgerReplays` |
| `EmailsAgreeAlways` | `EmailsAgree` |

The argument: `RowInv` says that every row passes its check constraints and, unless a
direct update wrote it (`Edited`), was activated no later than now, `RequestInv` that a
request is about an account that exists and that what it read under the row lock is
still so, `LockInv` that a row is locked by one request. That a ledger starts where it
left off is the last two: nobody else, not a direct update either, writes the expiry
between the locked read and the update. Every step leaves a row, or is `Enters`,
`Addressed`, `Operated` or `Directly` for it (`RowStep`); the last appends what it found
and left by itself, in one statement with its trigger. `EmailInv` is `Agreed` for every
account nothing went wrong with, and last addressed by a request: one request at most
sets its address, and between Supabase and the profile it carries the address Supabase
has. A step is calm for an account or is one of `Asks`, `TellsAuth`, `TellsProfile`,
`Signs` and `Upserts`.

`QuotaWindowProofs` proves, for any hours of the two changes that are at least a day
apart and at 2 AM, any offset, instants, limit and finite set of requests, from
`QuotaAssumption`, every property `QuotaSafety` checks:

| Theorem | Property |
|---|---|
| `TypeCorrect` | the types (no run checks them) |
| `WindowIsLocalDayAlways` | `WindowIsLocalDay` |
| `ResetsAsPromisedAlways` | `ResetsAsPromised` |
| `DayOverrunBoundedAlways` | `DayOverrunBounded` |

The argument: `SixAM(k)` is 6 AM of day *k*. Whatever the clocks do, these instants
increase, and between two of them the wall clock shows the times of one day (`Between`);
so a window is from one to the next (`DayIs`) and follows the one before (`Windows`).
`TimeInv` says that nothing is dated later than now, hence at the start of a window
nothing counts. For the bound, `DayInv` speaks of every day: runs that count or are at
work and requests admitted (`Load`) stay within the limit and one more per request while
the day is the current one, and with the requests that began in it and have not counted
within two per request for good. A count that lets a request in found less than the limit
completed, and the user has at most one run at work (`OneActiveRow`), so the requests
come on top of the limit. All this assumes one clock for the API and the database: the
code takes the window from the one and `submitted_at` from the other.

`ConfigBundlesProofs` proves, for any documents, payloads,
releases, clients and bounds, from `ConfigAssumption` (some type exists, payloads and
releases are documents), every property the configuration runs check:

| Theorem | Property |
|---|---|
| `TypeCorrect` | the types (no run checks them: TLC has what it needs from the others) |
| `DocumentsMatch` | `DocumentsMatchBundle` |
| `HistoriesComplete` | `ComponentHistoryComplete` |
| `ReadsNumbered` | `NumberedReads` |
| `SavesReplaceWhatTheyRead` | `SaveReplacesWhatItRead` |
| `RegisterImplemented` | `ImplementsRegister` |
| `SparseRoundTrip` | merging the stored difference with the same defaults gives the settings back |
| `AliasesFirst` | the aliases of a bundle are in the catalog (no run checks it) |
| `PreferencesApply` | `SavedPreferencesApply` |
| `RestoresKeepGenerated` | `RestoreKeepsGenerated` |

The argument: `IInv` is `Settled /\ Tables /\ Reads`. That a document matches its
bundle and that a bundle's version rows are complete need each other and one fact
more, `VersionsBehind`: no version row is ahead of its document's revision. With
it an update always adds a row that is new, so a bundle gets its row per type;
without it the trigger's "unless there is one" might drop a row. `CoherentRevision`
is then the number of the one bundle all documents are in (`Coherence`), bundles and
their rows never change (`Grows`), and so what was read under a number stays right
(`Reads`). `SavesReplaceWhatTheyRead` needs in addition that a request which sent a
revision was compared with it (`Asked`); a restore is exempt, see *Disagreements*.
The refinement maps a save to `Replace`, an update of one document to `Edit`, every
other step to a stutter. For the history, a request about to commit must still carry
what was compiled or loaded, for the same defaults: `Kept` says this of requests and
bundles together. That `Deploy` loses the requests is what makes it inductive:
overrides compiled for one release are never committed under another.

`CollectionProofs` proves, for any openings, categories, users and documents, finitely
many titles and locations, any likeness of records and any bounds, from `AcquisitionAssumption` and `CollectionAssumption`,
every property `CollectionSafety` checks:

| Theorem | Property |
|---|---|
| `CollectionIsConsistent` | the types and the rest of the inductive invariant |
| `StoredDetailsAreCurrent` | `StoredDetailCurrent` |
| `PostingsTraced` | `PostingsAreTraceable` |
| `WithdrawnOnlyUnseen` | `WithdrawnWhenUnseen` |
| `WantedArePublished` | `WantedJobsPublished` |
| `PublishedOnceAlways` | the rows one publication upserts are of different jobs (no run checks it) |

The argument: what the sources list only moves forward (`WorldMoves`), so that a detail
fetched for an update is of that update or of a later one, and the store, which keeps
the date of the update it was listed with, never takes an old content for a new one
(`DetailInv`). `RowsInv` says that the rows of a run nest (an observed row has its
processed row, a processed row its raw one), belong to runs that have been, and that a
later run's are not dated earlier: so dbt's condition on the age refuses no row of the
run it is built for, and after the purge `staged` is that run's rows, no more and no less
(`BuiltRows`). `SeenInv` says that a posting was last seen no earlier
than any published run observed it, which is what its withdrawal is measured by,
although the rows dbt has of those runs are gone. For
`WantedJobsPublished`, what is owed is followed through the refresh: a listed opening is
waiting, missed, resolved or too old (`ResolveInv`); within the budget the plan asks for
what any active user wants (`PlanInv`, `WantedAsked`), also when one user opens the
query to all locations, since a pair per title costs no more than one per title and
location (`OpenIsCheaper`), and the filter lets it pass (`WantedMatches`);
then it has a record (`ShownInv`), a row, a staged row and a posting (`KeptInv`). A
record that looks like another one may be dropped, but only for a kept one no later in
the order of the sources, and that one is published (`DeduplicatedStands`). That a refresh keeps one
record of a job, whatever it retried, is `OnceInv`.

`DashboardProofs` proves, for any users and clients, any finite set of jobs and any
bounds, from `DashboardAssumption`, every property `DashboardSafety` checks:

| Theorem | Property |
|---|---|
| `TablesAreConsistent` | the types, and what transactions have locked and read |
| `MetricsAgree` | the inductive invariant of tables and metrics |
| `HistoryChains` | `StatusHistoryChains` |
| `FunnelStaysLive` | `FunnelIsLive` |
| `TrendStaysExact` | `TrendIsExact` |

Metrics are cardinalities, hence the finite set of jobs: a table has finitely many rows.
The argument: `Exclusive` says that of two transactions which have written, none share a
row of `user_job_statuses` or a day of a user's metrics, so that what one read under its
lock is still so when it commits (`TxInv`, `SharedInv`, `PublicationInv`).
The history is a chain for that reason alone. `PendingInv` says that a row computed but
not committed yet counts what the tables will hold once it is; with it `GlobalExact` and
`UserExact` are inductive as long as nothing is late: every stored row counts what first
happened on its day, and the newest row what there is. Every day something first
happened on has a row, and before the first row nothing had (`GlobalEmpty`,
`UserEmpty`), which is why the trend may show zero on a later day without one and the
funnel may read an older row; the window of the trend starts from the
greatest row before it (`SeriesShows`). A late commit breaks `PendingInv`, not the count
of first applications (`CountedInv`): it is taken from the event's own day, and an event
of another day makes nothing a first application of this one.

Only model-checked: the liveness properties, `FirstRefreshEnds` and `QueuedRunEnds`,
which with fairness and ENABLED are beyond this prover, as is induction over the data
structures a recursive definition computes.

## Not modelled

See the inventory and the components of `PROJECT.json`. In the modelled components:
run events and public messages; that a snapshot of the configuration is read together;
title and alias expansion, validation and the options of preferences; the history
pages; users imported by migration 0015 with documents they had before; the SQL of
matching and scoring (any choice among the postings); the summary tables; the
validation of rows before publication (a failure there is a failing call); clocks
that jump, or differ between processes; a lock's session that is lost while its worker lives; the year's end in `QuotaWindow`, which has one
year; `freshness`, which unlike
`latest_successful` looks at runs dbt did not build (`connector_runs.py:370`); the
legacy `run_scheduled_connector_refresh`, which enqueues without the check.

Of accounts: those of administrators, the Demo profile, limits of retention, the lists
of the admin page, the other columns of a direct update. Of the collection: the row of `raw.ingestion_runs`, error rows,
batches cut off half way, the legacy `write_processed_jobs`, paging within one request,
scores, salaries and the parsing of locations. Of the dashboard: search, facets and
the local repositories for development. Row-level security is modelled as far as it
decides who is let in, not which table is open to whom.

## What is left

`freshness` as an operator.
