# A formal model of Madar's work behind the requests

Madar is a web platform for organisations (data sources and dashboards, forms,
learning, commerce, calendars, notifications, CV ranking). Most of its 3700 files
handle one request over one row of a database that enforces the rest. What is hard
about it goes on *behind* the requests: durable queues whose rows are claimed by several
worker processes, retried after crashes and edited by their owners in the meantime;
imports and checkpoints that write to an object store and a database; the erasure of an account whose
work is fenced by files; and blue/green releases of the platform itself. This directory
models those parts in TLA+, checks the models with TLC on small instances, and proves
their main properties with TLAPS for every value of the constants.

Contents: [the system](#the-system) · [the plan](#the-plan) ·
[the modules](#the-modules) · [runs](#what-the-runs-check) ·
[bounds](#bounds-and-why-they-are-enough) · [fairness](#fairness) ·
[proofs](#what-is-proved) · [disagreements](#where-the-code-disagrees-with-its-documents) ·
[known races](#known-races) · [known weaknesses](#known-weaknesses) ·
[abstractions](#abstractions) · [not modelled](#what-is-not-modelled)

Paths below are relative to `src/web/` unless they begin with `src/`. Migrations are
named by their number (`157` is `database/migrations/157_*.sql`).

## The system

Three kinds of process share one PostgreSQL database: API processes, worker processes
(notifications, calendar, ingestion, account lifecycle, data deletion), and the release
programs of the host. Workers never talk to each other: they meet in rows, through
SQL functions that claim, finish and sweep, and, around an account, in lock files. The CV
reranker is a service of its own, with its own database, API and worker. Releases meet the
rest only by starting and stopping its containers.

| component | state it keeps | operations | who it meets | what is hard | what makes it correct |
|---|---|---|---|---|---|
| CV reranker: ranking jobs | `ranking_jobs`, `job_documents`, `document_contents`, `ranking_results` | create, cancel, delete; claim, process, recover | workers by status and `heartbeat_at`; clients by the row | nothing fences the owner of a job; a request decides on a status read earlier; retries work on half-done rows; caches are shared by jobs | one worker for a job; attempts bounded; outcome agrees with documents; terminal stays terminal; every job ends; no reference to a deleted cache row |
| CV reranker: stored files, cleanup | files in staging, storage and trash, named by rows | stage, commit, trash, restore, retention script | ranking jobs | a file operation and a commit are not one step | no row without its file, no file for ever without a row |
| CV reranker: sessions, rate limits | refresh token families, counters | login, refresh, revoke, count | clients that retry | lost answer to a refresh | a token is used once; reuse is detected |
| notification outbox and deliveries | `notification_outbox`, `notification_deliveries` | enqueue, claim, resolve, send, acknowledge, sweep, clean up | producers all over the backend; the recovery hold | leases expire under a live worker; providers accept and the answer is lost | a result is accepted from the present claim only; a resolution is all or nothing; every row ends |
| account recovery hold | `account_status`, action rows | freeze, reactivate, guard | every queue that holds a user's rows | a freeze races with claims and resolutions | nothing waits for a frozen account |
| calendar reminders | `calendar_task_reminders`, `calendar_event_reminders` | schedule, record outcome, roll forward, edit | outbox, owner's requests | every read and write is a statement of its own | outcomes are honest; a reminder moves on only after it was sent |
| calendar tasks at the provider | `calendar_tasks`, `calendar_events`, `calendar_task_sync_jobs`; the event and its marker | edit, link, unlink, archive, delete; enqueue (merge), claim, look up, push, finish, sweep | external calendar, inbound synchronization | merge into a job being processed; finish without a fence; an event created and the answer lost | one event for a task; a task leaves only after its event; every job ends |
| calendar connections | `calendar_sync_connections`, its cursor, `calendar_connection_sync_jobs` | enable, schedule, claim, list, apply, store the cursor | external calendar | a crash between listing, applying and storing | no change lies behind the cursor unapplied |
| remote ingestion, storage of imports | `data_source_ingestion_runs`, `storage_reservations`, `storage_objects`, objects in the bucket, the cursor | reserve, fetch, store, attach, complete, compensate, reconcile | provider, object store | calls carried out after their caller gave up; two actors compensate one run | a committed run keeps its object; a failed one leaves none; imports do not overtake each other |
| automatic synchronization | `data_source_sync_schedules` | configure, claim, execute, complete, recover | imports | the claim and its import end separately | success means committed; every claim ends |
| dataset checkpoints | `data_dataset_checkpoints` with attempts and leases, their storage reservations and objects, the latest version of the resource | request, claim, prepare, reserve, write, attach, publish, settle, reconcile | ingestion, storage of imports | an attempt outlives its lease while a reconciliation works on the same row; a failed attachment is compensated | a published checkpoint keeps its object; the resource points at the newest; every request is settled |
| storage quota | reserved and used bytes | reserve, commit, release | everything that stores | abandoned reservations | counted bytes agree with stored bytes |
| account lifecycle, erasure, work fence | lock files, hold markers, `account_lifecycles167`, restore epochs and floor | share, exclude, hold, deactivate, delete, reactivate, erase, finish; admit a snapshot | every worker; object store, identity provider; restores | a lock file is unlinked while another process opens it; the last steps span files and database | no work beside an erasure; nothing comes back; the hold outlives a failing finish |
| data deletion requests | deletion requests and steps | request, cancel, claim, step (switched off: migration `167` hands the work to the account lifecycle) | account lifecycle | a cancellation raced with the first step | cancelled means untouched |
| webhook ingestion | deliveries, endpoints | accept, claim, ingest | ingestion | duplicates | ingested once |
| billing and entitlements | subscriptions, checkout requests, features | checkout, provider events, admin grants | payment provider | events out of order, stale reads | paid access matches the last event |
| login, MFA, verification | pending MFA challenges, codes | challenge, verify | identity provider | retries, expiry | a code is used once |
| request rate limiting | counters in Redis or memory | count | every request | unlocked fallback | the limit |
| parquet cache | file pairs per version | publish, verify, clean up | analysis workers | clean-up between verify and read | a reader sees a whole pair |
| BI dashboards and reports | dashboards, shares, report runs | edit, share, schedule, export | notification queues | like the notification queues | like the notification queues |
| data analysis; e-learning; commerce, builder, websites | rows of one tenant | request handling | | | database constraints |
| release deployer and traffic switch | `state.json`, `worker-ownership.json`, the containers of two slots, the loaded proxy route | deploy, roll back, recover, refresh the workers | Docker, the proxy, the systemd timer | the deployer dies between any two steps, and between two files that must agree | queue workers of one release only; the serving release stands until its successor is accepted; a release is settled, or stranded in a known way |
| provider recovery, migrations, control-plane upgrades | evidence files of one host | prepare, migrate, recover, upgrade | operator | interrupted one-off operations | complete or undone |
| API wiring; web and mobile user interfaces; acceptance tests | none of interest here | | | | |

`PROJECT.json` lists the same components with their files, and the places where the code
is exposed to an order of events a test would hardly produce (its "hazards"), with the
properties here that watch them.

## The plan

The order is by how much of the system's correctness hangs on the component and how
little a test can say about it.

1. **Ranking jobs** (done): `RankingJobs`, `RankingJobsProofs`.
2. **Notification queues** (done): `AtLeastOnce`, the promise of a leased queue;
   `NotificationQueue`, which implements it; `NotificationQueueProofs`.
3. **Calendar reminders** (done): `CalendarReminders`, which composes the reminder, its
   owner and the notification queues; proved with them.
4. **Calendar synchronization** (done): `CalendarTaskSync` and `ConnectionSync`,
   `CalendarTaskSyncProofs` and `ConnectionSyncProofs`.
5. **Account work fence and erasure** (done): `WorkFence`, what the fence promises;
   `AccountErasure`, which implements it; `AccountErasureProofs`.
6. **Remote ingestion and its schedule** (done): `SourceIngestion`, `AutomaticSync` on top of
   it, and `IngestionProofs` about both.
7. **Releases** (done): `ReleaseDeployment`, `ReleaseDeploymentProofs`.
8. **Dataset checkpoints** (done): `DatasetCheckpoints`, `DatasetCheckpointsProofs`.
9. **Reranker file store** (open): create, delete and the retention script as steps over files
   and rows, composed with the rows of `RankingJobs`. Worth proving: a row names a file that
   exists.
10. **Reranker sessions** (open): abstract specification: one live token a family.
11. **Quota counters** (open): the counted bytes are the sum of the stored and the reserved,
    and what `reconcile_storage.py` corrects.
12. **Billing, parquet cache** (open), in this order.

Every safety property that a run checks is a theorem. Of the liveness properties the half
that needs no fairness is proved for jobs, notifications and checkpoints: no session, row or
attempt goes on for ever. Left: that a job which is not `Wedged` has a step enabled.

## The modules

| module | models | against |
|---|---|---|
| `RankingJobs` | reranker queue, worker and job requests | `backend/cv_reranker/app/services/jobs/worker.py`, `workers/ranking_worker.py`, `api/routes/jobs.py` |
| `AtLeastOnce` | what a queue with leases and numbered claims promises | the abstract specification |
| `NotificationQueue` | outbox, deliveries, resolvers, senders, recovery hold | migrations `073`, `085`, `157`, `159`, `167`; `backend/workers/notification_worker.py`; `services/notification_*` |
| `CalendarReminders` | task reminders on top of `NotificationQueue` | `backend/services/calendar_reminder_service.py`, `routes/calendar_routes.py`, the two batch functions of the worker |
| `CalendarTaskSync` | a task, its event at the provider and the job queue between them | migration `068`; `backend/services/calendar_task_sync_queue_service.py`, `routes/calendar_routes.py` |
| `ConnectionSync` | the inbound synchronization of a connection | migration `069`; `backend/services/calendar_connection_sync_queue_service.py`, `calendar_sync_service.py`, `workers/calendar_sync_worker.py` |
| `WorkFence` | what the account lock and the hold promise | the abstract specification |
| `AccountErasure` | work fence, lifecycle and erasure of an account, restore boundary | migration `167`; `backend/services/account_work_fence.py`, `account_erasure_service.py`, `account_restore_boundary.py` |
| `SourceIngestion` | imports of one resource, their storage and their reconciler | migrations `056`, `150`, `152`, `154`, `156`; `backend/data_analysis/services.py`, `backend/services/project_source_ingestion_service.py` |
| `AutomaticSync` | the leased schedule, on top of `SourceIngestion` | migration `156`; `backend/services/automatic_source_sync_service.py` |
| `DatasetCheckpoints` | checkpoints of one dataset, their storage and their reconciliation | migrations `056`, `153`, `154`; `backend/services/project_dataset_checkpoint_service.py`, `backend/data_analysis/services.py`, `backend/scripts/run_dataset_checkpoint_worker.py` |
| `ReleaseDeployment` | blue/green releases and their recovery | `deployment/lib/release_deployer.py`, `deployment/bin/madar-release-deploy`, `madar-switch-traffic` |
| `...Proofs` | proofs about the module of that name; `NotificationQueueProofs` also about `CalendarReminders`, `IngestionProofs` about `SourceIngestion` and `AutomaticSync` | |
| `MC...` | values for the constants, and scenarios | |

### RankingJobs

One action is one transaction. The worker commits often, and between two commits other
workers and requests run. A worker's program counter `pc` names the statement it is about
to execute:

```
recover -> claim -> begin -> next -> lookup -> extract -> link -> chunk -> index -> next ...
                              |                (LinkContent)                (DocumentReady)
                              +-> batch <-> predict ... -> attach <-> store ... -> finish
                                      \-> unscored -> finish        (InferenceFails)
      any check may lead to  -> cancelling -> recover
```

`status`, `heartbeat`, `attempts`, `progress`, `docs`, `contents` and `results` are columns
and rows; `local[w]` is the SQLAlchemy session of the worker. The session matters:
`expire_on_commit=False`, only `status` is refreshed (`_cancelled`), so `processed_files`
and the document statuses the worker decides by are its own copies (`count`, `view`). Time
is the three values of `heartbeat`: NULL, recent, older than the cutoff. A request is two
actions, a read and a write, because `owned_job` and the update are separate statements;
`request[c]` holds what was read. `Crash` stands for the death of a process and for every
database error that reaches the loop of `ranking_worker.py`.

### NotificationQueue

One action is one SQL function call or one provider call. `outbox` and `delivery` are the
two tables; a row has its status, its `attempts`, its `claim_generation` and the bit `due`,
which is whether `available_at` (for a waiting row) or the lease (for one in processing)
has passed. `SweptAndLent` is a claim call: it gives up exhausted rows and lends one row
under the next number. `Held` is the WHERE clause of every finish call: status, number, and
a lease that still runs. `resolver[w]` and `sender[w]` are what a worker thread carries
between its calls. `accepted[d]` is the provider's memory, which is not in the database: the
claims under which it accepted the delivery. `Freeze`, `Reactivate` and the two `...Guarded`
operators are the part of migration `167` that acts on these tables: the freeze kills the
user's rows and bumps their number; the trigger aborts any transaction that writes one.
Where an action's guard says that no due row is guarded, the code's statement raises and
changes nothing.

`AtLeastOnce` forgets leases, workers and numbers: an item is open, done, dropped or
forgotten; claims are bounded; each claim has one effect at most; done needs the effect of
the last claim. `Promise == INSTANCE AtLeastOnce WITH ...` maps `phase` to the row's status,
`claims` to `attempts` and `effects` to `accepted`.

### CalendarReminders

Extends `NotificationQueue` with the reminder row, the task row and three more kinds of
process: schedulers (`enqueue_due_calendar_reminders`: read the due reminders, read the
task, call the enqueueing function, and update the reminder once more), the worker threads'
second job (`closing`: read the deliveries of the message, write the outcome), and the owner's
request (`update_task`, then `sync_task_reminder`: read, write). A message *is* an
occurrence, as in the deduplication key. The guards carry no more than the WHERE clauses do.

### CalendarTaskSync

One action is one call: of the data API, of a function of migration `068`, or of the
provider. `plan` is the task, whose content is its version; `entry` the `calendar_events`
row it was last linked to; `queue` the last row of its job queue, since the unique index
allows one active row and later calls touch no other (`unsettled` remembers what an older
row ended as, which is all that deleting the task asks). A worker's `syncer[w].step` names
its next call:

```
claim -> load -> lookup -> push -> save -> mark -> complete -> finish
             \-> delete -> tombstone -> finish       any failing call -> retry | fail | reconcile
```

`lookup` asks the provider for events that carry the task's marker (`marked`), `push`
patches the one that is known or inserts one, and each provider call has two failing
forms, one that changed nothing and one whose answer was lost. The inbound synchronization
of the same connection, which may patch or insert the event without a marker, and a removal
of the event at Google are actions of the environment. `disturbed` is a history variable: it
remembers which of three things happened that the marker does not protect against: a worker
outlived its lease, the inbound queue created the event, or a patch was answered 404 and became
an insert.

### ConnectionSync

The provider's changes are numbered. `conn.cursor` is the number the stored token stands
for, `conn.copy` the number the local rows reflect. A job reads the connection, marks it,
lists (all pages, from the cursor or from the beginning when the provider has forgotten the
token), applies, stores the cursor, reports; all are actions, and a worker may die or a
call fail between any two. The scheduler and the owner's request enqueue and then mark in
two calls, as the code does.

### AccountErasure

`account_lock` is modelled step by step, because everything else rests on it: take the
registry lock shared, look whether the lock file exists, open it (making it only if the
account may still be registered), lock *that inode* without waiting, look at the hold marker, and let the
registry go. `fence.inode` is the file's identity, 0 when the path is absent; `actor[a]` has the inode a
process has opened, in which mode it holds it and the registry. Work (`BeginWork`,
`WriteFile`, `EndWork`) holds the file shared; the administrator and the lifecycle worker
hold it exclusively and publish the hold marker. An erasure is then one action per database
function and provider call, from the inventory over files, the stored object and the identity to
`finish_account_fence`, which takes the registry exclusively, unlinks lock and marker,
completes the lifecycle, and puts both back if that fails. `boundary` and `snapshot` are the
restore epochs: what a snapshot was taken between decides whether it is admitted.

`WorkFence` says what all of that is for, in the words of the docstrings of
`account_work_fence.py`: workers share the account, a manager has it for itself, no work starts
while it is shut nor ever once it is closed, and it is closed once, by a manager that finds it
shut and empty. `Fence == INSTANCE WorkFence WITH ...` maps `holder` to the modes of
the locks, `shut` to the hold marker, `closed` to the absence of the users row and `data` to the private files;
the registry, the inodes, the leases and the rest of the database are not in it. Its
`Share` needs `~closed` where the code never asks for the users row of a lock file that exists:
that the marker says as much is what the refinement shows.

### SourceIngestion and AutomaticSync

A run is an idempotency key. `run[r]` is its row, `stored[r]` its reservation, its storage
object and the object in the bucket, `importer[r]` the process that executes it. The steps
of `importer` are the calls of `process_upload` in their order, with every `except` branch:
what is dropped, resolved, completed or compensated after which failure, and what is
answered. `LateCompletion` is a completion that the database carries out after its caller
has given up on it; `reconciler` the batch program that takes over runs whose lease ran out.
`AutomaticSync` EXTENDS this module: `schedule` is the leased row, a claim's fence number
is the key of its run, and manual imports run beside it.

### DatasetCheckpoints

`checkpoint[c]` is the row for one revision of the dataset, `transfer[<<c, n>>]` what its
attempt `n` left in the accounts and in the bucket, and `latest` what the resource points at.
The content of a checkpoint is determined by its revision, so that only its presence is kept.
`builder[b].step` is the next call of a process of `run_dataset_checkpoint_worker.py`, which
either materializes a claimed row or reconciles an expired one:

```
prepare -> reserve -> track -> write -> commit -> attach -> publish
                                                     \-> resolve -> drop      publish -> recover
inspect -> verify -> finish -> adopt -> republish        any failing call -> http -> retry | fail
       \-> unreserve -> retry                            what cannot be told -> ambiguous
```

`Rpc` says once what any call of the database may do: take effect and answer, take effect and
lose its answer, or fail without effect. The process stands for the lease token it was given
last; a process whose lease ran out goes on (`CheckpointLeaseEnds` beside `AtWork`) until a
call refuses its token. Two calls do not look at the token: the compensation of a failed
attachment (`Drop`), held back by the trigger of migration `154` only, and reading a row.

### ReleaseDeployment

`activeSlot`, `knownGood` and `release` are `state.json`; `authority` is
`worker-ownership.json`; `stack`, `consumers` and `traffic` are the host: which commit's
containers stand in a slot, what its queue workers do, and where the loaded route leads.
`deployer.at` names the next operation, `deployer.mode` on which way it is: forward, or one
of four ways back. One action is one operation or one file written, so that `Die` can come
between any two, also between the authority and the state file. Reading the host
(`Ownership`, `Serving`) and deciding by it are separate steps where they are in the code.
`Falter` and `Warm` are Docker: containers become unhealthy, are restarted and come back.
`RefreshWorkers` is the operator's `refresh_active_workers`.

### Scenarios

`MCServices` puts five services side by side that share no state, and lets each behaviour be
about one of six parts: the two notification queues, a task, a connection, a release, and
the erasure twice (`erasure`: one eraser and all actions of the administrator;
`erasers`: two erasers and an archive, but one action). `MCReminderScenarios` does the same
for reminders: two endpoints without edits, or edits with one endpoint. The constraint
`OneJobWhenStalled` of `MCRankingJobs` lets a live worker outlive its heartbeat only where one
job is left.

## What the runs check

Passing runs; the numbers are distinct states.

| run | question | properties | states |
|---|---|---|---|
| `ranking_retry` | Do claim, heartbeat, recovery and requests fit together without a fence? | `TypeOK`, `AttemptsBounded`, `OneWorkerPerJob`, `OutcomeMatchesDocuments`, `OutcomeIsFinal`, `EveryJobSettles` | 958 thousand |
| `ranking_scenarios` | Can a deletion take a cache row away from another job? What is left when a live worker outlives its heartbeat? | `CacheReferencesHold`, `ProgressBounded` | 2.8 million |
| `reminders_scenarios` | Is a message resolved into all its deliveries at once, is a recorded outcome what happened to them, and does the reminder move on only after it was sent, while the owner edits? | `ReminderTypeOK`, `DeliveriesOfResolved`, `OutcomesAreHonest`, `RollsForwardAfterSending` | 3.2 million |
| `services` | Are results fenced whatever expires, crashes or is frozen, is a task's event created once and removed with it, is no change skipped, do work and erasure keep to the abstract fence and does nothing come back, do two releases never consume the same queues, and does everything that was begun end? | `ServicesTypeOK`, `SentByPresentClaim`, `NoWorkForFrozen`, `DeliveredAtLeastOnce`, `MarkedEventOnce`, `NothingSkipped`, `NothingResurrected`, `FenceKept`, `ErasedStaysErased`, `HoldRestored`, `WorkersFollowAuthority`, `ActiveTargetUntouched`, `RestIsConsistent`, `RemovedWithItsEvent`, `RowsSettleFairly`, `JobsSettleFairly`, `ConnJobsSettleFairly`, `ErasureSettlesFairly`, `InterruptionsSettleFairly` | 483 thousand |
| `ingestion` | Do imports, compensations, the reconciler and the schedule agree on what was committed? | `CommittedObjectKept`, `NoStorageLeft`, `CursorStaysPut`, `SuccessIsCommitted`, `RunsSettle`, `ClaimsSettle` | 389 thousand |
| `checkpoints` | Does a published checkpoint keep its object over attempts, compensations and reconciliations that overlap, and is every request settled? | `PublishedObjectKept`, `LatestIsNewest`, `CheckpointsSettle` | 279 thousand |

The other six runs find a counterexample each: see
[below](#where-the-code-disagrees-with-its-documents). Every property of a passing run is
also tried against a mutant, a definition of the model changed the way a plausible bug would
change the code (a lease not compared, a counter not reset, a sweep that misses the last
attempt, a state file believed instead of the route); the mutants stand in the modules next
to what they mutate, and TLC finds the property violated with each.

Deadlock is checked for `RankingJobs`, whose workers poll for ever. It is not for the
others: when all rows are settled and the bounds are used up, the system has nothing
left to do.

Five of the properties need their exceptions read. `MarkedEventOnce` holds until one of the three
disturbances happens, `RemovedWithItsEvent` until one of the first two does; `HoldRestored` excepts a process that dies
inside the finish, `InterruptionsSettle` excepts the seven states `Stranded` names, and
`CheckpointsSettle` the state `Unpublishable` names: all are what the code does, described under [known weaknesses](#known-weaknesses). The
exceptions say exactly what is lost; everything else holds.

## Bounds and why they are enough

*Ranking.* Two attempts (`MaxAttempts = 2`) are the least for which a retry, a retry of the
last attempt and the refusal of a third exist. Two documents give an order of ranks, a tie
(`MCScore` gives the two equal scores), one success next to one failure, and one cached result next to
an uncached one. Two workers are what a double claim needs; two clients are what a race of
requests needs (cancel against delete, both on an earlier read). The caches are shared
between *jobs*, so `ranking_scenarios` has two jobs and one document. Identifiers are never
reused, and the number of jobs bounds creation; `MaxActive` and `MaxStored` are the limits in
the settings.

*Notifications.* In `services` one message for one endpoint, two resolvers, two senders and two
attempts: a late worker meets the holder of the next claim in both queues. Two endpoints
of one user are in `reminders_scenarios`, where a resolution makes two deliveries that
end in either order; two users, one frozen, in `notifications_broadcast`. Several messages with
several endpoints and users at once are covered by the proofs only. Purged
rows are not enqueued again, which bounds the claims.

*Reminders.* Two occurrences are a roll-forward and its end. One attempt: the number of
attempts is the queue's affair. Two endpoints and two senders for outcomes, where
deliveries of one message end in either order; one of each for edits, where all
four kinds interleave.

*Calendar tasks.* Two versions, so that an edit meets a job of the version before; two calls
of the owner (link and edit, edit and delete, unlink and link again); two events at the
provider, which is one more than there should be; two job rows and two tries, so that a
lost answer is followed by a retry and an ended job by another. One synchronizer without
outlived leases: workers meet through the row after a crash, and a worker that outlives its
lease is known to break the marker (`finish` tests the status only), which `MarkedEventOnce`
excepts. The proofs are for any number of synchronizers, with and without outlived leases.

*Connections.* One change, two jobs, two tries and one interval: a job that dies after each of
its calls, its retry, and a second job that begins at the stored cursor.

*Erasure.* One writer, one failure, two actions of the administrator and one retry before an
erasure is blocked; two erasers for one of the parts, since a lease that ran out gives the
claim to another one while the first still runs.

*Ingestion.* Three keys, of which two are claims of the schedule: a claim, its successor after
recovery, and a manual import beside them. One change at the provider makes a cursor
conflict possible, two faults a failing compensation.

*Checkpoints.* Two revisions finish in either order. Two processes: one that outlived its
lease and one that reconciles or retries the same row. Two attempts: a retry that finds what
the first left behind, and a last one. Two breaks (a failing call, a death, an outlived
lease): a failing attachment whose compensation fails, or whose process is overtaken.

*Releases.* Two commits (deploying the known good one again is refused, so that two alternate),
two releases and three faults: the release after an interrupted one, with its recovery
interrupted once more. Three releases with four faults give 53 thousand states, and the same
result; the proofs cover any number.

Symmetry is used for workers, jobs and senders in runs without liveness.

## Fairness

`RankingJobs!Fairness`: a worker that can take a step takes one, since the loop of
`ranking_worker.py` catches every exception and never returns, and a restarted container
begins it anew; a heartbeat of a job that no worker holds grows old, since time passes.
Requests and crashes are not fair: `EveryJobSettles` holds whatever they do, because every
crash costs an attempt. Fairness of the *disjunction* of a worker's steps leaves open which
branch a failing call takes.

`NotificationQueue!Fairness`: leases run out and retries fall due (wall-clock time in the
database); some worker claims each row that stays claimable (the worker polls for ever, and
the claim takes the oldest rows first, so none is overlooked for ever); sweeps
happen (every claim call makes one); a call that was begun ends, in success, in failure or by
the death of its process.

`SyncFairness`, `ConnFairness`: the main loop of `calendar_sync_worker.py` schedules, polls and
ends what it began; leases and delays run out. Nothing is assumed of the owner, of deaths
or of the provider.

`ErasureFairness`: the lifecycle worker polls and goes on; work and administrators that hold
the fence end what they began, since a request ends and the kernel drops the locks of a
process that dies; leases end.

`IngestionFairness`, `AutomaticFairness`: an import goes on to its end or dies; leases run out;
the reconciler is run again and again by its timer; the schedule's recovery is the first
thing every batch does.

`CheckpointFairness`: the timer starts the command every minute, which claims the expired rows
and then the pending ones, oldest first, so that each row that stays claimable is claimed by
some process; a call ends, and the service manager ends a command that hangs
(`TimeoutStartSec`); leases run out. Nothing is assumed of the answers, so that an attempt
may fail at every call.

`ReleaseFairness`: the process that holds `deploy.lock` goes on, and after its death the systemd
timer enters `deploy` every two minutes, which recovers first; Docker's restart policy brings
failing workers back. A release is not begun fairly.

In `MCServices` the five liveness properties have the form `part /\ Fairness => liveness`, each for
the behaviours of its own part and with the fairness of its own service. No strong fairness is assumed anywhere.

## What is proved

All proofs are checked by `tlapm` to the last leaf, with Z3, Zenon and LS4, for every value
of the constants that satisfies the module's assumption: any number of jobs, workers,
clients, users, messages and endpoints, any finite non-empty set of files, any retry limit
above zero; any number of changes, runs, revisions, releases, faults and deaths; any finite sets of
writers and erasers.

`RankingJobsProofs`:

- `TypeCorrect`: `TypeOK`, which includes `HoldingOK` (a worker holds a job exactly while
  `process()` runs, and a document while it handles one). Inductive as it stands. `WorkerStepType`
  has a step for each of the worker's actions.
- `RetryLimit`: `AttemptsBounded`, also when workers stall. The bound on `attempts` alone is not
  inductive, since a claim adds one without testing; what carries it is that a *queued* job has
  an attempt left, which recovery tests, and (`AttemptsInv`) that a row not yet created has none.
- `SingleOwner`: `OneWorkerPerJob`, if no worker stalls. The strengthening `OwnerInv` says that
  the job a worker holds is in none of the statuses from which it could be claimed again (queued, not
  yet created, or finished) and has no stale heartbeat: no claim takes it and no recovery releases it.
- `OutcomesFinal`: `OutcomeIsFinal` as an action property, under the same condition and from
  `OwnerInv`.
- `OutcomesHonest`: `OutcomeMatchesDocuments`, under the same condition. The outcome is decided on the
  session's copies, which the worker never reads again. `InStep` says that they are what the
  rows hold, which only the exclusion of a second worker makes true; `PhaseInv` says, for each
  phase of `process()`, which documents have failed, are prepared, or are completed and
  counted, so that at `finish` all are completed and counted or one has failed. That the ranks
  of the completed documents are exactly 1 to their number follows without induction: a rank is one more than the
  number of documents before it, different documents have different ranks, and an
  injection of a finite set into one of the same size is onto.
- `CachesConsistent`: `CacheReferencesHold`, also when workers stall and two sessions work on one
  job. `CacheInv` adds that a job that does not exist refers to nothing, and that each session
  has made its job's documents refer to the content it goes on to score (`LinkedInv`): so the
  request that counts references before it deletes a row finds these.
- `ProgressWithinTotal`: `ProgressBounded`, also when workers stall. Two sessions overwrite each other's
  count; each stays within its budget (`BudgetInv`): what it has counted and what it has still to count
  are together no more than the files, and a document is left over by counting it.
- `EverySessionEnds` and `EverySessionIsAnAttempt`, also when workers stall (`SessionsEnd`,
  `SessionsAreAttempts`): a step of a worker with a job ends the session or lowers `Distance`, which is at
  most `9 * |Files| + 5`, and nobody takes a job without counting an attempt within the limit. So
  the workers take finitely many steps for a job, however often they crash. That the distance falls at
  the end of a document rests on `BudgetInv`: the document at hand is still to do.

`NotificationQueueProofs`:

- `TypeCorrect`: `TypeOK`. The invariant adds `Numbered`, without which a claim number could outgrow its
  type: the number of a row that is alive, absent or sent is its attempts (only a freeze
  takes it one further, and kills the row); and `HeldRows`: a thread that works holds a row.
- `FencedResults` and `SingleHolder`: `SentByPresentClaim` and `OneHolderPerClaim` (two
  threads never work under one claim; proved, and in no run any more), from
  `ClaimedInv`. Its heart is `LoanOK`: the number in a sender's hands lies between one and the
  attempts of its row, the provider has not accepted that number before it is sent, and has
  when the sender reports "sent". So the number of the next claim is new to the senders and to
  the provider, and a result that passes `Held` is the present holder's.
- `ResolvedAtOnce`: `DeliveriesOfResolved`; `FrozenStaysQuiet`: `NoWorkForFrozen`.
- `RowsAreFinite` (`RowsRunDown`): every write of a row, by claims, results, sweeps, freezes or the
  cleanup, lowers `WritesLeft`, which begins at `4 * MaxAttempts + 4`. It rests on `Quiet`, the list
  of what can happen to a row: a result comes only while the lease runs, and a row falls due only once
  for each lease or wait.
- `QueueImplementsPromise`: `Spec => Promise!Spec`. Each step of the queues maps to a `Move`
  of the deliveries, to an `Effect`, or to a stutter.
- `RemindersRunTheQueue`: `ReminderSpec => Spec`, so that all of the above holds for the messages of
  reminders; `ReminderDeliveriesResolved` is an example.
- `HonestOutcomes` (`OutcomesAreHonest`), `RollsForwardOnceSent` (`RollsForwardAfterSending`) and
  `ReminderTypeCorrect` (`ReminderTypeOK`). A worker reads the deliveries in one call and writes the
  reminder in a later one. What it carries in between must stay true although senders, sweeps and
  other workers go on: `ReminderInv` says of each worker that is about to write that
  its outcome is the one of the deliveries and that they have all ended (`Conclusive`), and
  `EndedRowsStay` that a row at its end changes no more once its message is resolved. That its
  message *is* resolved comes from `DeliveriesOfResolved`; a resolution that came later could
  add deliveries.

`CalendarTaskSyncProofs`: `EventMarkedOnce` (`MarkedEventOnce`), `TaskOutlivesEvent`
(`RemovedWithItsEvent`), `TaskTypeCorrect`. `TaskInv` has, beside the types, three parts, each under
the disturbances it depends on. `Alone` (no lease outlived): one worker at most is between
its claim and its finish, and the row it works on is the present one. `Sole` (nothing at all):
every event that the task or a worker knows of was marked, and a worker that is about to insert one
has found none with the marker, which stays so because it is alone. `Severed` (a patch may have
been an insert): a worker that deletes is about to delete the event of the present row, and after
that call the event is gone. The attempt to prove the first property showed the third disturbance:
see the calendar tasks under [known weaknesses](#known-weaknesses).

`ConnectionSyncProofs`: `ConnectionTypeCorrect`, and `NoChangeSkipped` (`NothingSkipped`). That the
cursor never passes the copy is not inductive; `Held` says that, while no lease was
outlived, one worker at most is busy, and what it carries between its calls: the cursor it
read is not ahead of the stored one, the listing it applies is not behind it, and at the step
that stores the new cursor the copy is at least what was listed.

`AccountErasureProofs`: `ErasureImplementsFence` (`FenceKept`), `FenceSuffices`,
`WorkNeverMeetsErasure`, `NothingComesBack` (`NothingResurrected`), `SnapshotsStayErased` (`ErasedStaysErased`), `HoldSurvives`
(`HoldRestored`), `ErasureTypeCorrect`. `ErasureInv` has four parts. `Locked` is about the lock
file: whoever has it open has the present one, because it is opened and locked under the shared
registry and unlinked under the exclusive one only, so that an exclusive holder is alone,
although the path may be unlinked and made again. `Fit` says what the holder has done so far at each of its steps; it
stands because nobody else can touch it. `Lasting` is what the rows say once it has let go.
The refinement has one lemma for each group of actions (`TakeLockFenced`, `WriterFenced`,
`AdminFenced`, `EraseFenced`, `FinishFenced`). Taking the lock is the step that needs the invariant: `Locked`
makes the file's lock exclude all holders and not only those of the same inode, and `Lasting`
makes the marker stand in for the users row. `FenceSuffices` proves of `WorkFence`
alone that a closed account is empty and has nobody at work.

`IngestionProofs`, about imports alone: `CommittedObjectStays` (`CommittedObjectKept`),
`CursorNotOvertaken` (`CursorStaysPut`), `IngestionTypeCorrect`. `IngestionInv`: `Good` relates row, storage and
importer of one run (an object is attached only after it was committed, stays while a
committed run refers to it, and is in the bucket while it is active); `OneImport` the runs with
each other and with the cursor; `ErasingDeleted` says that the reconciler erases only what it
has released. `Moves` shows that a step of a run leaves the other runs alone.
`FailedImportLeavesNothing` (`NoStorageLeft`) needs more: a run is called failed by its importer, by
the late end of a call it has given up on, or by the reconciler, and at that moment somebody else
may be on the way to commit its object. `StorageInv` says that a run reserves once and has
an object only by the commit of its reservation (`Accounted`), that a manual import comes to an
error without an object or with one its run refers to (`Owned`), and that the reconciler settles
a failure only for storage that is spent, which then stays spent (`SettlesSpent`).
`CommittedOnce` and `CommittedOnceBesideClaims` (`CommitsOnce`): the row of a run that is over is
never written again, and the resource moves only with the end of one run, by one revision and
never back. A completion may be carried out by the importer, by the database after the importer
gave up, or by the reconciler; `CommitInv` says what each of them has seen, and that the run which the
reconciler is at is under way and lost to its importer (`Investigated`).

The same module, about the schedule beside them: `SuccessesAreCommitted` (`SuccessIsCommitted`), `AutomaticTypeCorrect`
(`AutomaticTypeOK`, which is proved and in no run),
`ImportsBesideClaims`, `CommittedObjectKept` and `CursorStaysPut` for the composition, and
`FailedBesideClaims`, `NoStorageLeft` for it. The keys of claims to
come are unused, and a run that is attached is the present claim's; what the schedule does to a
run is one of `SourceIngestion`'s own moves, so that its invariants are not proved twice.

`DatasetCheckpointsProofs`: `PublishedStays` (`PublishedObjectKept`), `NewestPublished`
(`LatestIsNewest`) and `CheckpointTypeCorrect` (`CheckpointTypeOK`, which the runs leave to the proof). That a
published object stays is not inductive, because a process acts on what it did steps ago.
`CheckpointInv` adds what holds of each file (`Whole`: an object in the accounts has a
committed reservation, an active one is in the bucket), what a process relies on at each
step (`Sound`: before the commit, its own attempt has no object that a row could refer to; a reconciler that
is about to adopt has seen an active one), that attempts not begun have stored nothing
(`Untouched`) and that one process works on an attempt until it has written (`Alone`). The lemmas
`StepMoves`, `FileMoves`, `RowMoves`, `ClaimMoves` and `PublishMoves` say what a change of one
process, file or row leaves of each part; then there is one lemma for each action.
`OutcomesFinal` (`OutcomesStay`): a row that is ready, failed or ambiguous is never written again,
and one that is not has begun at most `MaxMaterializations` attempts. `EveryAttemptEnds` (`BuildersEnd`): a
process with a row leaves it or lowers `StepsLeft`, eleven at most, whatever call fails.

`ReleaseDeploymentProofs`: `SingleConsumer` (`WorkersFollowAuthority`), `TargetUntouched`
(`ActiveTargetUntouched`), `Rest` (`RestIsConsistent`), `ReleaseTypes`. None of the three is
inductive: what a step may do depends on what the deployer has read or written before, and a death
leaves all of it half done. `ReleaseInv` has one part for what stands whoever died
(`Shaped`, `Standing`, `Fenced`, `Resting`) and one for what each step of a living deployer
finds (`InMode`, `Authorized`, `Placed`, `Seen`). `EndsWell`, `BrokenOff` and `RaiseKeeps` say
once what an end, a death and an exception leave; `Written` says it of a write of the
authority; `SwitchSafe`, `DeactivateSafe` and `ActivateSafe` of the three operations that move traffic or
workers; then there is one lemma for each action.

What stays with TLC: all liveness (`EveryJobSettles`, the properties `...Fairly`, `RunsSettle`,
`ClaimsSettle`, `CheckpointsSettle` and the refuted ones), since liveness under fairness is out of the
provers' reach; `ServicesTypeOK`, the conjunction of types that are each proved for their own module.
What recursive definitions over data compute could not
be proved either; the modules have none. Of `EveryJobSettles`, `EveryRowSettles` and
`CheckpointsSettle` the proofs have the half that says that things come to an end (`EverySessionEnds`,
`RowsAreFinite`, `EveryAttemptEnds`); that a step towards the end is enabled and taken is TLC's. The properties
of these three, `SessionsAreAttempts`, `CommitsOnce` and `OutcomesStay` are defined beside their proofs and in
no run. The refinements of `AtLeastOnce` and `WorkFence` have no fairness:
that an open item is closed in the end is `EveryRowSettles`, checked directly.

The theorems assume the named assumption of each module about its constants and, where it is said
above, `~StallsAllowed`: that no worker outlives its heartbeat, which `job_stale_after_minutes` is
chosen for. Without it TLC finds `OneWorkerPerJob`, `OutcomeIsFinal` and `OutcomeMatchesDocuments`
violated (one job and two workers are enough); the other theorems about the ranking queue hold all the same.

## Where the code disagrees with its documents

Each is a run that must fail, with the line of the repository it contradicts in
`PROJECT.json`.

- `ranking_cancel_stuck`: a cancellation that was decided on "processing" and is written
  after recovery released the job leaves `cancellation_requested` with no heartbeat. NULL is never older than the
  cutoff: the job is never finalized, cannot be deleted, and
  counts as active. `EveryJobSettles` names this state (`Wedged`) and shows that it is the only
  way to stay active.
- `notifications_broadcast`: a member in the recovery hold is still an active member, so a
  message for everyone selects it; the trigger aborts the whole resolution, again and again,
  until the message is dead for all members.
- `reminders_rewind`: saving a task rewrites `scheduled_for` from the first occurrence; a
  reminder that has rolled forward is set back to one that was already delivered.
- `reminders_outcome_lost`: nobody repeats the update of a reminder whose worker died after
  the delivery ended.
- `ingestion_unknown`: when the storage object of an import could not be attached, it is
  released, and the caller is told that the outcome is being reconciled. Every reconciliation
  then fails to attach the released object and leaves the run processing; since a resource has one
  active run, no import of it begins any more.
- `release_recovery`: a deployer that dies while the candidate serves is to be recovered by
  leading the traffic back first. The workers of the slot it leads to were stopped at the
  cutover, and the traffic switch refuses a slot whose workers are not available: every later
  deployment raises there.

## Known races

The models have these as the code has them. No document promises otherwise, so no property is
stated; they are listed for the maintainers.

- *Active-job limit* (`backend/cv_reranker/app/api/routes/jobs.py:181`). `create_job` counts, stages
  uploads, and inserts: `ReadForCreate`, `CreateJob`. Two requests may both find room.
- *Deletion of a job claimed meanwhile* (`jobs.py:422`). `delete_job` tests the status it
  read; a worker may claim the queued job before the row is deleted. The worker then meets no
  row (`RowVanished`) and goes on with the next job. What must hold all the same is `OneWorkerPerJob` and
  `CacheReferencesHold`, and they do.
- *Cancellation of a job claimed meanwhile* (`jobs.py:401`). `cancel_job` decides on "queued" and
  writes "cancelled" over "processing". The worker looks only for "cancellation_requested":
  it finishes, and the job ends completed although the client was told it was cancelled. This is why
  `OutcomeIsFinal` speaks of completed and failed jobs, not of cancelled ones.
- *Deletion of a shared result* (`jobs.py:431`). Counting the references of a cached result and
  deleting it are separate statements. The model takes them in one step; between the two,
  another transaction may attach the result, and the foreign key clears its reference.
- *Reminder queued without a message* (`backend/services/calendar_reminder_service.py:325`). The second
  update names the row and the status only (`FollowUp`). If the owner moves the task
  between the two, a reminder that was scheduled anew becomes queued without a message. The branch
  is taken when the data API wraps the answer of the function in a list (`ListAnswers`).

## Known weaknesses

What a failure or a death in an unlucky place leaves behind. The models show these
unless it says otherwise; the properties that come near them name them as exceptions.

- *Ranking* (`worker.py:204`): when inference fails, documents whose result was in the
  cache end neither completed nor failed, in a finished job. `OutcomeMatchesDocuments` allows
  for it.
- *Notifications* (`073:485`, not modelled): the retention clean-up deletes a batch in one
  statement, the oldest rows first; one row of a frozen user aborts the batch every time.
- *Calendar tasks.*
  A version merged into a job that is being processed (`068:105`) is not sent, while the task shows
  "synced"; a merged deletion is lost likewise.
  A deletion job whose event is not known to the task leaves the event at the provider.
  The inbound synchronization inserts events without the marker. A patch answered 404 or 410 turns
  into an insert that nobody has looked for, since the lookup is made only for a task without a known event:
  an event that exists beside the known one (marked before an interrupted deletion or
  an unlinking, or inserted when the answer was lost) gets a second one with the marker beside it.
  A job that ended superseded, failed or in reconciliation makes deleting the task
  impossible (`068:42`).
  A job whose attempts ran out in a sweep stays active, is never claimed and keeps others from being
  inserted (`068:157`): `JobsSettle` names it `OutOfTries`.
  A worker that outlived its lease finishes the row whoever holds it (`068:221`).
- *Connections.* A connection left pending, syncing or failed without an active job is not
  scheduled again until its owner asks. Workers that overlap may leave an older copy behind
  a newer cursor. A request merged into a job in processing is answered by a listing begun before it.
- *Erasure.* A lifecycle worker that dies between unlinking the lock file and completing the
  lifecycle (`account_work_fence.py:134`) leaves no fence: registration is refused, so that every
  later claim fails until the erasure is blocked, and the hold is absent. A process
  that dies after it published the hold leaves it without a lifecycle; a lost answer to the
  freeze removes the marker of an account that is frozen. A reactivation that is sent
  again for an *earlier* lifecycle removes the marker of the present one
  (`account_erasure_service.py:110`; not modelled, there is one lifecycle at a time).
- *Imports.* The automatic synchronization reports a failure for every outcome, also for
  "unknown" (`automatic_source_sync_service.py:364`): a failed run may keep an active object that
  nothing refers to, which is why `NoStorageLeft` speaks of manual imports. An importer that
  dies or loses the answer between reserving storage and recording the reservation
  (`data_analysis/services.py:598`) leaves a run that no reconciliation can settle, and the
  resource without further imports: `RunsSettle` speaks of tracked runs. A writer
  that reaches the bucket after the reconciler has looked leaves an object without a row. A
  checkpoint that could not be enqueued is not tried again (`:328`, not modelled).
- *Checkpoints* (the state `Unpublishable` names). A process outlives its lease between committing
  its object and attaching it. The attachment is refused, and reading the row (`attachment_state`)
  shows none; before the process releases the object, a reconciliation attaches it, which
  the trigger of `154` does not mind, since it protects published objects only. Publishing
  then raises in every reconciliation, and the checkpoint is materializing for ever. It needs
  two processes at once, which the lock of the timer's command makes unlikely on one host.
  The service means not to delete such evidence
  (`project_dataset_checkpoint_service.py:456`), and its architecture document to keep
  contradictory evidence as ambiguous (`src/docs/automated-database-migration-architecture.md:509`).
  A row keeps the reservation and the object of its previous attempt until the next one attaches
  its own. An attempt that dies before is judged by what the previous one released, and
  may be set aside as ambiguous although attempts are left; and what the previous
  one stored is referred to by nothing.
- *Releases* (the states `Stranded` names; every later deployment raises in recovery).
  The deployer dies between writing the authority and the checkpoint that records it;
  or, after an earlier release was rolled back or recovered, before it wrote its first authority;
  or after the authority was withdrawn while the candidate's workers still run.
  Retained workers are left half stopped; or stopped, after a failing undo archived the release;
  or were still starting when recovery inhibited them and came up afterwards. And the one
  of `release_recovery`. Besides, a death between restoring the workers and its checkpoint
  leaves `worker_generation` of the known good release behind, and the operator's
  refresh of the workers is refused until the next release.

## Abstractions

- A claim takes one row. The code takes a batch, and handles its rows in threads: the batch is as
  many claims in a row. What a batch adds, that one failing row aborts the statement for all, is kept
  as a guard for claims (`\A ... Due(...) => ~ ...Guarded`), and left out for the
  retention clean-up.
- Time is a bit of a row. Anything may fall due at any moment after it was set; the code's
  delays and back-off decide only when. In `RankingJobs` a heartbeat expires only when no
  worker holds the job, unless `StallsAllowed`: between two beats the worker extracts one document or
  infers one batch, and `job_stale_after_minutes` is chosen larger. The properties that
  depend on it say so.
- A purged row stays purged: producers do not reuse a deduplication key after the retention
  period.
- Preferences, channels and roles are folded into the set of active endpoints and their
  owners. Reports and other rows that migration `167` also freezes are not in the model, nor is
  `stop_deletion_notification_work`, which nothing calls.
- An endpoint's message is not looked into; a provider accepts, refuses, reports the endpoint
  gone, or fails.
- The text of a document, its chunks and its score are not looked into: an extraction
  succeeds or fails, a file has one score. All jobs hold the same files, since that is when
  caches are shared. One inference batch is one document.
- Which queued row a claim takes is left open.
- Reminders: one in-app reminder of one recurring task; event reminders and tasks that do not recur take
  the same functions with a next occurrence that does not exist. Nobody is frozen, no
  endpoint comes while the reminder is on its way, and nothing is purged.
- Calendar tasks: one task and one connection, its content a version number. The account
  lock that `calendar_work` holds around a job is part of `AccountErasure` only.
- Connections: what a listing returns is the number of the last change; pages are one step,
  except that a job may die between any two of its calls. Tokens, their refresh and the delta
  links of Microsoft are left out.
- Erasure: the private data are one kind of file, one object and one identity; shared
  ownership, which blocks an erasure, is a nondeterministic answer of the inventory; one
  lifecycle at a time.
- Imports: incremental ones of one resource. File uploads and imports of other kinds take
  the same storage calls and no cursor. The byte counters of the quota are left out.
- Checkpoints: a batch of claims is as many claims of one row; preparing storage and writing to
  the bucket are one step; the freeze and the erasure of an account with checkpoints are left
  out, and so is the synchronous path of migration `152`, which the route takes only before
  migration `153`.
- Releases: a host with a known good release. A group of containers is one value; an operation
  that fails leaves the group in any state its commands can leave it in. Build, source and
  schema checks before the candidate's start are one step that may fail.

## What is not modelled

See [the plan](#the-plan) for what is next. The files of the reranker, refresh tokens, quota
counters, billing and the parquet cache have state worth a model and are left for it. The old
workflow of data deletion requests is switched off (migration `167` lets it claim nothing).
Webhook ingestion has no registered adapter (`backend/services/webhook_registry.py`,
`PRODUCTION_WEBHOOK_ADAPTERS` is empty).

Of the releases: the first release of a host, a missing authority file, the owner "RECOVERY" and
the provider recovery that writes it (while it is under way the ordinary deployer refuses to
work), exceptional maintenance, migrations, upgrades of the control plane itself, reboots of
the host, and for how long a failed commit is suppressed.

Left aside for good reason: numeric and text computation (extraction, inference, analysis),
user interfaces, application wiring, and request handling over single rows that the
database constrains (learning, commerce, websites). `PROJECT.json` gives the status and the
reason for each component.
