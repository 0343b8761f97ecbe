# mapd-server: a TLA+ verification project

mapd-server turns links that people share from their phones into pins on a map.
A share becomes a *job*; workers fetch the post, pay AI and place providers to
find the places in it, and save them as pins.  This directory models the parts
of the server where concurrency, crashes and retries decide whether it is
correct: TLA+ modules, TLC runs on small instances and proofs checked by TLAPS.

`PROJECT.json` is the index: which module models which part, which lines each
definition stands for, the runs, the hazards and the theorems.

## 1. The system

All durable state is in Firestore; a step of the system is a Firestore
transaction, a Redis command, or a local step between two awaits.  Any number of
server processes run the same code; a process may die between any two steps.

| Part | State | Operations | Hard because |
|---|---|---|---|
| Job queue (`lib/enrichAdmission.js`, `enrichmentWorker.js`, `enrichmentSweeper.js`, `queueMaintenance.js`, `jobContext.js`, `engineTelemetry.js`, `functions/index.js`) | `enrichmentJobs/{id}`: status, engineQueued, workerOwner, queueDeadline, engineDeadline; `engineAdmission/{uid}.active`; `engineMetrics/{id}`; worker leases in Redis | submit, admit or reject, discover, lease, claim, attempt, settle, report, release, sweep, expire, give up | two deliverers of every job, leases that end by themselves, workers that die, sweepers racing workers, releases in later transactions |
| Selection and review (`enrich.js`, `lib/detectionReview.js`) | the same job document | claim the user's selection, save the selected places, dismiss or confirm detections | repeated requests; a selection re-opens a settled job while its first attempt still reports |
| Shared paid operations (`lib/sharedAiStore.js`, `sharedAiOperation.js`) | per key a head document and one document per generation: state, owner, lease, subscribers, challenge, dispatch marker, successors | claim, join, refresh, retry, heartbeat, challenge, authorize, send, publish, expire | money: a request that may have been sent must not be sent again by accident; callers cancel at any moment; leaders die after the marker |
| Spend ledger (`lib/engineBudget.js`, `engineBudgetJournal.js`, `engineBudgetWorker.js`) | `engineSpendCalls/{id}`, `engineSpendCounters/{id}`, a local journal of events | observe begin, dispatch, settle, release; recover the journal; aggregate counters | events are persisted late, twice and out of order, never awaited; counters are aggregated by several workers |
| Pin details outbox (`lib/pinDetails.js`, `pinDetailsWorker.js`) | one task per pin with revision, owner and deadline, and the pin's own details fields | enqueue, claim, authorize, finish, expire, retry, cancel | the pin changes, moves or disappears while the task is paid for |
| Provider calls (`lib/providerRuntime.js`, `providerCooldown.js`, `cache.js`, `enrich/places.js`, `lib/ytdlp.js`) | leases, cooldowns and cached answers in Redis, and what an instance remembers when Redis fails | look up, check, lease, observe, dispatch, settle, cool down | every Redis command may fail, also after it was carried out; leases end by themselves; the catch must close what the try opened, once |
| Pin accounting (`functions/lib/`) | a projection of every committed pin and visit: facts, counters, totals, an inbox, a migration checkpoint | capture, reconcile, repair, migrate, verify | triggers are delivered twice, late and out of order, and fail; pins and accounts are deleted and created again meanwhile |
| List membership (`lib/listMembership.js`, `lib/admin.js`) | lists, members, overrides, a freeze flag and migration locks | join, remove, override, freeze, backfill, scrub | long transactions cut in batches, migrations racing users |
| Pin save (`enrich.js`, `lib/contentIndex.js`, `lib/retryContext.js`, `lib/media/analysisRecovery.js`) | pins and their sources; of each job its outcomes, candidates and selection | match, attach, save, ask, select, review, resume a retry | two jobs of one account find the same place; pins and outcomes are written in different transactions, so a document lags behind the pins when a worker dies |
| Backfills (`enrich/backfill*.js`, `lib/backfill*.js`, `lib/repairThumbnails.js`, `lib/admin.js`) | one field of every pin, user or list; a lock with a heartbeat for the one that pays | read a page, look up, write, go on from lastDocId | owners edit what is being filled in; operators start twice; the process dies with the lock |
| Media pipeline (`lib/media/`) | workspaces on disk, evidence caches | download, transcribe, sample frames, fuse | processes and files; its paid calls are shared operations |
| Matching, extraction, acquisition, HTTP, offline tools | none that is shared | | data and I/O rather than control |

How they meet: `/enrich` admits a job and nudges the worker; a worker leases,
claims and runs `runEnrichment`, which pays through shared operations inside
provider leases, observes every physical call in the ledger, and saves pins in
transactions that check that the attempt still owns its job; a saved pin enqueues
a details task; pin triggers feed the accounting.  Sweeper and maintenance only
touch job documents and admissions.

## 2. Plan

The order is by what is lost when it goes wrong: a share that never ends, money
spent twice, a user's data overwritten.

| # | Modules | Abstract promise | Proofs | State |
|---|---|---|---|---|
| 1 | `JobQueue`, `JobLifecycle` | `JobLifecycle`: verdicts in order, pins only from a live attempt, every share ends | types, quota, one runner, reports, refinement, lanes, slots | done |
| 2 | `SharedAi` | no unasked second spending, one successor, final outcomes | types, all safety properties | done |
| 3 | `SpendLedger` | counters equal the ledger, confirmed events are kept | types, all safety properties | done |
| 4 | `PinDetails` | one request per revision asked for, the right place, the user's fields | types, all safety properties | done |
| 5 | `ListMembership` (`admin.js`, `listMembership.js`) | member documents, `listIds` and `pinCount` agree after a frozen migration | types, all safety properties | done, without roles |
| 6 | `PinAccounting`, `AccountingMigration` (`functions/lib`) | every committed fact counted once, the present state counted exactly, an index that is complete when it says so | types, all safety properties | done |
| 7 | `ProviderCalls` (`providerRuntime.js`, `providerCooldown.js`, `cache.js`) | no request under a known cooldown, every observed spend closed once | both properties | done |
| 8 | `PinSave` (`enrich.js`, `contentIndex.js`, `retryContext.js`) | one pin per account and place; outcomes that are true; a retry resumes what was left | types, all safety properties that hold | done |
| 9 | `Backfills` | no document left out, one run that pays, no edit taken back | types, all safety properties | done |
| 10 | compositions: an attempt of `JobQueue` that pays through `SharedAi`; a save that enqueues `PinDetails` | | refinement | not done |

The modules are independent of each other (except that `JobQueue` instantiates
`JobLifecycle`, and `AccountingMigration` extends `PinAccounting`): their
components share no document but the job's, of which `JobQueue` has the fields
that schedule it and `PinSave` those that hold its results, and they meet through
calls that each module takes as nondeterministic.  `MC*` modules only give constants
values and define symmetry sets; each `*_proofs` module extends the module it is
about, `PaidCalls_proofs` the two that say what a paid call may do and cost,
`ProviderCalls` and `SpendLedger`.

## 3. Models

Common conventions.  An action is one Firestore transaction, one Redis command
or one local step between two awaits.  Transactions are serializable, so their
reads and writes are atomic; whatever the code reads outside a transaction is
kept in a variable of the reader and may be out of date when it is used.  A
crash may come between any two steps.  Names follow the source.  A definition
whose comment begins with "Fault:" is a plausible bug; no specification uses it
until it replaces the definition after it, to see that a property notices.

### JobQueue and JobLifecycle

| Variables | Code |
|---|---|
| `status`, `queued`, `owner`, `wait`, `left` | fields status, engineQueued, workerOwner, queueDeadline, engineDeadline of `enrichmentJobs/{id}`; a deadline is the time left until it |
| `hold` | the entry of the job in `engineAdmission/{uid}.active` |
| `saved`, `progress`, `report` | whether a pin was committed; whether the document's outcomes count a place as saved (`progress.saved`); the outcome in `engineMetrics/{id}` |
| `pc`, `work`, `seen` | the flow of one worker slot or selection request, its job, the verdict its `persist` has read |
| `userLease`, `workLease` | leases of the account lane and of the global worker slots in Redis |
| `cleanup` | jobs a sweep has failed and whose hold it has yet to release |

`Submit`, `Admit`, `RejectAdmission`, `FunctionGivesUp` are the deliveries of a
share; `Reserve` to `Unlease` the worker; `BeginSelection`, `ClaimSelection`,
`Review` the user's selection; `SweepExecution`, `ExpireQueued`, `ReleaseSwept`
the sweeper, queue maintenance and discovery, which share one transaction per
job.  `Tick` is time, for all deadlines and leases alike.

- "complete" also stands for duplicate, "partial" for failed with the code
  partial_save: nothing in the queue tells them apart.
- What a job counts as saved may also have been found pinned, or inherited from
  the job it retries (`retryContext.js:128-136`), and any job may be a retry:
  `Checkpoint` stores it before the attempt pins anything, and `Settle` leaves the
  final count open, except that a partial save counts something.
- `OutcomeOf` is what a report says: a failed job that counts a saved place is
  reported partial, by whomever it was failed (`engineTelemetry.js:17-29`); so is,
  by choice, a complete one, for its analysis may have been incomplete.
- A heartbeat only moves updatedAt.  The sweeper's heartbeat test can never fire
  before its deadline test, because a claim writes both and a deadline is 120 s.
- A selection holds no admission and its account lane is not leased, as in the
  code; its report may be lost when a selection has re-claimed the job.
- A release that fails inside the worker is a hold that stays until it expires,
  which the crash of the slot already covers.
- The time left of a deadline that no step reads any more is set to 0.
- Pushes, logs and the idle backoff of discovery are left out.

`JobLifecycle` is what the phone relies on: statuses in order, one attempt per
submission and one more per selection, pins only while an attempt is processing, a
partial verdict only with a place counted saved, by this job or inherited
(`Inherit`), and an end for every share.  `JobQueue` implements it with the
identity mapping on `status`, `saved` and `progress`.

### SharedAi

One key of `engineSharedAiOperations`.  `head`, `state`, `owner`, `refreshed`,
`marked`, `refreshSucc`, `retrySucc` are the fields of the head document and of
the generations; `subs`, `valid`, `phase` the membership of the running
generation and its dispatch challenge; `pc`, `mode`, `at`, `after`, `want`,
`sync` an entry of `runSharedAiOperation` in one process; `sent` and `gone` are
observers, the requests that really left and the callers without a valid waiter
when the challenge was issued.  Only the head can be running, so lease and
membership are single variables.  The constants `Calls` and `Departures` bound
which kinds of calls there are, and whose callers may withdraw.  There is no clock: a lease, a membership or a
result may lapse at any step.

Left out: the media stop (a refusal at any authorization covers it), the cache
of results and its retention, deletion by TTL, partial results of media fusion,
the mode without Firestore, key hashing.

### SpendLedger

`rec` is the document of a call in `engineSpendCalls`, `counter` those of
`engineSpendCounters`; `pc`, `ceiling`, `usage` are the producer's handle; of
each of its events, `remote` is its own write, `local` its file in the journal,
`receipt` the durability its promise reported; `replay`, `replayed` is what the
recovery worker of the same process is at.  There is one process: it is where the journal and its worker
live (`index.js:512`), and `ProcessDies` ends all of it.  A receipt's timeout lets the
next event start while a write is still running, which is why events land in any
order.

Left out: legacy records, fingerprint and schema conflicts, overflow, deleted
counters, days, usage conflicts, the loss of the journal's volume;
`unboundedUsage` is part of `breached`; `physicalCallId` is never passed by any
caller.

### PinDetails

One pin document id.  `pin` is the document as clients and server see it, `task`
its private task, `gens` counts the creations of the pin, `job` what each worker
is at, `asks` the retries the phone has sent, which may arrive whenever and as
often as they like, `paid` (an observer) the requests sent for each task and
revision.

- Of the fields there are two: `core` (filled only when absent, and never once
  anybody else wrote the pin) and `info` (filled when it is as the baseline
  recorded it and the user did not mark it).
- A generation stands for the commit times by which the code recognises the pin.
  `touched` says that the pin's updateTime is not that of the last joint commit.
- Each revision is claimed once, so task and revision stand for the owner.
- Clients are external: an edit, marked or not, a correction of the place, by a
  client that asks for action or by one that does not while details are pending,
  deletion, putting the pin back, deletion of the account.
- Appending a source to the pin is a write that touches it like an edit does.

Two things are promised of less than one might expect.  A pin that a client put
back (`RestorePin`) is the pin of no task (`samePin`, `pinDetails.js:88-110`): the
code cancels the task without touching it, and when the copy says pending it stays
so until a client writes to it (`tests/pinDetails.recovery.emulator.test.js:106-114`).
`PendingResolves` promises of it only that the task ends; `Open` says so.  And an
edit (`EditInfo`) writes an optional field, it never empties one: a value that a
client without the mark writes and takes away again is as the baseline was, and the
result fills it (`pinDetails.js:167-168`).  `EditsKept` says nothing of that.

### ListMembership

`lists`, `claims`, `members`, `count` are the documents of lists, the `listIds`
of pins, the member documents and `pinCount`; `corrupt` the member documents
whose ids are wrong, `edited` those with overrides; `frozen` and `lock` the flag
and the lock in `configs/featureFlags`; `pc` to `ok` one request of the operator
each: which job it runs, what it has read and still has to do, and whether it is
clean so far.  `stage` records the clean steps of the runbook's procedure, and
goes back to "none" when the freeze is lifted before the last of them; `cleared`
and `hasty` record that the operator deleted the lock of a job that was running.

- A chunk of the backfill is one claim, a batch of the scrub any part of the
  orphans, which covers batches that fail.
- What is malformed in pins is a choice: the backfill may skip any claim, the
  scrub any list, and neither is clean then.
- `count` of a deleted list is `NoCount`, like a count never written; a count
  of another type is not told apart from it.
- An editor's call that is refused changes nothing and is left out, with all
  that decides about roles; so is a removal of a member that is gone.
- Clients are external.  They write claim, member document and count in one
  batch, and the database's rules reject it during a freeze: the runbook makes
  deploying those rules a precondition
  (`docs/list-members-backfill-runbook.md`, prerequisite 2).  With the 30 s of
  `FREEZE_SETTLE_MS` alone (`admin.js:152-162`) a client could still write.
- A list may be deleted at any time, also during a freeze, because the backfill
  expects it (`admin.js:345-353`).  Its claims may stay.
- The initial state is any mixture of claims, member documents and counts.

`StagesHold` and `MembersFollowClaims` are promised unless `hasty`: two jobs that
run at once, or a job that outlives the freeze, can break them, and only the
operator can bring that about.  `LockCoversWork` is promised in any case.

### PinAccounting and AccountingMigration

`pin`, `visit`, `account` are the documents of one account, `commits` their
history: the number of a commit is its time, the identity of the mutation and,
of a creation, the generation of the pin.  `inbox` is `accountingInbox`,
`contribution`, `index`, `stats`, `receipts`, `saveEvents`, `profile` what
`reconcile` projects, `head`, `metaPin`, `summary`, `bucket` what
`pinMetadataAccounting` does; `call` is what each function instance, and the
operator's repair tool, is at, `repair` the tool's page; `unacked` the commits
whose delivery is owed, `buried` the deletions of the account not delivered yet.
`cutover` and `capturing` are `historyCoverageStart` and `captureEnabled` of the
control document, `skipped` (an observer) the commits delivered while it was off.

- `Capture` to `Again` is a trigger: the inbox record, the read, the one
  transaction of `reconcile`, the update of the record.  `Fails` and `Dies` may
  come between any two, and the platform then delivers again.
- Of a pin there are its source identities, its city and its visited flag: one
  row of the content index per identity, one counter per city.
- Where the migration runs there may be pins from before the capture, created in
  any order (`OldPins`), so that the order of names is not that of creation.
- The migration pages through pins, then contributions; `RunStops` is the page
  limit, an abort or a death; `Activate` is the transaction of `verify` that makes
  the index authoritative.
- Left out: dry runs, fields of the metadata projection other than the city, the
  retention of receipts, a repair by hand of a record under review that changes it.

`NothingDropped` counts a commit as accounted for when its record shows an
operator why it is not counted.

The capture may be switched off by hand and on again with the same cutover
(`PauseCapture`, `InitializeCapture`).  An event delivered meanwhile is acknowledged
and, if it has no record, dropped (`pinAccounting.js:72,171`;
`tests/pinMetadataAccounting.test.js:216-224`,
`tests/accountingMigration.test.js:124-133`); its record, if there is one, stays
pending and is left to the repair tool (`tests/accountingRepair.test.js:74-90`).
So `NothingDropped` excepts the commits in `skipped`, and `CheckpointCovers` and
`ReadyIndexComplete` the pins whose latest commit has neither been counted nor parked:
what the triggers have yet to do and what they missed look alike there.  A lookup in
the index that finds nothing is a hint for the code, too (`lib/contentIndex.js:3-4`).

### ProviderCalls

`cooldown`, `lease`, `cached` are keys of Redis, `unpersisted` and `memory` the
maps in each instance, `call` what a call has done so far.  `told` and `agreed`
remember, for the properties, which cooldowns an instance was told of and could
not write, and the latest one that Redis acknowledged.  An action is one command
or one synchronous stretch; a command may fail before or after it is carried out.
`Dispatch` to `Recorded` is the try and catch of `withProvider`, with the refused
subtitle track, whose cooldown is recorded after the answer was settled.

`Lookup`, `Keep` and `Cached` decide which calls are made and cost anything; no
property speaks of what is in the cache.  A SET of a lease that fails after it was
carried out keeps the slot from everyone until it expires.

Left out: retries of a call by its caller, the mode without Redis, differences
between the clocks of instances and of Redis, the aborted signal (a failure covers
it), what an answer says.

### PinSave

`pins` is every pin of one account, the deleted ones too, with the links that are
its sources; `doc` the job documents: outcome of each place, candidates, selection,
analysisRecovery; `worker` what a process keeps in memory of the job it runs.

- A place stands for a clue of the analysis and for what the matcher makes of
  it; a link for all URLs of one content.  `Analyse` chooses which places a post
  shows, which are identified and which need the user's word.
- `ReadContext` and `Checkpoint` are `getRetryContext` and the write that stores
  what it inherits; `Origin` passes what they pass (`retryContext.js:16-61`): an
  ordinary retry the ordinary receipts that were never started, an analysis retry
  the analysis ones that failed undecided.
- `AppendNext`, `SaveConfirmed`, `SaveSingle`, `Attach` are one transaction
  each; between two of them a worker may die (`Crash`), lose its job (`Sweep`, then
  `Stopped`), and the user may delete pins, select and review.
- `wants`, `drops`, `unpicked` remember, for the properties, what the user had
  picked, dismissed and left unselected in the ancestors of a retry.
- Left out: the stages of matching, details, thumbnails, trip signals, pushes, the
  limit of 8 ancestors and of 40 places, an ancestor that was deleted, confirmations
  of a review (they change no status).

The properties about retries speak of jobs that got past their checkpoint
(`begun`): see section 7.

### Backfills

One behaviour is about one of the six jobs.  `doc` is the collection in the order
of names, each document with the key its answer goes by and the value to be filled
in; `run` the chain of calls of an operator, with the page it read once, the
cursor and, for the paid job, when its lock was renewed last; `lock` the document
`configs/backfillLocks`; `clock` moves for the paid job alone, the only one with
deadlines.

- `Writes` is what each job checks again when it writes: nothing but existence
  (meals, profiles), that it is still to do (types, home), the category it has now
  (category), the same link and thumbnail (images).
- An operator goes on from lastDocId while hasMore or abortedReason says so, and
  starts again from the last known cursor after an error (`Resumes`).  Of the
  images script that is the end of the page, which it prints before it repairs any
  of it (`backfill-thumbnails.js:30`): an error skips the rest of the page, which
  `cut` remembers and `ChainVisitsAll` excepts.
- A failed lookup or write is in the answer, which counts as handled (`tried`),
  except where the code does not catch it.  The images script only counts them.
- A dry run of images ends after the counts of its page; the model goes through
  the page one document at a time and writes nothing.
- A renewal's answer may be seen up to `Delay` late; `BackfillConstants` assumes
  that a lookup and that delay fit into the margin before the lock goes stale (a
  lookup of 20 s and a margin of 2 min, of 30 min, in the code).
- Left out: counts and samples in the answers, rate limits between calls, what an
  answer contains.

## 4. Runs

All runs together take about 15 minutes on two cores.

| Run | Bounds | Question |
|---|---|---|
| `queue_quota` | 2 jobs of one account, limit 1, 2 slots under 1 global lease, legacy policy, prompt claims; wait 1, attempt 2, lease 2 ticks | Does the quota bound outstanding work, does one slot run a job, are there no more attempts than leases, does the report agree with the verdict and with what is counted saved? |
| `queue_lanes` | fair policy, prompt claims, 2 jobs, 2 slots, limit 2; wait 1, attempt 1, lease 2 | At most one live attempt per account? |
| `queue_lifecycle` | 1 job, 2 slots, wait 3, attempt 1, lease 1, with fairness, no symmetry | Does the queue implement `JobLifecycle`, liveness included? |
| `shared_operation` | 2 processes, 2 generations, a media operation, normal calls, refreshes and retries, callers of one process that come and go, fairness | Is every dispatch justified by a caller that was valid at the challenge? No silent second spending, one successor, a token that spends once, final outcomes, every follower answered? |
| `spend_ledger` | 1 call on 2 counters, ceiling 2, reports of 3 (partial, over the ceiling) and 1, journal, fairness | Do counters equal the ledger, is no spend refunded, are confirmed events kept, do journal and counters catch up? |
| `details` | 2 workers, 2 places, 2 creations, 2 revisions, edits, fairness; a pin that was created again is neither edited nor retried | One request per revision asked for, the right place, no edit lost, does every task end and no pin wait for its own task for ever? |
| `lists_migration` | 1 list, 2 pins, 2 jobs, counts up to 2, symmetry | Does each clean step of the migration establish its promise, does it last, and does a migration lose nothing? |
| `accounting` | 2 pins, 2 triggers, pages of 1, 2 attempts before a review, up to 3 commits and 2 accounts; each initial state with a budget of what may happen, among them 2 migration runs at once, one run and a commit, or a capture switched off during commits, repairs or a run | Do totals match what they count, is a settled pin counted as it is, is no commit dropped unseen but while the capture was off, does the checkpoint cover what is behind it, is a ready index complete? |
| `pin_saves` | 2 places, a post and a Maps link, 3 jobs; a budget of shares, retries, crashes, faults, sweeps, deletions per scenario | One pin per place, true outcomes, no choice of the user forgotten, no save unknown to the retry? |
| `saves_unselected` | as `pin_saves`: one share, one retry, one crash | The finding of section 7. |
| `backfills` | 3 documents, pages of 2, 2 keys of which one answers nothing useful; each job with edits and failures; 2 operators for the paid one; stale after 4, margin 3, lookup 1, delay 1, clock up to 5 | Does a chain visit all but what an images script skips, does one run pay, is no edit taken back? |
| `providers` | 2 instances, 2 calls at a time, 1 slot, cooldowns of 1 or 2 ticks, clock up to 3; budgets of calls, rejections, failures, crashes | No call against a cooldown its instance or Redis had on record before its last check, every observation closed once? |

Why the bounds are enough to be of use: the hazards need two actors and one
contested object (two slots and a job, two processes and a generation, two workers
and a task, two jobs and a place, two operators and a lock), a limit that is reached
(limit 1, one lease, a full page and a short one), a deadline that can pass before,
during and after an attempt, and chains long enough for "stale" to exist (two
generations, two revisions, a retry of a retry).  What larger values could add, the
proofs of section 6 settle for the safety properties.  The domains that a run
bounds are constants: `MaxGen`, `MaxRev`, `MaxJobs`, `MaxCommits`, `MaxTime`,
the sets, the ticks.  Where one state space with everything in it would be too large,
an initial state chooses a *scenario* (`Budgets`, `Scenarios`): how many crashes,
failures, edits and so on a behaviour may have; the scenarios of a run are in its `MC`
module, and together they bring each hazard about with another one.  `spend_ledger`
has one call, since calls meet in counters alone, to which they add.
`lists_migration` has one list, since 2 lists with one pin already have more than
ten million states; that jobs visit several lists is left to the proofs.  Deadlock is
not checked where a system with all its work done, or a budget that is used up, may
really rest.

Each property of each passing run has a mutant in `PROJECT.json`, a change of
one definition that makes the run find the property violated.

## 5. Fairness

- `JobQueue`: time passes; some process keeps sweeping (a timer of 15 s in every
  server, and maintenance on the queue); the cloud function is retried by its
  platform until its age cap.  Workers need not make any progress, so the
  refinement shows that sweeping alone ends every share.
- `SharedAi`: a lease lapses; a process that waits runs its watcher's timer and
  reads the end of the generation.  Leaders have no fairness: they may die at
  any step.
- `SpendLedger`: the timer of the recovery worker comes again (weak fairness of
  reading the journal and aggregating), and a file that keeps being offered is
  written and removed some time (strong fairness of `Replay` and `Remove`,
  which Firestore's failures and crashes may interrupt, not for ever).  No
  producer makes progress by assumption.
- `PinDetails`: ticks come again while tasks are queued or expired, the clock
  passes deadlines, a fetch has a deadline (weak fairness), and a worker that is
  interrupted over and over reaches the end of some task (strong fairness of
  `End`).  Clients and the user have none.
- `ListMembership`, `PinAccounting`, `AccountingMigration`, `ProviderCalls`,
  `PinSave`, `Backfills`: none; operators, users and processes may stop at any step,
  and all properties are safety properties.

## 6. Proofs

Everything TLAPS proves holds for every value of the constants that the `ASSUME`
of the module admits.  These are as weak as the code: positive limits, finite
sets of whatever is counted or summed (jobs, slots, calls, counters, pins, source
identities, places), sentinel values that are no members, a lease at least as long
as an attempt (150 s and 120 s in the code).  A module that extends two components
has the assumptions of both at hand; its proofs cite them by name, each those of the
component it is about.

| Module | Theorems | Inductive invariant and why |
|---|---|---|
| `JobQueue_proofs` | `TypeCorrect`, `OneRunnerHolds`, `OutstandingHolds`, `ReportHolds`, `LifecycleHolds`, `OneAttemptHolds`, `SlotsHold` | `Typed`; `Ownership` (whoever runs a job is its owner, of slots in an attempt there is one per job, a swept job is failed) gives one runner.  For the quota: `HoldCovers` (an outstanding job's hold lasts at least as long as its wait and attempt can) and `HoldsWithinLimit`, since the bound on outstanding jobs is not inductive: it is the holds that admission counts.  `ReportAgrees` says that the outcome a slot is about to report (the verdict it has read and what the document counted saved) still describes the job when it writes it.  `LifecycleHolds` maps each step to a step of `JobLifecycle` or a stutter.  Under prompt claims: `Lanes` (a lane has one lease, which outlives its attempt) and `Covered` (every live attempt holds a worker lease, of which there are at most `GlobalSlots`). |
| `SharedAi_proofs` | `SharedTypeCorrect`, `StaleTokenHolds`, `OutcomeHolds`, `RespendHolds`, `SuccessorHolds`, `AuthorityHolds` | `Chain`: generations up to the head and no others exist, only the head runs (`Placed`); only refreshes and retries have an anchor, and a refresh waits for a normal generation (`Anchored`); links point forward and not past the head (`Linked`); whoever sends has marked (`Marking`); and `StaleTokenSpendsNothing` itself.  `Challenge` says who can still answer the present challenge. |
| `PaidCalls_proofs`, of `SpendLedger` | `LedgerTypes`, `LedgerBalances`, `ConfirmedIsKept`, `SpendStays` | `Vouched`: a finished write, a receipt, a removed file and a finished replay each vouch for the record, a local receipt for the file; `Fresh`: nothing is known of an event that was not issued; `ReportFixed`: a record is settled by its handle's report alone.  `Books` is the equation of the counters itself, for any number of calls: `Booked`, the sum over the records of a counter's calls, is taken apart one call at a time (`BookedOneByOne`), and what holds of every such sum is shown by a smallest set for which it fails (`SmallestSet`).  That no counter falls below zero, although an aggregation also subtracts, follows from that equation alone. |
| `PinDetails_proofs` | `TypeCorrect`, `SpendFollowsRequest`, `DetailsFollowPlace`, `UserWritesStay` | `Behind`: no worker is ahead of the task, and nobody works on a queued revision; `PaidOnce` and `Authority`: what was sent stays marked as dispatched while its revision lasts, and one worker at a time may send; `Asked`; `Shown` and `Kept`: what a pin shows, who wrote it, and that the user's traces survive every joint commit. |
| `ListMembership_proofs` | `TypeCorrect`, `LockHolds`, `DeletedListsStayEmpty`, `StagesReached`, `ClaimsKept`, `OverridesKept` | `LockCoversWork` makes one job work at a time, under the freeze (`Calm`: nobody without a lock).  Hence `Knows`: what a job has read stays true until it writes. `FillKnows`: a claim of a list is written or still to do; `ScrubKnows`: what it calls an orphan has no claim, and an orphan is in a list still to visit; `CountKnows`: counts first read still stand.  At a clean end these are the next promise of `StagesHold`; a list deleted under the job keeps them. |
| `PaidCalls_proofs`, of `ProviderCalls` | `CooldownHolds`, `SpendHolds` | `Remembers`: what an instance was told of is in its memory, in Redis, or over, since a success clears only what it covers; `Heeds`: a call past a check saw no cooldown then, and keeps what it saw while it is on its way to the request; `Closes`: what the flags of the try say about the observation at each step, so that the catch closes it once. |
| `AccountingMigration_proofs` | `AccountingTypes`, `AccountsBalance`, `LateEventsHarmless`, `LastSaveStands`, `EventsNeverDropped`, `MigrationCoversPins`, `ReadyMeansComplete` | One invariant for triggers, repair tool and migration together.  `TotalsMatch` and `NothingDropped` are parts of it; a counter is a cardinality, and a step changes one member of what is counted (`CountChange`); the sources a save or an append added are such a set, which is finite (`Additions`).  `PointersSound`: of a pin's metadata the document its pointer names is the only one of the present account that is counted, whatever an account that was deleted left behind.  `Agreement`: once the latest commit of a pin is past its transaction, what is projected is the pin as it is, since every transaction projects what it reads then and not what its event says.  `CallsCounted`: a record is complete only with its receipt.  `Begun`: nobody is past a read of the control before the capture was first switched on.  `Covered`: no checkpoint, run or flag claims a pin that is neither projected nor about to be by an event, which rests on `PageFromTheFront` (a page that leaves a pin out is full and ends before it). |
| `PinSave_proofs` | `SaveTypes`, `OnePinHolds`, `OutcomesAreTrue`, `SelectionsLast`, `DismissalsLast`, `RetriesSee` | `Placed`: no two live pins have one place, kept because the save's transaction looks for the place itself, whatever was searched before.  `Own` says of each job what its document and its worker's memory have to do with each other at every phase: `Matched` (which outcomes are still candidates, and what they were inherited as), `Truthful` (an outcome names a pin that holds the link), `Dropped` (no write takes a dismissal back), `Wanted` (a choice is pinned or `Held`: the document has it in one of the forms that a retry saves without asking, or it was dismissed since), `Tells` (the creator of a pin has it on record, or still as a candidate).  `Kin` is the lineage: until a retry has stored what it inherits, its choices and dismissals are those of its `Origin`, a recursive function which `OriginIs` unfolds (by a smallest receipt for which it is undefined) and `OriginStays` shows to be the same after every step.  Each action is shown to keep `Own` of its job (`Moves`), and one lemma each says that it leaves the other jobs (`OthersStay`) and the lineage (`KinStays`) alone. |
| `Backfills_proofs` | `TypeCorrect`, `OneSpenderHolds`, `EditsHold`, `ChainHolds` | `Stands`: whoever is in a lookup owns the lock, or saw it renewed so recently that nobody could have taken it; it combines the margin, the timeout of the lookup and the delay of the heartbeat, for all values of them that satisfy `BackfillConstants`.  `Sought`: what a chain looks up needed it when the page was read, so that a thumbnail someone replaced since is not as it was read and `Writes` refuses.  `Sweeps`: whatever a chain found to do and has not tried lies ahead of its cursor, in its page or behind a full page, and a call that ends without abort or a full page leaves nothing open, but the rest of a page whose end an images script had printed (`ResumesIs`, `Greatest`); it rests on `PageFromTheFront` (a page that leaves a document out is full and ends before it). |

With these, every safety property of a run that must pass is a theorem, and so is
the type invariant of every component that states one (`TypeCorrect`, `LedgerTypes`,
`SaveTypes`, `AccountingTypes`, `SharedTypeCorrect`), which therefore no run lists;
of `ProviderCalls` the types are the part `Typed` of its inductive invariant.  Before
they were proved, the inductive invariants were checked by TLC on the instances of
the runs.

Only model-checked:

- liveness: the fairness part of `LifecycleSpec`, of which `LifecycleHolds` proves the
  steps, `FollowersAnswered`, `TotalsCatchUp` and `PendingResolves`; the prover does
  neither fairness nor `ENABLED`;
- the violation of `UnselectedStaysUnsaved` (section 7), which is a counterexample.

The proofs are about the models.  They do not bound what a model leaves out
(section 3), and the properties of retries speak of jobs that got past their
checkpoint, as they do in the runs.

## 7. Divergences between documents and code

One is checked by a run that must fail.  `saves_unselected` violates
`UnselectedStaysUnsaved`.  A test says "interrupted selection keeps unattempted
selected candidate but never unselected ones"
(`tests/engine.retryRecovery.test.js:86`).  `getRetryContext` leaves the unselected
candidates out of what a retry inherits (`retryContext.js:75`) and does not keep them
as dismissed, as a selection that is not interrupted does (`enrich.js:1452-1460`).
When the places that were picked had all been saved before the worker died, nothing
is left to resume, the post is analysed again, the unselected place is a fresh
candidate, and if it is the only certain one it is saved without asking
(`enrich.js:1298`).

Others, found by reading, that no run states:

- A lease and a claim: the documents promise one attempt per account
  (`docs/engine-next-improvements-execution-2026-09-14.md:42`) and that "lost leases
  cannot authorize more work" (`docs/engine-implementation-plan-2026-09-13.md:180`).
  `withLease` looks at its ownership only after the work returned
  (`providerRuntime.js:37-40`), and the claim (`enrichmentWorker.js:134-149`) does not
  look at the lease: a slot that is delayed between lease and claim by more than the
  30 s a lease has over an attempt starts an attempt under a lease another slot holds
  by then.  Nothing is corrupted, `OneRunner` holds without any assumption.  The
  constant `PromptClaim` excludes such a delay where the lanes and slots are checked
  and proved.
- A retry marks a candidate that was pinned from another link as existing, without
  attaching this link to it (`retryContext.js:76-78`; `enrich.js:597-598` says that
  an attachment that did not happen cannot be acknowledged).  The model has the
  outcome "adopted" for it, of which `OutcomesTruthful` does not speak.
- A retry that dies, or fails to read, between its claim and its checkpoint stores
  nothing of what it would have inherited, so that a retry of *it* has forgotten the
  selections and dismissals of its ancestors.  `begun` in the properties excludes it.
  In the same way an ordinary retry of an analysis retry that was refused inherits
  nothing, where one of a refused ordinary retry goes back to its ancestor
  (`retryContext.js:16-25`, `tests/retryContext.admission.test.js:94-105`).
- `docs/thumbnail-persistence.md:39` tells the operator to continue with the
  nextAfter of the output before.  The images script prints it before its repairs
  and an error ends it (`backfill-thumbnails.js:30`, `:34`, `:40`): who continues so
  after an error skips the rest of that page.
- A pin that was put back by a client while its details were pending stays pending
  for ever (`pinDetails.js:100-109`), which its test expects
  (`tests/pinDetails.recovery.emulator.test.js:106-114`).
- Events delivered while the capture is switched off are dropped for good
  (`pinAccounting.js:171`), and a capture that is switched on again keeps its old
  `historyCoverageStart`, so that the history says it covers them.
- A single candidate that finds its pin by the link after another pin received the
  link is reported as saved with the pin of the other place
  (`enrich.js:1305-1309`, `retryContext.js:130`).
- The types backfill takes its re-read to skip a pin that a user has corrected
  meanwhile (`backfillPlaceTypes.js:298-300`), but fresh types that classify nothing do
  not count as settled and are overwritten by those of the former place.
- The meals backfill promises to leave other fields alone (`admin.js:604-608`) and
  writes them whatever the pin has become; the profiles backfill writes a whole map
  and can lose the profile of a user who joins meanwhile, and stops without lastDocId
  when a list of its page is deleted.  `EditsPrevail` promises nothing of these two.
- `backfillHomeLocations.js:108-114` expects an empty answer of `searchGooglePlaces`
  for a missing key or a transient error; it throws (`places.js:50`, `:111`), which
  the job reports as a failure of that user.

## 8. Not modelled

- Compositions (section 2, row 10), and the roles and invitations of lists.
- Media pipeline: processes, files and network; its paid calls are `SharedAi`
  operations and its jobs `JobQueue` jobs.
- Matching, extraction, acquisition, HTTP, authentication, pushes and
  configuration: data and I/O, with hardly any control between two steps.
- Offline evaluation and replay: no running component calls them.
- `enrichClaim.js`: a claim path that only its tests still call.
