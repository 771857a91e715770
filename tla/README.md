# A TLA+ verification of Agendex

Agendex collects the plans that coding agents write, indexes them on the
machine, and synchronises them to a cloud workspace where a team reads,
annotates and reviews them. It also holds an agent back until a person has
approved its plan. It is a TypeScript monorepo: `packages/shared` (plan index,
adapters, receipts, usage), `packages/app` (the local HTTP API), `packages/cli`
(the daemon and the commands), `packages/desktop` (an Electron shell that runs
daemon and API), `packages/ee/convex` (the cloud functions) and two React user
interfaces.

The modules here follow the code. `PROJECT.json` lists, under `map`, the lines
each definition stands for; the names in the modules are those of the code
where that helps. All source paths below are relative to `src/packages`.

Contents: 1 inventory, 2 modules and their correspondence to the code, 3 runs,
4 known behaviours, 5 proofs, 6 limits, 7 plan.

## 1. Inventory

### Components, their state and their promises

| component | state | operations | what makes it correct | status |
| --- | --- | --- | --- | --- |
| Plan-approval store (`app/src/server/approval-sessions.ts`) | a Map of review sessions in memory | create, list, heartbeat, decide, cancel, acknowledge; each sweeps first | decided once; delivered only while live, then irrevocably; bounded, and live reviews are never evicted | modelled |
| Plan-approval hook (`cli/src/review-plan.ts`) | one session, a deadline, a cancel flag | submit, heartbeat loop, acknowledge, cancel, answer the agent | lets the agent through only on the approved snapshot; always answers | modelled |
| Cloud plan sync and history (`ee/convex/cli.ts`, `planVersioning.ts`, `planVersions.ts`, `planReads.ts`, `plans.ts`) | rows, versions, last reads | upload, edit, restore, publish, mark read, delete | one row per local plan, newest text wins, history current, immutable and bounded | partly |
| Daemon upload worker (`cli/src/daemon.ts` `runWorker`) | queue, retries, attempts, cache per account, newest upload | enqueue, pass, answer, retry, change of account | no older text over a newer, no cache entry the cloud did not confirm, everything arrives | partly |
| Daemon startup lock (`cli/src/pid.ts`) | lock file, claim files | acquire, refresh, reclaim, release | one holder; the dead never block it | partly |
| Desktop daemon manager (`desktop/src/main/desktop-daemon-manager.ts`, `daemon-worker.ts`) | child, two promises, three timers, pid file | ensureRunning, stop, restart, monitor | one daemon on the machine, findable, never lost, always recovered | modelled |
| Local plan index and watcher (`shared/src/services/plan-service.ts`, `watcher.ts`) | index, parse cache, running pass, pending files, watchers | scan, rescanFile, flush, poll | no reported change is lost; who waits sees it; the index converges | partly |
| Desktop backend manager (`desktop/src/main/desktop-backend-manager.ts`, `backend-worker.ts`) | child server, its start, a stop, a restart timer, options | start, setClientDistDir, stop, restart | one server, none lost, serving the newest interface; a lost connection comes back | modelled |
| Plannotator write-back (`ee/convex/plannotator.ts`, `annotations.ts`, `cli/src/daemon.ts` 390-576, `writeback-delivery-cache.ts`) | jobs and annotations in the cloud, unreported deliveries in memory and on disk | enqueue, poll, deliver, report, expire, remap | each job ends once, "sent" is true, feedback is delivered again only when the memory of it was lost, nothing stays submitted to a job that failed | modelled |
| UI bundle updater (`desktop/src/main/ui-updater.ts`, `ui-bundle/store.ts`) | current.json, bundle directories, checks, dialogs, boot sentinels | check, stage, activate, quarantine, revert, confirm | a bundle in doubt is watched, then confirmed or dropped; a pin wins; no endless reinstalling | partly |
| Desktop cloud sign-in (`desktop/src/main/cloud-auth.ts`, `cloud-login-pending.ts`, `desktop-protocol.ts`, `desktop-ipc.ts`, `index.ts`) | credentials, generation, pending login, the daemon's token | start, callback, validate, refresh, rotate, expire, sign out | a late answer neither revives what was ended nor ends what is live | partly |
| Account deletion, plan deletion, data export, subscriptions (`ee/convex/account.ts`, `accountDeletionState.ts`, `planDeletion.ts`, `dataExport.ts`, `subscriptions.ts`, `http.ts`) | the job and its phases, cleanups, an archive, the subscription row | start, resume, one batch per step, webhook, trial and its expiry, build of the archive | nothing is left behind, no paid subscription outlives its row, every cleanup drains, the job ends | partly |
| CLI supervisor and commands (`cli/src/cli.ts` 151-332, `daemon.ts` 759-910, `pid.ts`) | pid file, restart times, the worker, what a command waits for | start, stop, a failed start's cleanup, restarts of the worker | one daemon, found by the pid file; "stopped" is true; orphans are waited for | partly |
| Collections, team reviews, sharing, comments, workspaces, cleanup jobs, receipts and usage, MCP and one-shot commands, adapters, user interfaces, app updater and build | | | single transactions, pure functions or wrappers | not modelled, see `PROJECT.json` |

### How they interact

    agent hook --HTTP, may be lost or late--> approval store <--reviewer's page
    plan files --watcher, poll--> plan index --changed plans--> upload worker
    upload worker --POST /api/cli/sync--> cloud rows and history <--web app
    desktop app --fork, messages--> daemon worker (index + upload worker)
    desktop app and agendex start|stop --pid file, start lock--> one daemon
    agendex login|logout, desktop app --config file--> upload worker
    dashboard --write-back job--> cloud <--poll, report-- daemon --HTTP--> live session
    desktop app --fork, messages--> local API worker <--HTTP-- window
    signed feed --check--> bundle store --directory--> local API worker, window
    browser --protocol callback--> desktop app --token--> daemon worker
    Stripe --webhook--> subscription row <--deletion job, trial expiry

Everything on one machine except the lock is single-threaded JavaScript: an
interleaving is possible at every `await`, callback and timer, and between
processes at every system call. A cloud function (Convex) is a transaction when
it is a query or a mutation and a sequence of transactions when it is an action:
`POST /api/cli/sync` is one.

### Hard behaviours

`PROJECT.json`, under `hazards`, lists them at their lines with the property
that covers each. The kinds: requests given up that arrive late (hook, upload),
copies read before an await and used after it (sync endpoint, account, index),
lazily applied expiry, capacity and retention limits, two first uploads at
once, retries against newer content, check-then-unlink on files, processes
killed between two steps, timers against messages of the same child, deliveries
whose report is lost, jobs of many transactions against users and webhooks, and
waits that must end.

## 2. Modules

| module | what it is | extends or instantiates |
| --- | --- | --- |
| `ApprovalSessions` | the store, one action per method | |
| `PlanGate` | abstract: what the gate promises to the agent | |
| `ReviewGate` | hooks, network, plan file and reviewer around the store | extends `ApprovalSessions`, refines `PlanGate` |
| `ApprovalProofs` | theorems about the store, then about the gate | `ReviewGate`, TLAPS |
| `CloudPlans` | rows, history, reads; the sync endpoint in steps | |
| `SyncWorker` | upload worker, account and cache files | |
| `PlanSyncProofs` | theorems about both | `CloudPlans`, `SyncWorker`, TLAPS |
| `StartLock` | the lock protocol, a system call per step | |
| `CliDaemon` | processes, pid file, `agendex start` and `stop`, supervisor | uses the lock as the mutex `StartLock` shows it to be |
| `DesktopDaemon` | manager and utility process beside them | extends `CliDaemon` |
| `DaemonProofs` | theorems about lock, CLI and manager | `DesktopDaemon`, `StartLock`, TLAPS |
| `PlanIndex` | scans, rescans, watcher, poll, routes | |
| `PlanIndexProofs` | theorems about it | `PlanIndex`, TLAPS |
| `Outbox` | abstract: what the sender of feedback is promised | |
| `Writeback` | write-back jobs, annotations, daemons, sessions | refines `Outbox` |
| `WritebackProofs` | theorems about it | `Writeback`, TLAPS |
| `DesktopBackend` | the local API's manager and its workers | its directories are what `UiBundles` serves |
| `UiBundles` | bundle store, checks, dialogs, sentinels, the window | |
| `DesktopAppProofs` | theorems about both | `DesktopBackend`, `UiBundles`, TLAPS |
| `DesktopAuth` | sign-in, refresh, rotation, sign-out, the daemon's token | what `DesktopDaemon` leaves out |
| `DesktopAuthProofs` | theorems about it | `DesktopAuth`, TLAPS |
| `AccountDeletion` | deletion job, plan cleanup, export, subscription row, Stripe | |
| `AccountDeletionProofs` | theorems about it | `AccountDeletion`, TLAPS |
| `MC*` | constants for TLC | the module of the same name |

**ApprovalSessions.** `rows` is the Map, from id to record; insertion order is
`rank`. A method starts with `sweep()`, so every action starts from `Swept`; an
early return with an error still leaves the swept map behind. `Restart` empties
the process. The clock never runs backwards.

**ReviewGate.** A hook awaits one request at a time (`pc`), but one it gave up
may stay in `requests` and reach the server later, or be lost; replies may be
lost. `file` may be edited or deleted at any time. `Deadline` is capped at
`MaxTime`, so the last instant of the model is past every deadline. The model
shows two things that are no errors: after a lost acknowledgement reply the
store says acknowledged while the agent was denied, and an acknowledgement that
names another revision relabels a delivered record `superseded`.

**CloudPlans.** A request (`reqs[q]`) goes through the look-ups by local id,
identity key and content hash, each a transaction of its own; then `Apply`
is the one mutation, acting on the row copy `seen`. Edits, restores,
publications, reads and deletion are whole transactions. A text stands for
title, body and format; `HashOf` may identify texts. No write begins on a row
that reached `MaxVersion`. Left out: Plannotator continuity keys (a third
look-up like the second), the byte budget that may end a retention pass early,
and the repair of histories of older releases.

**SyncWorker.** `pass` holds where `processSyncQueue` is and its locals.
The credentials are read again at each step as the code does
(`getDaemonCloudScope`), and another process may change them between any two
reads. `Push` is a recursive function and a batch is listed by numbers, so that
proofs reach both. `seq` stands for the build order of payloads. An upload that is given up
goes to `late` and may arrive. The wait for the IP address inside an enqueue is
not a step of its own, since nothing of the queue is read before it.

**StartLock.** Every call on the file system is a step; a stamp is what tells
two snapshots of a file apart. Lock files of older releases are left out.

**CliDaemon.** A command is what the holder of the lock does: `command` names
the wait it is in and the daemon it read from the pid file when it began, which
may have changed since. `sup` is where the supervisor's loop is, `worker` its
`workerProc`. `doomed` are the processes that were told to end, which may
still finish what they do; `orphans` those whose parent is gone. The number of
restarts that are younger than the window is any number up to those so far.
Left out: the supervisor run in the foreground (`agendex start --daemon`), which
takes no lock, and stop requests for a process that has ended.

**DesktopDaemon.** An action is what the manager does between two awaits; its
`start` and `stop` promises are the variables of that name. A worker that has
not booted has no handler for SIGTERM and ends at once; it also ends with its
app. Not told apart: the token a worker was given. Left out: a `postMessage`
that throws.

**PlanIndex.** A file stands for a source with the plans read from it and is a
number that grows with each change. `scan` is the running pass, `tasks` are the
rescans under way: two batches of the watcher, and the replay that ends a pass.
Left out: the user's restores of low-value plans, several adapters on one
source, a failed first scan (it ends the process), and `create` and `update`,
which no local route calls (`PUT` and `POST /plans` answer 403).

**Writeback.** `job` and `anno` are the two tables; every mutation is one
action. A daemon's `poll` holds the step it is at and the batch it has fetched,
which may be old by the time a job's turn comes. `pending` and `saved` are the
map of unreported deliveries and its file; `forgotten` is history, the jobs a
daemon delivered and has no memory of. `Delivered` and `Answered` are two
steps, since the daemon may end between them. Left out: the approve action,
which differs in the route it calls, the wording of feedback and the limits per
poll.

**UiBundles.** `check` has one entry for the hourly timer and one for the
user, who is kept from a second check only by the first of his own. A dialog
keeps its check open. A sentinel is a timer with the revision it was set for;
`awaitingBootConfirmation` is one flag that all of them share. The window's
`ui-ready` message may be delivered after the next reload.

**DesktopBackend.** A worker is a process with a queue each way; `killed` is a
signal it has not obeyed yet. What follows a settled promise in the same turn
is part of the step that settled it, so the failed start of a restart arms the
timer again in the step that rejects it.

**DesktopAuth.** A request is in `calls` from the step that sends it to the
step that handles its answer. `generation` is the counter the code compares
after every await. A token is a sign-in and a number of rotations; one
that was replaced may be answered with its successor or turned away.
`mail` holds the daemon's messages.

**AccountDeletion.** A mutation is one action. The deletion is a `job` row and
up to `MaxChains` chains of scheduled steps, since asking twice starts two. A
chain that cancels at Stripe works on the subscription it read (`sub`), and the
mutation after it reads the job again. Plan phases and account phases are the
code's, with the tables that behave alike collapsed: the thirteen tables of a
plan to three (first, batched later, versions), and the owner-wide ones left
out. Trials start, and are skipped, in one step; one export at a time.

## 3. Runs

Twelve runs, each with the constants in its `.cfg`. All pass.

| run | question | states |
| --- | --- | --- |
| `approval_store` | any two callers, any requests, time and restarts | 6 k (up to symmetry) |
| `review_gate` | one hook end to end, with refinement of `PlanGate` and liveness | 373 k |
| `cloud_plans` | two uploads, of two devices that hold the same plan, against the whole web app | 2.6 M |
| `sync_worker` | one plan, two accounts, logout, restart, late uploads, liveness | 157 k |
| `start_lock` | three processes, one stall, two kills, liveness | 609 k |
| `desktop_daemon` | sign-in and out, hung and crashed workers, app restart, `agendex start` and `stop`, a supervisor that crashes, liveness | 159 k |
| `plan_index` | one file changed three times, two overlapping batches, one route, one failure, liveness | 364 k |
| `writeback` | two jobs, two sessions of one plan, one daemon, one mishap, with refinement of `Outbox` and liveness | 1.0 M |
| `ui_bundles` | a good and a broken bundle, two app versions, two sentinels at once, liveness | 106 k |
| `desktop_backend` | two directories, four mishaps, three processes, liveness | 267 k |
| `desktop_auth` | two sign-ins, one rotation each, two requests in flight, two mishaps | 2.4 M |
| `account_deletion` | two subscriptions, one plan, two chains, one fault, liveness | 1.0 M |

What a property with several parts says is written at each part in its module;
for instance `DaemonIsSafe` is the type invariant with `NoLostWorker`,
`OneDaemon`, `DaemonIsFindable`, `StopIsTrue` and `IdleIsQuiet`.

### Why the bounds are enough

* `approval_store`: capacity 1 with two ids makes every insertion meet a full
  store; lease 2, retention 1 and timeout 3 within five instants let every
  record expire, be disconnected and be forgotten in every order. Two owners
  and two revisions suffice for a stranger and a stale revision.
* `review_gate`: one hook, since hooks share nothing in the store but its
  capacity, which `approval_store` checks. Two revisions: approved and edited.
* `cloud_plans`: two requests are enough for each race of two transactions;
  a retention of 1 and `MaxVersion` 2 make the first rewrite prune. Two local
  plans with one identity key make a request find the other device's row.
* `sync_worker`: one edit gives an older and a newer payload,
  one retry gives a first and a second attempt, and a fault budget of one is
  spent on any of the faults.
* `start_lock`: three processes are an owner, a reclaimer and an onlooker.
* `desktop_daemon`: two process identities, used again, are an old and a new
  worker of the app; one is the supervisor's worker, and a new supervisor waits
  for it while an orphan has it. With two of these (896 k states) the invariant
  was checked too; the temporal properties would take too long. One restart
  within the window is enough for both outcomes of an exit. The message
  queue of a child is bounded by what a worker sends.
* `plan_index`: three changes are one before, one during and one after a pass.
  Two files with two changes and no failure were also checked, for safety.
* `writeback`: two jobs and two sessions that supersede each other are enough
  for a job to be remapped, for two to carry one annotation in turn and for one
  to lapse while the other is in hand; one event is spent on any of restart,
  sign-out, failed call, ended session or change by the owner.
* `ui_bundles`: revision 2 lies between the floors 1 and 3, so an app update
  overtakes it; 4 is newer than every floor and never renders. Two sentinels
  are an old one and a new one.
* `desktop_backend`: three processes are one that is being killed, one that
  boots and one that follows; a slot is used again.
* `desktop_auth`: two attempts are an older and a newer session, two calls are
  a refresh and a validation that overtake each other.
* `account_deletion`: batches of one and two with two rows per table give a
  full batch, a last batch and an empty one; two subscriptions let a webhook
  re-point the row; two chains are two requests.

`CHECK_DEADLOCK FALSE` stands where the system may stop: the bounded clock and
versions of `CloudPlans`, all processes killed in `StartLock`, edits used up in
`SyncWorker`, a signed-out app in `DesktopDaemon` and `DesktopAuth`, all jobs
ended in `Writeback`, an app that has quit in `DesktopBackend`, a closed window
in `UiBundles`, and a deleted account in `AccountDeletion`.

### Fairness, and why the code justifies it

* `review_gate`: the clock runs, timers fire and a hook goes on after an answer
  or timeout. The reviewer, the server and the file owe nothing.
* `sync_worker`: a pass goes on; an upload is answered or times out (30 s,
  `api.ts`); the rescan and retry intervals come round. A cloud that answers
  now and then answers some upload ok: strong fairness of a success, without
  which nothing could be promised.
* `start_lock`: a live process goes on with its call; one that is refused calls
  again (the retries of `agendex start` and of the manager); a holder releases.
* `desktop_daemon`: timers fire, messages arrive, a process told to end ends
  (the watchdogs, a forced kill), and a command's waits end. The supervisor owes
  nothing, and `EventuallyServed` speaks of a CLI that is not used for ever.
  Booting has strong fairness: among repeated boots some succeed.
* `plan_index`: reads end, timers fire. Nobody has to change or ask anything.
* `writeback`: the poll timer fires, calls return or fail, days go by. Nobody
  has to report, answer or sign in, except where the property says so.
* `ui_bundles`: the hourly timer and the sentinels fire, checks end, messages
  arrive and a page that can render does. Nothing is assumed of the user.
* `desktop_backend`: processes run, killed ones end, timers fire; an app whose
  first start failed quits (`index.ts`).
* `account_deletion`: the scheduler runs every function it does not lose.

### What the properties exclude on purpose

* `HolderKeepsLock` speaks of times when no live process outlived its lease.
* `SyncedStays` excepts uploads that outlived their timeout.
* `EventuallyServed` excepts a stop that is still on (section 4).
* `ReportedIsIndexed` and `CallersSeeTheirChange` excuse a file that could not
  be read, and one whose last rescan had been overtaken by a faster one.
* `CacheIsHonest` is checked for account changes while the worker rests,
  starts a pass, waits for an answer or ends a pass; see section 4.
* `DeliveredOnce` excuses a job whose delivery the daemon has forgotten:
  it ended, or the account changed, between the answer and the record.
* `NoLostWorker` of `DesktopBackend` counts a killed worker as not lost.
* `RemovedMeansCancelled` is claimed while the deletion was asked for once
  (section 4), and not of a subscription whose price the code does not know.
* `JobIsDriven`, `ArchivesAreOwned` and `DeletionEnds` except a lost action.

## 4. Known behaviours

What the models show of the code and a reader might not expect. Each is in the
model; none is a run, since each holds or fails by design of the code.

Cloud and upload worker:

* The sync endpoint's stale check reads a copy (`ee/convex/cli.ts:1599`); two
  requests that found the row both pass it and the older may be applied last.
  Only a row inserted meanwhile is checked again.
* A stale upload leaves its content hash on the newer row (`cli.ts:1600`). A
  later upload of that older content is taken for a duplicate, answered ok and
  not stored.
* A retry is compared with the newest upload that was answered
  (`cli/src/daemon.ts:307`). After a newer one was applied and its answer lost,
  an older one of the same `updatedAt` overwrites it.
* With the credentials gone, a pass fails without waiting and starts itself
  again at once (`daemon.ts:390`), and no timer runs any more.
* The account may change between the choice of an upload and the read of
  `requestScope` (`daemon.ts:312`): with `"pick"` added to `SwitchAt` of
  `MCSyncWorker.cfg`, `WorkerIsSound` is violated.
* The account may change away and back while an upload waits: if the watcher
  enqueues in between, the scope and the cache are the other account's
  (`daemon.ts:279`), but the comparison after the answer (`daemon.ts:322`) sees the
  account that was asked, and the answer is cached for the other one. With
  `SwitchAt = {"await"}` and `MaxFaults = 2`, `WorkerIsSound` is violated.

Machine:

* Four processes in `MCStartLock.cfg` violate `LockIsSafe`: an owner is killed,
  then the process that reclaims its lock; two more both find that claim dead,
  and the slower one drops the faster one's new claim (`cli/src/pid.ts:793`), after
  which both may unlink what is at the lock's path (`pid.ts:803`). Three
  processes, or one kill, cannot do this (section 5).
* A stop that gives up leaves `stopping` set
  (`desktop-daemon-manager.ts:204`), and later starts are refused until another
  stop succeeds. A stop of the backend that gives up clears it.
* Where a process list does not show the arguments of an orphaned worker
  (`OrphansSeen = FALSE`), `agendex start` after a crash of the app yields two
  daemons.
* A failing start reads the recorded worker before it tells the supervisor to
  end (`cli.ts:501`). One spawned after that, and orphaned by the kill, is not
  waited for, its record is removed, and the next daemon may start beside it
  until its watchdog fires. The manager looks for an orphan before it takes the
  lock (`desktop-daemon-manager.ts:213`), with the same effect for a supervisor
  that dies in between.
* An `agendex start` killed between the spawn of the supervisor and its first pid
  record leaves the lock free and no record for a moment (`CommandEnds` excludes
  it): another start then yields a second daemon.
* Two rescans of one file may end in the wrong order (`watcher.ts:95`), and the
  older read stays in the index until the next poll.

Write-back:

* A job delivered and not yet reported when it lapses is swept as `expired`,
  and its annotations are open again, though the session has the feedback.
* A report that finds its job ended changes nothing; pending jobs of ended rows
  are not moved to another session, and two may meet on one session by
  supersession.

Interface bundles:

* The sentinel of an earlier activation may find `awaitingBootConfirmation` set
  by a later one, and quarantines what is then active (`ui-updater.ts:243`).
* With no window open (macOS), a sentinel quarantines a bundle that was never
  loaded; a late `ui-ready` confirms one that never rendered.
* Two checks at once share a staging directory; a staged revision that was
  quarantined meanwhile can be applied; `promptShown` stays set when the staged
  bundle is cleared under an open dialog.

Sign-in:

* A sign-out whose daemon does not stop fails and keeps the credentials; a
  sign-in completed during a sign-out is erased by its end.
* A slow validation of an earlier attempt can replace a later sign-in.

Deletion and billing:

* A second request for a deletion starts a second chain. When the user buys a
  subscription between them, the late chain's `completeStripeCancellation` can
  remove the new row without cancelling it at Stripe.
* A subscription that moved to an unknown price reads `canceled` and is not
  cancelled at Stripe by the deletion.
* Two webhook handlers that overlap can write an older snapshot over a newer.
* What others add to a plan after its phase has passed, and what webhooks or
  paid checkouts add after the end, stays.
* A lost action (they run at most once) stops a deletion until it is asked for
  again; a lost builder leaves its archive in the storage.

## 5. Proofs

Eight modules hold theorems; together they state every property of the runs that
is not a liveness property. Each proof but the store's is built around one
inductive invariant, that was first checked by TLC on the instance of its run,
then proved step by step; the properties of the run follow from it. Modules
about two components have one invariant for each.

| module | inductive invariant | properties of a run it proves |
| --- | --- | --- |
| `ApprovalProofs` | `TypeOK`, `AckedWasDecided`; `HookInv` | `CapacityBound`, `DecisionsAreFinal`, `DeliveryIsKept`, `LiveReviewsKept`; `CancelledIsNeverGranted`, `GrantSawTheFile`, `RefinesPlanGate` |
| `PlanSyncProofs` | `PlansInv`, `RequestsInv`; `WorkerInv` | `OneRowPerLocal`, `HistoryIsCurrent`, `BaselineIsKept`, `LateFirstSyncKeepsNewer`; `WorkerIsSound`, `SyncedStays` |
| `WritebackProofs` | `Carried`, `DaemonInv` | `SubmittedIsCarried`, `DeliveredOnce`, `RefinesOutbox` |
| `PlanIndexProofs` | `FileInv`, `PassInv`, `CacheInv`, `TaskInv`, `WaitInv` | `ReportedIsIndexed`, `CallersSeeTheirChange` |
| `DaemonProofs` | `MachineInv`, `CommandInv`, `ManagerInv`, `QuietInv`, `NoLostWorker`; `LockInv` | `DaemonIsSafe`; `LockIsSafe` |
| `DesktopAppProofs` | `ChildInv`, `StopInv`, `ServesNewest`, `NoLostWorker`; `UiInv` | `BackendIsSound`; `UiIsSound` |
| `DesktopAuthProofs` | `IInv` | `LoggedOutStaysOut`, `LiveSessionKept`, `TokensMoveForward` |
| `AccountDeletionProofs` | `BillInv`, `PlanInv`, `ChainInv`, `ArchivesAreOwned` | `DeletionIsSound`, `RowsFollowStripe` |

`ApprovalProofs` proves of the store, for every set of ids, owners, revisions and
requests and every lease, retention, timeout and capacity:

* `Typing`: `Spec => []TypeOK`, and `Bounded`: the capacity is kept. `create`
  evicts only while the store is full, so the bound needs that the swept store
  is a subset of the present one (finite-set lemmas of the library).
* `Finality`, `Liveliness`, `Irrevocability` and `NoLiveEviction`: the action
  properties. Each follows from one lemma about what a step may do to a row,
  `StepRows`: whatever the action, a row that stays is the old one swept and
  then at most changed by the one operation (`ChangesTo`).
  Irrevocability is not inductive by itself: that a delivered row is not swept
  to another status needs the invariant `AckedWasDecided`, that an acknowledged
  row is a decision or superseded.

Of the cloud, `PlanSyncProofs` proves, for every number of requests in flight, devices,
plans, texts and versions, every retention window, and every pruning batch of
two or more:

* `Typing` and `Immutability` (what a version holds never changes);
  `Convergence`, `Currency` and `Baseline`, the invariants of the run
  `cloud_plans`, and `LateSync`, its action property.
* Whatever the endpoint or the web app does is one of six steps on rows, history
  and reads (`PlanStep`: insert, patch, new text, delete, read, nothing).
  `PlansInv` is shown for the six steps, one lemma each; `NextIsPlanStep` shows
  that every action takes one of them, from what its request knows
  (`RequestsInv`: the row a request found was inserted, and is live or gone).
  `Lasting` says what any step leaves to the requests that wait.
* The invariants are not inductive as stated. A version is unique in a history,
  or one pruning could leave two texts under it; a row that is not live has no
  history and no read, or an insertion would inherit them; and at most one entry
  lies below the window (`Describes`, last conjunct). The last one makes the
  bound of `TypeOK` hold: one write pushes one entry out of the window, so two
  entries are looked at, and a batch of two removes all but the protected one
  (`FewAreOldest`, `PrunedToWindow`). With a batch of one it would not.
* `LateSync` rests on `LateMutation`: a request that found no row can end only
  by its own mutation, which inserts elsewhere or looks again.

Of the upload worker it proves, for any number of plans, accounts, saves,
retries, late uploads and restarts:

* `QueueAlwaysOnce`, without a hypothesis: the queue and the batch hold a plan
  once, wherever the account changes. `Push` is a recursive function, and the
  library's induction cannot be used with it, so `StepByStep` says induction of
  sets of numbers: a set with 0 and the successor of each of its numbers up to n
  holds them all (from `SmallestNumber`, which rests on the library's
  well-founded order of finite sets). With it `PushKeeps` follows push by push,
  and `ListedOnce`, that a set of numbers can be listed in order.
* `WorkerAlwaysSound` and `SyncedAlwaysStays`, the invariant and the action
  property of the run `sync_worker`, under the hypothesis `ScopeHolds`: the
  account does not change between the choice of an upload and its request,
  and, if it may change while an upload waits, there is one fault at most. The
  constants of the run satisfy it; without it both windows of section 4 are open
  and the theorems would be false. While the account changes only between
  uploads, nothing is assumed of how often it does.
* `WorkerInv` follows an upload: a request is of the payload that is current
  (`PassInv`); what has been answered is in the cloud, and what is still under way
  is newer than all that was answered (`RequestInv`); the scope is the account's
  from the choice to the answer, or the account has changed and the answer will
  not count (`ScopeInv`). So what is remembered is true of the account
  (`MemoryInv`): the cache names what the cloud answered for, and the order
  memory is no newer than the cloud's row, which only gets newer (`CloudGoesOn`).

Of the gate, `ApprovalProofs` proves, for any number of hooks at one server and
whatever is lost, late, restarted or edited:

* `GateTyping` and `Approval` (who is let through was approved); `Cancellation`
  and `Freshness`, the invariants of the run `review_gate`, and
  `Refinement`: the gate implements `PlanGate`, so an agent is let through at
  most once, after a decision that was handed over.
* The invariant speaks of one hook at a time (`HookInv`). Most steps leave a hook
  alone or only take something away from it (`Quiet`, one lemma for all of them);
  its own submission, acknowledgement and answer, the server's work on its
  requests, the verdict, the withdrawal and an edit have a lemma each.
* The strengthening ties together what is in flight. A decision leaves traces
  (`Settled`: a view, a reply, a row, an acknowledgement under way), and while
  there is one the row is not pending, so no second decision is possible. A
  submission in flight means that nothing of the review exists yet, so it is
  inserted at most once. A delivered row stays acknowledged, so a cancellation
  that comes later is refused, and what was granted was never withdrawn.
* What the store's methods may do to a row (`Calm`) comes from the store's own
  lemmas, in the first half of the module.

`DesktopAuthProofs` proves, for any number of sign-ins, rotations, requests in
flight, restarts and failures:

* `SignOutIsFinal`: the invariant of the run `desktop_auth`, and
  `LiveSessionIsKept` and `TokensOnlyMoveForward`, its two action properties.
* That no ended session comes back needs more than what is stored: a validation
  whose answer would count, and the attempt that is pending, are never of a
  session a sign-out has ended or is about to end (`Closing`), though the answer
  is awaited across the sign-out; and no held token is newer than the cloud's.
  `AnswerStep` says once what any answer may do to the stored credentials, and
  the three theorems use it.

`WritebackProofs` proves, for any number of jobs, annotations, plans, sessions and
daemons:

* `CarriedAlways` and `OnceAlways`, the invariants of the run `writeback`, and
  `OutboxRefined`: the cloud and its daemons implement `Outbox`.
* That a submitted annotation has a job needs little more (`Carried`: the job it
  names exists, is pending or sent, and lists it). That nothing is delivered
  twice needs the memory of a daemon (`MemoryInv`): a delivery that was not
  forgotten is remembered, or just about to be, or the job has ended and is not
  in the batch in hand. The batch is old when its turn comes, so `BatchInv` says
  that it names no job twice.
* All that the rest of the system may do to a daemon is to move jobs forward
  (`Forward`: a job that is there stays, one that ended keeps its end). With it a
  step need only be looked at for the daemon that takes it (`Together`).

`PlanIndexProofs` proves, for any number of files, rescans, callers, changes and
failures:

* `ReportedAlwaysIndexed` and `CallersAlwaysSee`, the two safety properties of the
  run `plan_index`.
* Neither is inductive: a pass that read a file before its change may still
  replace the index, and a slow rescan may still write what it read. The
  invariant follows a change: somebody has the file to read (`Owed`), or a rescan
  has read it and will write it (`Brought`), or the index has it. What a pass
  holds of a file is new enough, or the file will be read again in the replay
  (`PassInv`); a cached parse is no older than its fingerprint (`CacheInv`), or a
  pass could take an old parse for a new file; and of a caller that waits it says
  which pass will answer (`WaitInv`).

`DaemonProofs` proves, for any number of processes of the app and of the CLI,
any restart limit and any number of crashes:

* `DaemonAlwaysSafe`: `DaemonIsSafe`, the invariant of the run `desktop_daemon`,
  under the hypothesis `OrphansSeen`, the value the run gives it: the process
  list shows the arguments of an orphan, which is how the code recognises one
  (`readProcessCommand`, `cli/src/pid.ts:606`). Without it the code lets two
  daemons run (section 4), so the theorem would be false.
* That one daemon serves follows from the pid file: a worker of the app that has
  booted is in it, also as an orphan, and then there is no supervisor
  (`MachineInv`). Nobody may write over that record. For this one needs what the
  holder of the lock knows, wait by wait (`CommandInv`), and that the manager's
  child, while it has not booted, has the lock or was told to end and will never
  boot (`ManagerInv`).
* The CLI's steps are proved once for the machine (`MachineSafe`) with what they
  leave to the app (`AppUndisturbed`); each step of the manager has a lemma.

Of the startup lock it proves, for any number of processes, kills and leases:

* `HolderKeepsLockOfOneDead`: as long as no live process outlived a lease and at
  most one process is dead, the lock of whoever holds it is its own, whatever
  number of processes start, reclaim and release. `LoneStarterAlwaysWins`: a
  process that was alone during its call gets the lock, past any number of locks
  and claims that dead ones left, with three attempts (the code
  makes three, `pid.ts:869`; with two it may be refused).
* `LockAlwaysSafe`: both, which is `LockIsSafe`, the invariant of the run
  `start_lock`, for three processes and any number of kills, or one fault and any
  number of processes. The hypothesis is needed: two dead of four break the lock
  (section 4).
* The invariant says whose the files are (`FilesInv`, `StampInv`: a stamp seen is
  of the lock it was read from, which rests on counting that a fresh one is always
  left, `StampIsFree`); before a lease passes under a live process what is stale is
  of a dead one (`CalmInv`); and while one process at most is dead nobody drops a
  claim, so a claim stays its owner's from `Verify` to the unlink, and the lock it
  is on cannot have changed (`ReclaimInv`). With three processes and two dead the
  third has no rival. `LoneWay` is the way of a process that is alone: every
  attempt removes one obstacle.

`DesktopAppProofs` proves, for any number of process slots, directories,
crashes and timeouts:

* `BackendAlwaysSound`: no running worker is forgotten, and the directory last
  decided on reaches the worker in use.
* The manager's fields must be tied to each other: a child is connected, awaited
  or on its way out (`ChildInv`), so a fork never pushes a healthy worker aside,
  and a stop keeps the worker it stops until that is killed or gone (`StopInv`).

Of the interface updates it proves, for any revisions, broken or not, app
versions, sentinels, dialogs, overlapping checks and failures:

* `UiAlwaysSound`: `UiIsSound`, the invariant of the run `ui_bundles`: a bundle in
  doubt is awaited and watched by a sentinel, and the window shows what the store
  resolves to.
* That the window is current when nothing reloads it needs that an installation
  or a pruning changes no directory the store resolves to: a bundle that is active
  or staged has its directory (`NamedIsOnDisk`), and only the active bundle is in
  doubt (`InDoubtIsActive`), so a revert always changes what is served.

`AccountDeletionProofs` proves, for any number of subscriptions, plans, rows,
dependent rows and chains, any batch sizes, and whatever fails or is lost:

* `DeletionAlwaysSound`: `DeletionIsSound`, and `RowsAlwaysFollowStripe`: the action
  property `RowsFollowStripe`, both of the run `account_deletion`.
* That a removed row's subscription has ended is known three transactions earlier.
  The invariant carries it: what waits at Stripe, in a webhook or in a fetched
  copy is of a subscription that has begun, and a copy or row that says
  `canceled` is of one that has ended (`BillInv`); what the job names need not be
  cancelled only if it has ended (`NamedBegun`); with one request there is one
  chain, what it cancels is what the job names, and once it completes that has
  ended (`OneChain`). With two requests this fails, as section 4 says.
* A job is driven if some chain does what its phase asks for (`Drives`); that some
  chain is not idle would not be inductive, since a chain at a step of another
  phase ends without scheduling anything.

The bounds `MaxTime`, `MaxCreated` and `MaxVersion` are only guards that no proof
uses; other bounds are used in type invariants alone. The assumptions are the
named ones of the modules; `OrphansSeen`, `ScopeHolds` and the hypotheses of
`LockAlwaysSafe` are stated in the theorems that need them.

TLC alone checks:

* liveness, under fairness: `HookAnswers`, `EventuallySynced`, `LockIsNeverStuck`,
  `EventuallyServed`, `StatusIsHonest`, `IndexIsLive`, `EventuallySettled`, `UiSettles`,
  `PinHolds`, `EventuallyRestored`, `StopReturns`, `CleanupDrains` and
  `DeletionEnds`. No theorem speaks of liveness or of what ENABLED says: the
  prover reaches neither. Of a recursive function it reaches what holds after
  each step (`PushKeeps`), not what the whole computes;
* what a theorem's hypothesis leaves out: the values of `SwitchAt` and `MaxFaults`
  outside `ScopeHolds`, four processes with two kills in `StartLock`, and a
  process list without arguments in `DesktopDaemon`, where the code does not keep
  the property (section 4).

## 6. Limits

A model reaches what its bounds reach. Beyond those named above: the network
layer, authentication and access checks, parsing of agent formats, the text of
messages and layout are not modelled. Section 1 and `PROJECT.json` list the
components without a module and the reason for each.

## 7. Plan

What would come next, in order; a new component shares the run of a present one.

1. The owner-wide phases of the account deletion with collections and reviews.
2. A composition of `PlanIndex` and `SyncWorker`: a saved plan arrives in the
   cloud.
