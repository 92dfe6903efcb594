# Windowkeeper in TLA+

Windowkeeper keeps the usage windows of several Codex accounts running: it reads
each account's usage, plans the next *activation* (one short turn, which starts
a new window), submits it once, and tells the operator by webhook when something
needs attention.  It is one Python process on one asyncio event loop; everything
it must remember is in SQLite, and one thread executes the database jobs one
after another.  The difficulty is not in any single function: some thirty
coroutines read and write the same few rows in separate jobs, the submission
itself cannot be undone or repeated, and the process may end between any two of
these steps.

Around this core stand a client for the Codex process, a vault whose keys can be
changed, commands that may own the data directory instead of the service, and a
stream of events to the browser: each with queues, races or crashes of its own.

This directory holds the specifications, what TLC checks of them, and what TLAPS
proves.

| file | content |
| --- | --- |
| `Schedule.tla` | the schedule decision, a pure function of the evidence |
| `Activation.tla` | one account: plans, tasks, refreshes, operator, shutdown, crash, reconciliation |
| `ActivationPromise.tla` | what an operator may rely on about attempts; `Activation` implements it |
| `ActivationProofs.tla` | type correctness and "at most one submission", proved |
| `ActivationPromiseProofs.tla` | `Activation` implements `ActivationPromise`, one attempt in flight, an honest credential mark, nobody forgotten, proved |
| `ActivationWindowsProofs.tla` | no two submissions for one window, proved |
| `Login.tla` | one account: sign-ins, their cancellation, the stored credential, managed calls, the trees Codex runs in |
| `MCLogin.tla` | a statement of the documentation which the code does not keep |
| `LoginProofs.tla` | the credential is kept, the runtimes and the rows have owners, an accepted cancellation counts, proved |
| `RpcClient.tla` | one Codex app-server process and its client: requests, reader, notifications, `close()` |
| `RpcPromise.tla` | what the callers of that client may rely on; `RpcClient` implements it |
| `RpcProofs.tla` | the safety part of that promise, the stream's end and its newest entries, no process left by `close()`, proved |
| `Instance.tla` | one data directory: lock, migrations, vault keys, the commands that own it |
| `InstanceProofs.tla` | a key file always opens what is stored, a service has the right key and is alone, a whole copy is left, proved |
| `Events.tla` | live events: replay ring, bounded queues, reconnection |
| `EventsProofs.tla` | no event is missed in silence and none arrives out of order, proved |
| `Notifications.tla` | incidents, events, the webhook outbox and its dispatcher |
| `MCNotifications.tla` | a short retry table for TLC |
| `NotificationsProofs.tla` | the safety properties of deliveries, their leases and of incidents, proved |
| `*.cfg` | one for each run below |
| `PROJECT.json` | components, runs, mutants, the lines each definition models, findings, hazards, theorems |

## The system

### Components, their state and their operations

*Activation attempts* (`services.py`).  State: `activation_attempts` (one row
per attempt; `UNIQUE(account_id, window_key)`), the `activation.run` rows of
`operations`, `account_state.activation_state`, and one coroutine per operation.
Operations: `plan`, `_run_due_activations` (claim), `activate`,
`_run_activation` with its inner jobs, `_await_turn`, `_complete_activation`,
`_handle_activation_error`, `_ambiguous_activation`, `acknowledge_ambiguity`,
`set_enabled`, `delete_account`, `close`, `reconcile_startup`,
`_reconcile_activation`.  Correct when: no attempt is submitted twice, no two
attempts for one window are, one attempt is in flight at a time, what is
recorded is what happened upstream, ambiguity blocks until someone has looked,
and everything that starts ends.

*Schedule decision* (`domain/scheduling.py`).  No state.  Correct when one
window never gets two keys, whatever the evidence drifts by.

*Usage refresh* (`services.py`, `domain/usage.py`).  State: `usage_current`,
snapshots, the `usage.refresh` operation that later requests are coalesced into.
Correct when a refresh always ends, and a failed one leaves no plan behind that
it has made groundless.

*Managed credential use* (`services.py`, `runtime.py`, `vault.py`).  State: the
lock per account, `account_state.worker_state` (`STOPPED`, `IN_USE`,
`QUARANTINED`), the active bundle, the runtime's files, the set of quarantined
runtimes held in memory.  Everything that talks to Codex for an account goes
through `_run_managed`: lock, mark `IN_USE`, start a runtime, call, checkpoint
the credential, discard the runtime, mark `STOPPED`.  Correct when the marker is
true at every crash, a credential that Codex has renewed is never lost, and a
stale one is never used as if it were verified.

*Login* (`services.py`, `oauth.py`).  State: `login_attempts` (at most one that
is not final per account, by a unique index), the interactions in memory, the
`ACTIVE` and `EXPORT` bundles.  Operations: `start_login`, `_run_login` with
`_capture_login`, `_promote_login_source`, `_fork_credentials` and
`_commit_login`, `_fail_login`, `cancel_login` and `_cancel_login_runtime`.
Correct when a sign-in that was cancelled does not replace the credential, every
sign-in ends, and afterwards the account can be used, or signed in to, again.

*Codex app-server client* (`codex/client.py`).  State: one child process, the
requests in `_pending` by id, the lock of its writer, the reader task, a queue of
256 notifications which drops the oldest, `_terminal_error`, `_closing`.
Operations: `spawn`, `request`, `notifications`, `_read_loop`, `close`.  Correct
when an answer reaches the request it was given to and no other, whatever comes
late or out of order; when nothing waits on after the process is gone; and when
`close()` leaves no process behind.

*Incidents* (`services.py`).  State: `incidents`, at most one `OPEN` row per
account and problem.  Correct when each is announced once as opened, and each
occurrence and resolution is announced.

*Webhook outbox* (`webhooks.py`).  State: `webhook_events`,
`webhook_deliveries`, `webhook_destinations`, the dispatcher loop.  Correct when
nothing is recorded as delivered that was not, nothing is posted without end,
and what is due is posted.

*Database writer* (`database.py`): one thread, one transaction at a time, in
order of submission.  A job that waits can be cancelled with its coroutine; one
that is being executed cannot.

*Process lifecycle* (`web/app.py`, `singleton.py`): singleton lock, migration,
`verify_vault`, `reconcile_startup`, then the loops and the dispatcher; `close()`
at the end.

*Vault and the commands that own the data directory* (`vault.py`, `cli/main.py`,
`database.py`, `singleton.py`).  State: the database with its schema, the sentinel
of the key it is sealed with and what is sealed; the rollback copy a migration
makes; a backup; the `-wal` file; the key files and the one configured; the flock.
Operations: `serve`, `init`, `password-set`, `status`, `backup`, `restore`, `vault
generate-key`, `verify` and `rotate`.  Correct when, wherever one of them is
stopped, a key file remains that opens what is stored, the database is of one
schema, and a service that runs is left alone.

*Live events* (`events.py`, `web/app.py`).  State: a counter, a ring of the last
events, a bounded queue per tab.  Correct when a tab misses nothing without being
told, and gets nothing twice or out of order.

*The rest*: maintenance pruning, administrator sessions, log book, web pages,
configuration.

### How they interact

`scheduler -> claim -> _run_activation -> _run_managed -> client`: the task holds
one attempt and one operation and finishes both.  `poller or operator -> refresh
-> _run_managed -> _commit_usage -> plan`: a refresh ends in planning, and so do
`enable` and `acknowledge`.  Task, refresh, sign-in and reconciliation wait for
the same lock of an account.  Each managed call spawns its own Codex process and
talks to it through one `AppServerClient`; a turn ends for the task when the
notification arrives, when the client says the process is gone, or by timeout.
All of them write `account_state`.  Task and refresh report problems through `open_incident`, which writes the incident in one
job and calls `emit()` for the event and its deliveries in another; the
dispatcher only sees the rows.  The service and the commands of the CLI meet only
in the data directory: each takes the lock, opens the database, migrates it if it
must, and reads the key it was given.

### What is hard

Every `await` separates a look from an act: eligibility is read and used in
different jobs, `plan()` reads its evidence and inserts in two, an incident and
its event are written in two.  Several writers share `activation_state`.
Upstream may accept a turn whose answer never arrives, and Codex may stop reading
or exit while requests of several coroutines are on their way.  A crash may come between
the mark `TURN_DISPATCHING` and the request, or between the request and its
answer.  A shutdown cancels every coroutine once, wherever it stands.
`PROJECT.json` lists these hazards line by line with the properties aimed at each.

## The models

### Activation

One account, since accounts share no rows.  The grain is one action per database
job or awaited call.  A coroutine is a record `[pc, of, error]`: `pc` names the
await it will return from, `of` its attempt, `error` the class of the exception
it carries as far as handlers distinguish (`ineligible`, `definite`, `unsafe`,
`other`).

| actions | code |
| --- | --- |
| `Claim` | `_run_due_activations` |
| `ActivateRequest`, `ActivateAdmit` | `activate` before and in its admission job |
| `Start`, `Precheck` | `_run_activation` up to the managed call |
| `Acquire`, `Boot`, `Finish` | `_run_managed`, `_run_managed_locked`, `_credential_use_*` |
| `CreateThread`, `Recheck`, `MarkDispatching`, `SendTurn`, `TurnReply`, `AcceptTurn`, `AwaitTurn` | the call inside: thread, second check, submission, wait |
| `Complete`, `HandleIneligible`, `RecordFailure`, `OpenIncident` | the outcome |
| `Disable`, `Enable`, `Acknowledge`, `Delete`, `RecoverCredential`, `Reauthenticate`, `SignInLost` | the operator; a sign-in is one step, which commits or leaves a preserved runtime behind |
| `RefreshStart` ... `RecordUsageFailure` | `refresh`, `_run_refresh`, `_commit_usage`, `_record_usage_failure` |
| `ResolveIncident`, `PlanAccount`, `PlanEvidence`, `PlanCreate` | the rest of `acknowledge_ambiguity`, and `plan` with its account row, read and insert |
| `Close`, `Restart` | `close`, and the end of the process with the job of `reconcile_startup` |
| `ReconcileStart` ... `ReconcileDone` | `_reconcile_activation` and the end of `reconcile_startup` |
| `UpstreamEnds` | Codex itself |

Points where the model has to be as precise as the code to mean anything:

- `CreateThread` writes `THREAD_CREATED` without looking at the row, and
  `MarkDispatching` is conditional but its row count is ignored.
- `Failure` decides between `AMBIGUOUS` and `FAILED_DEFINITE` from the row and
  the class of the error, exactly as the job does.
- `Close` cancels every task once.  A job that waits in the queue is dropped with
  it, but one that is being executed commits while its task learns only of the
  cancellation; this is modelled where it makes a difference.
- `Restart` contains the whole reconciliation job, including the order in which
  `activation_state` is overwritten.
- `ReconcileSettle` settles the newest operation of the account, as the code
  does, not the one of the attempt.

`ActivationPromise.tla` says the same without schedules, tasks, locks or restarts:
an attempt is proposed, submitted at most once and never beside one in doubt, and
what is recorded of it, success, failure, doubt or withdrawal, is true of its turn
and stays.  `KeepsPromise` states that `Activation` implements it under the
refinement mapping written there: `record` is read off the column `state`, `turn`
is upstream's.  Submissions of planned and of requested attempts, completions,
failures, reviews, the restart and the proof found by reconciliation all have to
be steps of it.

Three history variables support the properties: `revoked` (attempts `set_enabled`
cancelled in flight), `cutOff` (completions a shutdown cut off) and `unread` (pairs
of a row and an attempt planned for a reset from evidence read before that row was
there; the planner's `read` remembers which rows its evidence had).  Each stands for
a departure of the code listed below, and the properties that mention it say what
holds in spite of it.

Abstracted: texts, error codes beyond those classes, the audit table
`activation_operations`, events published to browsers, the derived
`overall_state`; one percentage stands for both windows, since every guard asks
only whether either is exhausted; the jitter is part of the constant delay; a
semaphore over all accounts can only delay a task and is part of the wait for
the lock.

`Schedule.tla` is used by `PlanEvidence`: `DecideSchedule` translates the ladder
of `decide_schedule`, and `Admissible` the two filters `plan` puts behind it.
`PlanEvidence` always decides from the stored usage.  `_run_refresh` hands `plan` the
window it has just stored (`short_override`, `services.py:1917`), which is older than
the stored usage only if another refresh stored its own in between; the model then
plans from the newer.
Keys are records of kind, time and span instead of formatted strings; two keys
are equal exactly when the strings are.

### Login

One account again, at the same grain.  The data is the credential: upstream
issues credentials in order, so one is a number and the newest of the managed
lineage is `live`.  A runtime is a tree of files on disk; `file[t]` is the
credential Codex has left in tree `t`, `slot` the tree that
`RuntimeManager._runtimes` names, `held` the one in `_quarantined`.  Neither
`live` nor `issued` is known to the program: the properties compare what the
program stores with what it ought to have stored.

| actions | code |
| --- | --- |
| `StartLogin`, `RecordLogin` | `start_login` with its operation and its attempt |
| `EnterLogin` ... `Verify` | `_run_login` up to the end of `_capture_login` |
| `PromoteLogin`, `DiscardSource` | `_promote_login_source` and the end of the source runtime |
| `ForkUse` ... `BranchFork` | `_issue_fork_candidate`, once for the managed and once for the exported credential, and `_fork_credentials` around it |
| `CommitLogin`, `CleanUp`, `FailLogin` | `_commit_login`, the handlers of `_capture_login` and `_run_login`, `_fail_login` |
| `CancelRequest`, `CancelLogin`, `CancelBegin` | `cancel_login`: its look at the interaction, its job, its operation |
| `CancelLook` ... `CancelInterrupted` | `_cancel_login_runtime` job by job |
| `CallRequest` ... `CallInterrupted` | `refresh` and `_run_managed_locked`: mark, start, call, checkpoint, discard or preserve, unmark |
| `StopRequest`, `StopLook`, `StopRuntime`, `DeleteAccount` | `set_enabled(False)` and `delete_account` with `RuntimeManager.stop` |
| `Close`, `CloseRuntimes` | `close` of the services, and then of `RuntimeManager` |
| `Restart` | the end of the process with `reconcile_startup` |

- A cancellation is a flag `cut` that the task meets at its next await.  Jobs that
  are being executed commit anyway (`Continues`), steps behind `_await_critical`
  go on to their end (`Shielded`), and each handler takes the path its `except`
  takes: discard, preserve, archive.
- `CancelLook` takes whichever runtime the account has by then (`target`),
  `CancelSend` waits for its lock, also if it is no longer registered, and
  `CancelState` and `CancelOperation` write without a condition, as the code does.
- `FailLogin` leaves a row that says `CANCELLED` alone, as the handler of
  `_run_login` does, and only marks one that says so after the handler has looked
  when the process is going down.
- `Rotate` may renew the credential and still answer with an error; `CallCodex`
  may renew it whether the call succeeds or fails.
- `StopLook` finds the runtime, `StopRuntime` waits for its lock: between the two
  the runtime may be discarded, preserved or followed by another.
- The trees survive the process, but are on a tmpfs that goes with the container:
  `Restart` leaves the files or deletes them all.  The numbers of trees that are
  gone are given again.

Two history variables: `leaked` (a cancellation hit the cleanup of a runtime) and
`erased` (`stop`, or the end of the container, deleted the only copy of the newest
credential). Abstracted: the interaction's texts, nonce and pasted callback, the
identity behind a token (it may or may not be the expected one), retired bundles,
incidents, `accounts.enabled`. Database jobs and the deletion of files are taken
not to fail.

### RpcClient

One `AppServerClient` from `spawn()` to its end, with the process at the other
side of the pipes.  A frame is an answer, a notification or garbage; a pipe holds
whole frames.  The grain is the step between two awaits.

| actions | code |
| --- | --- |
| `Issue`, `Write`, `Drained`, `Return`, `TimeOut`, `Cancel` | `request`: refusal after a terminal error, entry in `_pending`, the writer lock, `drain`, the wait for the answer, and every way out of them |
| `Spawned` | `spawn` after its `initialize` request, which `Init` has begun |
| `ReadFrame`, `ReadEof`, `ReaderStops` | `_read_loop` with `_dispatch`, `_fail_pending`, `_queue_notification`, `_wake_notification_waiters` |
| `Consume`, `Leave` | the coroutine that iterates over `notifications()` |
| `CloseStart`, `CloseReaped`, `CloseKill`, `CloseHurried`, `CloseDone`, `CloseCut` | `close`: terminate, wait ten seconds, kill, the `finally` clause, and a cancellation at each await |
| `ChildReads`, `ChildAnswers`, `ChildNotifies`, `ChildGarbles`, `ChildExits` | Codex |

- Codex may answer an error, late, in any order or never, send what does not
  parse, stop reading, ignore SIGTERM, and exit at any moment; what it has written
  before can still be read.  It does not close its output while it lives on.
- `Closers` may call `close()` at the same time, and again after an attempt that
  failed.
- `TimeOut` may win over an answer that has arrived and not been collected, as
  `asyncio.wait_for` may.

`RpcPromise.tla` is what the callers rely on, with nothing of pipes, queues or
locks: a request gets only an answer Codex gave to it, and one result; notifications
do not overtake each other; their stream ends without an error only if somebody has
closed the client; and once the process is gone every request ends and so does the
stream.  `KeepsClientPromise` is the refinement, its liveness included.

What the model says of the code beyond its properties: neither the wait for the
writer lock nor `drain()` has a deadline, so a Codex that stops reading holds all
requests until something closes the client; a request in line for the lock when
the transport fails gets its error and is written all the same when its turn
comes; and `_fail_pending` may replace an earlier terminal error by a later one.

### Instance

One data directory and the processes that may own it, one action per file
operation, lock operation or transaction: a process may be killed between any two.
What is sealed is known only by the key it is sealed under.

| actions | code |
| --- | --- |
| `Begin`, `BeginWithKey`, `Acquire`, `Exit`, `Unlink` | the beginning and the end of a command: `init` and `rotate` write their key before they take the lock and remove it after they release it |
| `Open`, `EndScript`, `Seed` | `Database.start`: replay of the log, rollback copy, migration, restoration, seed row and checks |
| `ReadKey`, `Verify`, `Seal`, `Shutdown` | `serve` |
| `InitVault`, `InitPassword` | `init` |
| `RotateBegin`, `RotateEnd`, `Close`, `Linger`, `LingerCommits` | `vault rotate`, and its interruption: `Database.close` waits ten seconds, the transaction may outlive the lock |
| `Backup`, `BackupEnd`, `Restore`, `Replace`, `Replaced` | `backup` and `restore`, which take the lock and never start the database |
| `Look` | `password-set`, `status`, `vault verify` |
| `Interrupt`, `Crash` | Ctrl-C or an exception nobody expects; a kill |
| `GenerateKey`, `Configure` | the operator |

One pending migration stands for any number.  Taken for granted: SQLite's
transactions are atomic, what is fsynced is on the disk, there is no power loss,
and the operator configures a key only after the command that makes it has ended
and discards no key file.  `cut` is a ghost: a process was stopped in the middle of
a migration, or between the two steps of a restore.

### Events

The `Broadcaster` and one tab, since tabs do not concern each other: `Publish`,
`Subscribe` with its replay, `Deliver` (a chunk of the stream), `Disconnect`,
`Reload` and `Restart`.  Only ids count; a gap has one, too.  `seen`, `warned` and
`since` are ghosts: what the tab got, the newest gap it got, and from where on it is
owed anything.  Heartbeats are left out, and what is under way on a connection
counts as received, since a tab that reconnects asks from the last id it has.

### Notifications

Incidents of one account; coroutines (`Reporters`) that stand between the
incident job and `emit()`; events in order of insertion; one delivery per event
and destination; one dispatcher; `received`, what the destination saw.

| actions | code |
| --- | --- |
| `OpenIncident`, `ResolveIncident`, `CloseIncidents` | `open_incident`, `resolve_incident`, the job of `delete_account` |
| `Emit`, `Test` | `emit`, `test` |
| `CreateDestination`, `SetEnabled`, `DeleteDestination` | the destination handlers |
| `StartDispatcher`, `Claim`, `Post`, `Answer`, `Finish` | `start`, `_claim`, `_deliver`, `_finish` |
| `Restart` | the end of the process and `recover` |

The lease token is not a variable: with one dispatcher the token in `_finish`
matches exactly as long as the row exists, which is what `Finish` asks.  Pruning
of rows after 30 and 90 days is left out.

## What TLC checks

Every property has a mutant in `PROJECT.json`: a plausible error in one modelled
definition, such as a forgotten state or a missing tolerance, under which the same
run finds the property violated.

| run | instance | shows |
| --- | --- | --- |
| `activation_ordinary` | 2 attempts, 2 operations; operator requests, refreshes with every outcome, acknowledgment, deletion, sign-in | `TypeOK`, `KeepsPromise` |
| `activation_operators` | operator requests, disable, enable, sign-in, shutdown, two crashes | `AtMostOneSubmission`, `OneInFlightUnlessRevoked`, `CredentialHonest`, `KeepsPromise` |
| `activation_planning` | clock up to 3, a reset that moves between 2 and 3 (tolerance 1), three percentages, sign-ins that are lost | `OneSubmissionPerWindow` |
| `activation_liveness` | planned attempts, refreshes, deletion, shutdown and one crash under `FairSpec` | `Attended`, `EveryAttemptSettles`, `EveryOperationEnds`, `EveryRefreshEnds`, `StartupEnds`, `DuePlanStarts` |
| `incidents` | two coroutines, 2 incidents, 5 events, a restart | `OpenedOnce`, `OccurrencesAnnounced`, `LastWordTrue` |
| `outbox` | one coroutine, 2 events, one destination that may be disabled, tested and deleted, clock up to 2, a restart, under `FairSpec` | `SucceededMeansReceived`, `PostsBounded`, `OutcomeKept`, `DueIsClaimed`, `LeaseEnds` |
| `login` | 2 sign-ins, cancellation, managed calls, shutdown; 3 credentials, 3 trees | `HealthyMeansStored`, `RuntimeOwned`, `UnfinishedIsAttended`, `CancelledNeverPromotes` |
| `login_stopped` | 1 sign-in, cancellation, managed calls, disable, deletion and one crash under `FairSpec`; 3 credentials, 2 trees | `CredentialKept`, `HealthyMeansStored`, `LoginEnds` |
| `rpc` | 3 requests, one of which may be refused, two that call `close()`, a queue of 1, a pipe of 1 frame each way, 2 notifications, under `FairSpec` | `PendingIsAttended`, `EndIsMarked`, `NewestKept`, `KeepsClientPromise`, `CloseKills` |
| `instance` | 2 processes, 3 keys, one kill, an upgrade or a new instance | `Openable`, `ServedKeyMatches`, `WholeUnlessCut`, `ServingUndisturbed` |
| `events` | a ring of 3, a queue of 2, 6 events, a restart, under `FairSpec` | `MissedNotSilently`, `InOrder`, `Informed` |

The state spaces have between some 2,600 states (`events`) and nearly seven
million (`activation_planning`); each run takes at most about three minutes.  The twelfth
run, `evidence_deleted`, checks a statement of the documentation and finds it
violated; see below.

Properties that deserve a word:

- `OneSubmissionPerWindow` says of two submissions that their keys differ, and that
  their resets are further apart than the tolerance, unless one was planned without
  sight of the other (`Unread`; see the departures).  In its run, with one planner
  and no request of the operator, `unread` stays empty, so there the excuse excuses
  nothing; `OneResetEach` proves that of every such instance.
- `Attended` is the safety side of `EveryAttemptSettles`, `EveryOperationEnds` and
  `StartupEnds`: an attempt in flight has a task that works for it, an open operation
  one that will end it, and what reconciliation has read has an operation to be
  recorded on.  Fairness makes tasks go on; it helps nobody who has none.  Its run
  and that of the liveness properties have no disable: an operation that disable has
  cancelled and its task reopened is a departure, and outside what they say.
- `DueIsClaimed` is checked with one destination: its rows compete for the one
  dispatcher, those of two destinations do not.
- `KeepsPromise` compares the record of an attempt with what upstream did, which
  the program cannot see, and excuses two kinds of attempt:
  those disable cancelled in flight (`revoked`) and completions cut off by a
  shutdown (`cutOff`).  The departures say what may become of them.
- `OneInFlightUnlessRevoked` says, as long as nothing has been revoked, that one
  attempt is in flight; after that, that two are in flight only if one of them is.
- `KeepsClientPromise` contains liveness: no fairness is assumed of Codex, only that
  it is gone.  `CloseKills` then says that `close()` sees to that.
- `EndIsMarked` is the safety side of the stream's end: the mark that ends it is
  put into a queue which drops its oldest entry, by the reader and by each
  `close()`, and is never lost for that.
- `Openable` is about three copies at once, the database, the rollback copy and the
  backup; a rotation must not leave one of them behind without its key.
- `ServedKeyMatches` holds although a rotation that was interrupted may commit after
  its lock is released: the service has to write its seed row first, and waits.
- `MissedNotSilently` and `Informed` are about one connection; a reconnection that
  comes before the gap has been read may lose it (see the departures).
- `LastWordTrue` excuses the reports of two coroutines that cross (`crossed`), and
  `LeaseEnds` a delivery whose post raised what nobody catches (`stranded`).
- `CredentialKept`: whatever is renewed, fails, is cancelled or crashes, the
  newest credential is stored or still in some tree, until `stop` or the end of
  the container deletes it; `HealthyMeansStored`: an account that looks healthy
  has it stored, and that holds whatever became of the trees. The first is why a
  tree is preserved, the second why the account is then marked.
- `CancelledNeverPromotes` holds by two conditional updates with several awaits
  between them: `cancel_login` may look at an interaction of a sign-in that is
  verified by the time its job runs.
- `UnfinishedIsAttended` is the safety side of `LoginEnds`: a row the unique index
  counts as active has a coroutine that will end it.

`CHECK_DEADLOCK FALSE` is set everywhere: the bounded clock, commands and rows
run out, a closed process may never be started again, and an account with nothing
planned has nothing to do.

### Bounds

`MaxAttempts` and `MaxOperations` are 2 because every statement about attempts
concerns one or a pair, and two operations suffice for a task and its successor,
or a task and a rejected request.  A row of either kind is never reused; a plan or
request that finds none left is turned down (`RowsLeft`, `NextOperation`).
`Planners` has one element: a `plan()` call
still overlaps with admissions, claims and commits.  Two of them that overlap each
other add the unique-key collision, which is a guard of `PlanCreate`, and plans made
without sight of each other; they are left to the theorems, which hold for any
number of planners.  `MaxNow` is 1 where time plays no
part, 3 where resets are passed.  `MaxRestarts` is 2 where a crash during
reconciliation matters.  `Resets` and `Percents` contain a value on each side of
each comparison.  `Commands` names which operator requests a run includes; with
all of them at once the state space is beyond a run of a few minutes, so they
are split into the ordinary, the operator and crash, and the liveness run; lost
sign-ins (`preserve`) are in the planning run.
`Duration`, `Delay`, `Tolerance` and `Day` are scaled down together.

In `Notifications`, `TwoTries` is a retry table of length 2, enough for a first,
a repeated and an exhausted attempt.  `MaxEvents` and `MaxIncidents` limit rows
(`RoomForEvent` keeps a report from starting where its event would find none).

In `RpcClient`, the request of `spawn()` and two more are the fewest that can wait
for the writer's lock behind one another, be answered out of order, and meet a
late answer; a queue of one makes every notification and every mark compete; with
pipes of one frame both sides block on each other.  In `Instance`, a third
process would only find the lock taken; three keys allow a rotation after an
`init`, or two rotations.  In `Events`, a ring of three and a queue of two reach
both limits in either order before six events are out.

In `Login`, two sign-ins are needed for one to be turned away or to meet what its
predecessor has left behind; three credentials for a stored one, a sign-in and its
managed fork, or two renewals in a row; three trees for what a first sign-in, a
second and a call may leave on disk, two where there is one sign-in. A bound that
is reached looks like an answer Codex refuses, which the code must be ready for
anyway.

### Fairness, and why the code justifies it

- A coroutine that can go on does so: the event loop runs it, every database job
  ends, and every call to Codex or to a destination has a timeout.  Hence weak
  fairness of `TaskStep`, `RefreshStep`, `PlannerStep`, `ReconcileStep`,
  `DispatcherStep`, `Emit`, `LoginStep`, `CancelStep`, `CallStep`, `StopStep`.
  That a user answers is not assumed: the wait has a timeout.
- In `RpcClient`: requests, reader, consumer and `close()` go on when they can, and
  their timeouts expire; SIGKILL ends a process; whoever failed to spawn a client
  closes it.  Of Codex itself nothing is assumed.
- In `Events`: the stream of a connected tab goes on (`Deliver`).
- The scheduler and the dispatcher poll for ever: weak fairness of `Claim`.
- `asyncio.Lock` serves its waiters in order, so who waits for a credential gets
  it although others take it in between: strong fairness of `Acquire`,
  `RefreshAcquire`, `ReconcileStart`, `EnterLogin`, `CallEnter`.

Nothing is assumed of the operator, the clock, the poller, Codex, destinations,
crashes or restarts.  This is why `EveryAttemptSettles`, `EveryOperationEnds` and
`LoginEnds` make an exception for a process that has been shut down: some shutdowns leave an
attempt as it is until the next start.

## What is proved

`ActivationProofs.tla` proves, for every value of the constants that satisfies
`ScheduleAssumption` and `ActivationAssumption` (any number of attempts,
operations, planners, commands and restarts, any resets and tolerance):

- `TypeCorrect`: `Spec => []TypeOK`;
- `OneSubmission`: `Spec => []AtMostOneSubmission`;
- `Submission`: `Spec => []SubmissionInv`, the inductive invariant behind both.

That no attempt is sent twice is not inductive: nothing in `SendTurn` looks at
`sends`.  The reason it holds is spread over the states a row passes through, and
`SubmissionInv` collects it:

- `NoTaskYet`: an operation that does not exist yet has no task;
- `TaskOwnsAttempt`: a task past its admission has an attempt, and nobody can plan
  or admit that row again;
- `TasksApart`: no two tasks have the same attempt.  This is where the claim
  counts: it takes only `PLANNED` rows, and a row becomes `PLANNED` again only as
  its task returns;
- `UnsentPlans`: a row that is absent or `PLANNED` has not been sent;
- `UnsentTasks`: while its task is before `send`, or was turned back as
  ineligible, a row has not been sent.  So it does not matter for this property
  that `MarkDispatching` ignores its row count, and rescheduling is harmless;
- `ErrorsLate`: a task carries no error before its managed run ends.

The proof has one lemma per action that can disturb a conjunct, shared lemmas for
actions that leave tasks and submissions alone, and ends with `PTL`.

`ActivationPromiseProofs.tla` builds on it, from the same assumptions:

- `PromiseBasis`: `Spec => []PromiseInv`, the inductive invariant of the next two;
- `OneInFlight`: `Spec => []OneInFlightUnlessRevoked`;
- `PromiseKept`: `Spec => KeepsPromise`, the refinement of `ActivationPromise`;
- `CredentialMark`: `Spec => []CredentialHonest`, with its own `CredentialInv`.

What is recorded of an attempt agrees with what upstream did, because the task that
records it has seen it, and nobody else touches the row in the meantime.
`PromiseInv` says both: `TaskFlying` (the row of a task that works is in flight, and
its state says how far the task has come, unless disable or a shutdown took it
away), `TaskKnows` (who is about to record a completion or a failure has it from
upstream), `ReconKnows` and `NoTasksAtStart` (the same of reconciliation, which has
no tasks beside it), `EarlyUnsent` and `TurnsSent` (no turn without a dispatch), and
`OneOpen`, which is stronger than `OneInFlightUnlessRevoked`: an attempt in doubt
counts as open, since a task may bring its own row back to flight.  The step lemma
shows `PromiseInv'` and `Honoured`, what one step may do to rows and turns; that
this is a step of the promise or a stutter is a lemma of its own
(`HonouredIsPromised`).  `CredentialInv` adds to `CredentialHonest` that the lock
has one holder, among tasks, refresh and reconciliation.

- `NobodyForgotten`: `Spec => []Attended`.

`AttendedInv` adds that operations are created in order (`OperationsInOrder`,
`NewestThere`) and that there is one as soon as an attempt has left `PLANNED`
(`OperationBehind`): what reconciliation finds in doubt was claimed or requested once,
so `LatestOperation` cannot fail it.  The step of one task is one lemma
(`TaskAttends`: it goes on with its attempt, or leaves neither the attempt in flight
nor the operation open), everything else another (`OthersAttend`).

`ActivationWindowsProofs.tla` builds on these, from the same assumptions:

- `WindowBasis`: `Spec => []WindowInv`, the inductive invariant of the next;
- `OneWindowEach`: `Spec => []OneSubmissionPerWindow`;
- `OneResetEach`: `Spec => []ResetsFar`: with one planner at most and without
  requests of the operator there is no excuse, and no two submissions have resets
  within the tolerance, however the reset wanders and whatever the clock does.

A row is filtered when it is planned and sent much later, so `WindowInv` speaks of
all rows, cancelled and failed ones included: their keys differ (`KeysApart`,
`RowsKeyed`), near resets are of rows planned without sight of each other
(`ResetsApart`), and a decision on its way to its insert is far from every row it
was taken against, which are there still and for the same windows (`DecisionsFar`).
That a reset may wander by less than the tolerance at each read and so by more than
it in all does no harm: it is compared with the reset of every row, not of the last.
`DecisionAdmitted` says what `decide_schedule` and the filter behind it let pass;
`TasksFix`, `BesideFix` and `ProcessFixes` that no other step changes which rows there
are or what they are for.

`RpcProofs.tla` proves, from `RpcAssumption` alone (any number of requests, of
coroutines that close and of notifications, any capacity of queue and pipes):

- `RpcBasis`: `Spec => []RpcInv`, the inductive invariant of the rest;
- `TypeCorrect`, `PendingAttended`, `EndMarked`, `NewestAreKept`: the type
  invariant, `PendingIsAttended`, `EndIsMarked` and `NewestKept`;
- `SafePromise`: `Spec => Promise!Safe`, the safety part of what `RpcPromise` states:
  an answer reaches the request it was given to and no other, no request gets two
  results, notifications arrive in order and none twice, and their stream ends
  without an error only after a `close()`;
- `CloseLeavesNone`: `Spec => []CloseInv`, the safety side of `CloseKills`: however many
  `close()` calls there are and wherever they are cancelled, the process is signalled
  when the first begins, and killed or dead when none waits for it any more.

`RpcInv` has four parts beside the types.  `PendingInv`: the requests in line for
the writer's lock are those that wait for it, and as long as the client counts as
open a reader runs.  `StreamInv`: whoever ends the stream has put the mark, and the
mark is the last entry.  `OrderInv`: what is in the pipe is behind what is in the
queue, which is behind what was heard, and together they have no holes but old ones.
`AnswerInv`: what a caller gets, or is on its way to one, is an answer Codex gave to
a request that was made.

`EventsProofs.tla` proves, from `EventsAssumption` (any ring, any queue, any number of
events and restarts):

- `Stream`: `Spec => []EventsInv`, the inductive invariant of the rest;
- `TypeCorrect`, `NothingMissed`, `ArriveInOrder`: the type invariant,
  `MissedNotSilently` and `InOrder`.

`RingInv` says that the ring holds the last ids without a hole, which the replay
rests on; `QueueInv` that a gap is never older than what it follows (`Behind`), so it
can stand for all that it displaced, the earlier gap included.

`NotificationsProofs.tla` proves, from `NotificationsAssumption` (any retry table, any
number of coroutines, incidents, events, destinations and restarts):

- `Delivery`: `Spec => []DeliveryInv`; hence `TypeCorrect`, `SuccessIsReceived`
  (`SucceededMeansReceived`), `PostsAreBounded` (`PostsBounded`) and `OutcomesKept`
  (the action property `OutcomeKept`);
- `LeasesOwned`: `Spec => []LeaseInv`, the safety side of `LeaseEnds`: every lease is
  in the dispatcher's hand or `stranded`, a stranded row is left alone until the next
  start, and a start finds no lease it does not take back;
- `Incident`: `Spec => []IncidentInv`; hence `OpenedOnceOnly` (`OpenedOnce`),
  `EveryOccurrence` (`OccurrencesAnnounced`) and `LastWordSpoken` (`LastWordTrue`).

`DeliveryInv` relates the row, the lease in the dispatcher's hand and the posts:
an answer in hand was received (`InHand`), and the posts are counted by the row, the
lease and the restarts (`PostsCounted`), which is why a lease that is taken back does
not lift the bound.  `IncidentInv` relates the row of an incident, the events that
are written and those a coroutine still has in hand: one of them at most announces
the opening (`OneOpening`), and the last one to come says what the row says
(`LastWordComing`).

`InstanceProofs.tla` proves, from `InstanceAssumption` and `NobodyAssumption` (any
set of processes, any number of keys and kills):

- `AlwaysOpenable`: `Spec => []Openable`;
- `ServiceHasTheKey`: `Spec => []ServedKeyMatches`;
- `VaultSafe`: `Spec => []VaultInv`, the inductive invariant behind both;
- `AlwaysWhole`: `Spec => []WholeUnlessCut`;
- `ServiceIsAlone`: `Spec => ServingUndisturbed`, an action property.

None is inductive.  `Unlink` removes a key file without looking at what is sealed
with it, and `Verify` compares the key at one moment only, so `VaultInv` adds why
nothing goes wrong later:

- `Unsealed`: nothing in the database, the rollback copy or the backup is sealed
  with the key of a command that may still remove it.  Only a rotation that has
  committed and holds its lock (`closing`) is excepted, and no way out of there
  removes the file;
- `KeyInv`: keys made by running commands are in their files, differ from each
  other, and are neither configured nor held by a service;
- `TransactionInv`: a transaction open between two steps is that of a rotation, in
  its turn or left behind its lock, and none is open beside a process past its seed
  row.  So a service cannot start until a rotation that lingers is over;
- `CommandInv`: what a process does agrees with its command and the keys it has.

One lemma per conjunct shows that every action keeps it.  `WholeInv`, on top of it,
says who has a database that is not whole in hand: the process whose migration
script runs, or that has replaced the file but not its log, so that nobody else
opens or copies it before.

`LoginProofs.tla` proves, from `LoginAssumption` alone (any number of sign-ins,
credentials, trees and restarts):

- `LoginInvariant`: `Spec => []LoginInv`, the inductive invariant of the rest;
- `TypeCorrect`, `RowsAttended` (`UnfinishedIsAttended`), `RuntimesOwned`
  (`RuntimeOwned`), `CredentialNeverLost` (`CredentialKept`), `HealthyIsStored`
  (`HealthyMeansStored`);
- `CancelledNeverPromote`: `Spec => CancelledNeverPromotes`, an action property.

`LoginInv` has three parts beside the types, each with one lemma per conjunct:

- `RuntimeInv`: the credential lock has one holder among sign-ins and the managed
  call (`LockExclusive`); the tree of a runtime is there as long as its lock is held,
  since `stop` waits for that lock (`TreesThere`); a registered runtime belongs to
  the holder (`Owned`).  `RuntimeOwned` alone is not inductive: it lets the owner be
  anywhere in its cleanup, past the removal of the runtime as well;
- `AttendedInv`: a row, its task and its cancellation begin in this order
  (`Beginnings`), and an accepted cancellation has taken the row out of every state
  a later compare-and-set expects (`CancelAccepted`).  Hence both
  `UnfinishedIsAttended` and that a cancelled sign-in promotes nothing;
- `CredentialInv`: `LoginKeeps` and `CallKeeps` follow the newest credential through
  a fork and a managed call: until it is in the database it is in the tree of the
  step at work or in its memory, and the account or the worker says so (`Marked`).
  `IssuedBefore` (no step invents a credential) tells the one Codex renews from all
  that exist.

Every inductive invariant was checked by TLC on the instances of the runs before it
was proved.

Only model-checked is

- what needs fairness, since liveness and `ENABLED` are out of the prover's reach:
  `EveryAttemptSettles`, `EveryOperationEnds`, `EveryRefreshEnds`, `StartupEnds`,
  `DuePlanStarts`, `DueIsClaimed`, `LeaseEnds`, `LoginEnds`, `CloseKills`, `Informed`,
  and the liveness half of `RpcClient`'s `KeepsClientPromise`.  Of several the safety side
  is a theorem, that somebody is there whom fairness can help: `NobodyForgotten`,
  `LeasesOwned`, `RowsAttended`, `PendingAttended` and `CloseLeavesNone`.

## Findings

The run in which TLC finds a statement of the documentation violated by what the
code does:

- `evidence_deleted` (`runtime.py:146`): a disable or deletion finds the runtime of
  a managed call and waits for its lock; the checkpoint of the call fails, and
  `stop` then discards the tree, with the only copy of a credential Codex has
  renewed.  `README.md`, line 94: "A failed checkpoint quarantines the runtime
  instead of deleting potentially newer credentials."  Hence `erased` in
  `CredentialKept`.

### Known departures

Met while modelling, but without a run of their own.  The models follow the code
in each (`plan` is `WINDOWKEEPER_V1_DETAILED_IMPLEMENTATION_PLAN.md`).

Attempts:

- Disable cancels the attempt between the second eligibility check and
  `mark_dispatching` (`services.py:2295`); the conditional update changes no row,
  nobody looks, and the turn is sent (plan, line 3918: "Account disabled during
  queued activation | Cancel before submission").
- `thread_created` (`services.py:2240`) sets `THREAD_CREATED` whatever the row
  holds, so an attempt disable has cancelled comes back to life and, after enable,
  flies beside a new one (`OPERATIONS.md:29`: "permits only one in-flight
  activation").  Hence `revoked` in `OneInFlightUnlessRevoked`.
- `_operation_state` (`services.py:2931`) sets `RUNNING` and the outcome whatever
  the row holds: an operation disable has cancelled is reopened.
- Reconciliation (`services.py:369`) settles the newest operation of the account;
  a later request that was rejected is turned from `FAILED` to `SUCCEEDED` or
  `AMBIGUOUS`.
- A lost sign-in or a quarantined credential (`services.py:1802`) writes
  `UNSCHEDULED` over `AMBIGUOUS` while the attempt stays ambiguous; the page then
  offers no acknowledgment.  The attempt itself still blocks (`KeepsPromise`).
- The attempt becomes `AMBIGUOUS` in one job and its incident is opened in the
  next (`services.py:2550`); after a crash in between nothing opens it.  In the
  other direction, `acknowledge_ambiguity` (`services.py:2747`) resolves incidents
  after its job and may resolve that of a newer ambiguous attempt.
- The key `initial` (`domain/scheduling.py:43`) is good for one attempt per
  account; once that was cancelled or failed, an account at 0 % without a proven
  activation is planned nothing (`OPERATIONS.md:29` says it activates at once).
- A read that finds a window exhausted leaves the pending plan in place
  (`services.py:1836`; `OPERATIONS.md:29` says it is cancelled); the claim skips it.
- A read with a new reset adds a plan and leaves the old one (`services.py:2023`;
  plan, line 3919: "New reset supersedes planned attempt").
- `plan()` applies the tolerance to the resets it has read, and looks at the key only
  where it inserts.  A request of the operator that is admitted in between takes the
  same reset under another kind of key, and so may a second `plan()` that read
  another reset of the same window: two turns for one window (`services.py:2018`;
  plan, line 31: "at most one accepted activation turn").  Hence `Unread` in
  `OneSubmissionPerWindow`.
- A task that finds its attempt cancelled returns and leaves its operation as it is
  (`services.py:2330`): one that disable has cancelled and `_operation_state` has
  reopened stays `RUNNING` until the next start.  Hence `revoked` in `Attended`.

Notifications:

- An exception that `_deliver` does not catch (`httpx.RemoteProtocolError`) leaves
  its row `LEASED` until the process is started again (`webhooks.py:426`; plan, line
  62: "at-least-once webhook outbox delivery").  Hence `stranded` in `LeaseEnds`.
- A crash between the incident job and `emit()` (`services.py:2621`) loses the
  opened event, and two coroutines may write the events of one incident in the
  wrong order (plan, line 2523: "Incident mutation and event/outbox creation occur
  in the same transaction").  Hence `restarts = 0` in `OccurrencesAnnounced` and
  `crossed` in `LastWordTrue`.

Shutdown and restart:

- `close()` cancels a task while its completion job is being executed; the job
  commits, then the handler of the cancellation records the completed attempt as
  `FAILED_DEFINITE` (`services.py:2201`; plan, line 134: "A retry is allowed only
  when non-acceptance has been positively established").  Hence `cutOff`.
- A crash during a turn leaves the credential `IN_USE`; startup quarantines it
  first, so `_reconcile_activation` cannot read the thread any more
  (`services.py:358`; plan, line 2258: "Restart reconciliation reads the thread
  and turn").

Sign-ins:

- `_cancel_login_runtime` (`services.py:1310`) writes its outcome whatever the row
  holds: a sign-in that has failed meanwhile becomes `CANCELLED`, one that was
  cancelled and has ended `FAILED_RETRYABLE`, its operation `CANCELLED`.
- A cancellation just after the user has approved preserves the runtime in memory
  while the account stays `VERIFIED` and `STOPPED`; `start_fresh` refuses every
  later use until the process is restarted (`runtime.py:144`; `OPERATIONS.md:81`
  advises the restart).  An exported fork whose client cannot be closed does the
  same after marking the account.
- A sign-in that commits after a disable or deletion enables the account again and
  sets it `ACTIVE` (`services.py:2850`); a deletion that comes between the runtimes
  of a sign-in or a managed call leaves a bundle for a deleted account.  Hence
  `~deleted` in `HealthyMeansStored`.
- A shutdown after a managed fork was stored raises the cancellation into the
  handler, which preserves the tree and quarantines a credential that is safe
  (`services.py:1637`).
- A cancellation that reaches a sign-in while `discard` or `preserve` wait for the
  manager's lock leaves the runtime registered (`runtime.py:122`).  Hence `leaked`.
- `AppServerClient.close()` catches a cancellation that reaches it while it waits for
  the process (`codex/client.py:233`), so a sign-in that is cancelled just then goes
  on as if it had not been.
- A managed call that failed because Codex asks for a sign-in, or whose checkpoint
  failed, records `AUTH_REQUIRED` after it has released the lock
  (`services.py:1759`), possibly over a sign-in that has just committed.

The data directory:

- A migration is executed as a script without a transaction (`database.py:58`; plan,
  lines 530 and 3924).  Killed in it, the process leaves a partial database, and the
  next start copies that over the rollback copy before it tries again.  Hence `cut`
  in `WholeUnlessCut`.
- `init` that fails after the sentinel is written removes the key of that sentinel
  (`cli/main.py:135`); a later `init` reports success and leaves a key that does not
  match.  Nothing is sealed by then, so `Openable` holds.
- `rotate` writes the new key file before it re-encrypts; `README.md:88` says after.
  (The code's order is the safe one.)
- A rotation opens and seals again only bundles that are in use: `RETIRED` ones stay
  under the old key although the docstring says "all retained".
- `restore` replaces the database and then removes the log of the former one
  (`cli/main.py:361`): killed in between it leaves a log that belongs to another
  file.  Hence `cut` again.
- `init` and `rotate` remove their key file after they have released the lock.

Live events:

- The branch for a client disconnected after repeated overflow (`events.py:38`) is
  never taken, since the queue has had an entry removed (plan, line 3076).
- The event that finds the queue full is replaced by the gap, not only the oldest
  one; a tab that reconnects before it reads that gap is never told.
- After a restart the numbers begin again: a tab that comes with a greater
  `Last-Event-ID` gets neither replay nor gap (plan, lines 3066-3070).

## What is not modelled, and the plan

1. `Activation`'s `Reauthenticate` shown to be what `Login` does to the columns the
   two share; the callback of a browser sign-in (`oauth.py`) and the lock browser
   sign-ins share.
2. The pruning of attempts after 90 days, which frees window keys: it needs a clock
   of days beside that of windows.  The other deletions of `_maintenance_loop` take
   rows that are long settled, and deliveries an instance that was off for a month
   has not made.
3. Administrator sessions: each operation is one transaction with a comparison of
   times.

Left out for good: encryption, `adapter.py` (names of methods, fields of answers,
the loop over the pages of models), parsing and normalisation of upstream answers,
HTTP routing, rendering, the CLI's forms, the log book's files, configuration,
redaction and version checks.  They have no interleavings, and unit tests reach
them.
