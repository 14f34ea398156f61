# Verification of finance-reconciliation

This directory holds TLA+ models of the parts of finance-reconciliation in which
order, concurrency and failure decide whether the result is right, the TLC runs
that check them on small instances, and proofs of the central theorems for
instances of every size.

- [1. The system](#1-the-system): components, state, interactions, hazards
- [2. The modules](#2-the-modules): what each models and how it corresponds to the code
- [3. The runs](#3-the-runs): what is checked, bounds, fairness
- [4. The proofs](#4-the-proofs)
- [5. Where the code does something else](#5-where-the-code-does-something-else)
- [6. What is not modelled](#6-what-is-not-modelled)
- [7. Plan](#7-plan)

`PROJECT.json` maps every definition to the lines it stands for, and lists the
components, the hazards at their lines, the runs, and for every checked property
a *mutant*: a plausible slip of the code (kept in the modules as operators marked
`Mutant:`) that the property catches.

    tlc -workers 2 -config UpdaterSafety.cfg MCUpdateManager
    tlapm UpdateManagerProofs.tla

## 1. The system

A Django application keeps the books of a company: it imports invoices and bank
or WeChat statements, lets finance staff allocate money transactions to invoices
("reconciliation"), and reports what is open. It runs in a Docker Compose project
on a NAS: `web` (several gunicorn workers), PostgreSQL, and a small privileged
service, the *updater*, that replaces the image of `web` when the owner asks for it
in the browser.

| Component | Code | State | Operations | What makes it correct |
|---|---|---|---|---|
| Update manager | `updater/manager.py`, `types.py`, `store.py` | one JSON state file: the last check and one task with its stage, identities and cleanup journal | check, start, execute, recover, manual cleanup | an update is all or nothing; a rollback finds what it needs; only the replaced image is removed; every task ends |
| Docker platform | `updater/platform.py`, `runner.py` | the web container, images and tags, `.env`, backups, the database schema | one method per step; each several commands that may fail half-way | (as above; it is the world the manager changes) |
| Updater service | `updater/http_server.py`, `main.py` | one worker thread, its closure | start a task once, report it, recover at start | a task has at most one worker; nothing is served before recovery |
| Web side of the update | `apps/system_update`, `static/js/system-update.js` | `SystemUpdateRequest` rows; a pending start in the browser | reserve, start, poll, audit | an accepted start names a task on record, reserved with its version; what the audit records is true and final; an end somebody watches is seen and audited |
| Reconciliation | `apps/reconciliation/services.py`, `settlements.py`, `queries.py` | `Reconciliation`, allocations, reversals, settlement batches | direct confirmation, settlement draft, settlement confirmation, reversal | no record gives more than it has; decisions are made on current amounts; a batch is settled once, exactly |
| Suggestions | `candidates.py`, `presenters.py` | none | exact windows, allocation plan | totals fit |
| Imports | `apps/imports` | batches, staged rows, source files | stage, confirm | rows are posted once; counters and balances are consistent |
| Attachments | `apps/ledger/attachments.py` | files and rows | attach, disable | one row per content, no stray file |
| Reporting | `apps/reporting/queries.py` | none | payables, unmatched funds, supplier summary and ledger, exceptions, each as of a day | the report of a past day stands; reports of one day agree |
| File parsers, parties, accounts, audit | `apps/imports/parsers`, ... | – | sequential | – |
| Pin of the updater | `scripts/system-update-updater.sh`, `-atomic.py` | `.env`, the updater's container, a lock, a scratch directory per run | replace the tag, recreate the container, or restore both | done, undone, or evident, but for edits the script cannot see |
| Other scripts | `scripts/` | backups | backup, restore, deploy, manual cleanup | – |

How they interact. The browser posts to Django, which reserves the task id in its
database and calls the updater over HTTP; the updater saves a task and runs it in a
thread, driving Docker; Django and the browser poll it, and Django itself is
stopped and replaced on the way. Reconciliation, imports and reporting share the
ledger tables; every request is a database transaction of its own, in READ
COMMITTED, and row locks are all that orders them. Imports reach into
reconciliation by voiding or red-flagging posted invoices.

What is hard. *In the updater*: a crash or a failed save between any two of some
twenty steps, methods that raise after having done their work, images shared with
earlier tasks, `:stable` moving. *In reconciliation*: statements of several
transactions interleave, locks are taken in unspecified order, a statement that
waits sees rows through an old snapshot, pages show amounts that are out of date.
*On the web side of an update*: five parties of which each may answer late, twice or
never, and one of them, Django, is replaced by what it asked for. *In imports*: rows
posted by two workers at once, a unique constraint that decides late, files that no
transaction rolls back. *In reports*: moments that are taken before the commit that
makes them visible. *In the pin script*: it edits a file that the service it replaces
edits too, and may die at any command. The list, line by line, is `hazards` in
`PROJECT.json`.

## 2. The modules

### The updater

```
Upgrade               what an owner is promised (abstract)
   ^ ImplementsUpgrade
UpdateManagerProperties ---EXTENDS--> UpdateManager ---EXTENDS--> DockerPlatform
   ^                ^
MCUpdateManager   UpdateManagerProofs <- UpgradeProofs
```

**`DockerPlatform`** is the host. An image is identified with its version (release
tags are immutable), and `refs[v]` is the set of references Docker holds to it: its
version tag, its registry digest, `:stable`, and the rollback aliases of tasks. An
image with no references does not exist. One operator per method of
`DockerPlatform`, with an argument `ok`: whether it returns or raises
`SafeOperationError`. A method returns only if its checks hold; it raises if they do
not, or at will if `"platform" \in Faults`, and then any prefix of its effects may
have happened: `docker compose up` may leave no container, a stopped or a running
one of the new image, `persist_version` may have replaced `.env`, a removal may have
removed. `CommandRunner` (timeouts, output limits, termination) is that choice. The
migrations of a version are applied as one set element of `schema`.

**`UpdateManager`** is `manager.py`. The manager holds its operation lock throughout
an operation, so one program counter `pc` suffices; each action makes one save of
the state file or one platform call and its name is that of the stage or method.
`last_check` and `task` are the state file (`durable`); `pc`, `mode`, `queue`
(closures handed to worker threads) and `failing` (the local variables of a failure
path) are lost in a crash. `task.alias` and `task.backups` abstract
`original.rollback_alias` and `backup_dir`/`media_backup`. The 30 start-up probes
and the three stabilisation probes are one outcome each. A save fails with
`"store" \in Faults`: the exception is no `SafeOperationError`, so it ends the worker
thread (or the recovering process) wherever it is, which is action `Abort`'s role.
`base` and `crashes` are history. `Redeploy` is an operator who deploys by
hand while no task is under way; `ManualCleanup` is
`scripts/system-update-manual-cleanup.sh`. Three notes on reading it against the code. A
checkpoint that saves the stage the task already has (before a health check or
`persist_version` of a rollback, of a recovery, of `_stabilize`) changes nothing that
a later recovery sees; it is part of the call it precedes, and an action of its own,
`CheckpointFails`, where it fails. `StartAgain` is `start` with the id of a task still
in `CHECKING`, which the manager allows (a second closure finds the stage changed and
does nothing) although `_OperationRunner` answers such a request itself. And `start`
remembers no ids: that of a task which has been replaced may be used again.

**`UpdateManagerProperties`** states the properties and the refinement mapping to
**`Upgrade`**: an upgrade opens from a steady installation, moves only between the
old version, the new version and no container, and closes with `.env` and the
container both new, or both as before, or in the hands of a human.

### The web side of an update

**`SystemUpdateWeb`** has the pages of `system-update.js` in browser tabs (`page`: the
status shown, the pending start of `sessionStorage`, the request in flight, the timer
`due`, the open dialog), the requests Django works on (`handler`, with the label of
the next database transaction or call), the reservation rows with the audited result
(`rows`), and the updater as its HTTP side sees it: the task of the state file, the
worker thread of `_OperationRunner`, the last check, and the starts under way whose
client has given up (`late`). What a task does inside is `UpdateManager`'s; here it is
active until `TaskEnds`, or the recovery of `UpdaterRestart`, brings it to an end.
Each hop is an action of its own, so that statuses overtake each other, a start
arrives after its client gave up, and Web dies between the reservation and the call.
`MaxFaults` bounds the lost answers, given up calls, reloads and restarts together.
Refused starts need no reason: `CallStart` may fail at will, as the reasons (an old
check, a moved `:stable`, a failed save) are `UpdateManager`'s. A page's request can
end only by answer, loss or reload; the timer that fires during another request is
dropped (`TimerDropped`), as in the code. A page whose script is of another release may
refuse an answer (`AnswerUnread`): it then shows no status and stops to poll. `_run`
drops whatever exception a task ends with, a failed save above all, and leaves the task
active without a worker (`WorkerDies`, with `StoreFails`); only a restart ends it, which
`UpdaterRestart` therefore allows at no cost then. `SystemUpdateWebProperties` has the
properties.

A pending start is repeated under its id until it ends, also when the browser missed
the end. If another task took the place of the first meanwhile, and nobody polled for
the first one's audit, the reservation still is active and the id runs a second time,
after the owner has confirmed that version once more. The model reaches this; no
document excludes it, so no property does.

### Imports and attachments

**`Uploads`** is what `SourceFile` and `Attachment` have in common: a file that is
written before the row that names it, a unique constraint on the content, and the
clean-up of whoever loses. **`Imports`** is `apps/imports/services.py` over it and over
`RowLocks`: `stage_upload` (test, write, insert, commit) and `confirm_batch` (batch row,
each staged row, balance snapshot, commit), statement by statement in several
sessions. An `INSERT` waits for an uncommitted one of the same key like for a row
lock, so a key has a lock whether its row exists or not. A parser's result is the
constant `Parsed`; a row has a key, a `face` that stands for the fields that must
match, an invoice status, and an instant with a balance. `Compared` is the state a
row is staged in, `Confirmed` what a confirmation writes to its batch.

Notes for reading it against the code:

- `_prepare_rows` compares the rows of a file with the ledger in several queries
  before the transaction; the model takes one moment (`Upload`). A later change of
  the ledger is found by the confirmation either way.
- A row that has become invalid when it is confirmed raises, which rolls back the
  whole batch; that is `Fail`. So are all other exceptions, and a commit that fails.
  A commit that succeeds and whose acknowledgement is lost is left out.
- Rows that staging marked as duplicates or errors keep the mark; only valid ones
  are examined again.
- An upload of a PDF whose attachment was disabled returns the disabled row, as in
  the code: `InsertSource` does not look at `disabled`.

### Reconciliation

```
Ledger                one request = one step (abstract)      RowLocks
   ^ EXTENDS, and LedgerSpec is a PROPERTY                       ^ EXTENDS
   +------------------------ Reconciliation --------------------+
                                  ^
                     ReconciliationProperties <- MCReconciliation, ReconciliationProofs
                                  ^
              Reporting <- ReportingProperties <- MCReporting, ReportingProofs
```

**`Suggestions`** has the pure algorithms: `_contiguous_windows`, `transaction_candidates`,
`direct_allocation_rows` and `_allocation_plan`, as recursive functions; the loops run
as in the code, from item to item. `Reconciliation`
applies them to the open amounts of the moment in the order of dates (`Calendar`):
`TransactionCandidates`, `InvoiceCandidates` and `SettlementPlan` are what the pages and
the settlement draft show.

**`Ledger`** has what is committed: reconciliations with their allocations,
reversals, cancelled invoices, batches; the open amounts; and one action per
request as if it were indivisible. Amounts are cents. Direction and counterparty are
abstracted to `Parties`, sets of records that fit together; settlement periods to
`Periods`. `Ledger`'s steps are guarded by what a request may put on record (`Sound`): a finite,
non-empty set of positive allocations between records that fit, without cancelled
invoices; the detailed actions test that where the code does (`NoPairTwice`: the
forms name each pair once). **`RowLocks`** is PostgreSQL's `SELECT ... FOR UPDATE`: a statement finds
its rows in the snapshot of its start, then locks them one by one in any order,
waits for rows others hold, and keeps all locks to the end of the transaction.

**`Reconciliation`** is the detailed specification. Every session (a web worker's
connection) runs one request at a time; `pc[s]` is the statement under way, `want[s]`
and `held[s]` its locks, `read[s]` the sums it has read, `req[s]` the posted form or
the locals of the view. An action ends one statement (it is enabled once the
statement's rows are locked), tests what the code tests there, and starts the next.
Nothing is visible before the commit, which is the last step and is atomic; any
error rolls back (`Reject`), and a transaction may fail at any time (`Abort`: lost
connection, killed worker, deadlock victim). The pages are part of the model because
their forms carry what the user saw: `Workbench` and `SettlementDetail` take the open
amounts of a moment, and a direct form may be posted twice.

Notes for reading it against the code:

- `create_settlement_batch` locks in the order of date and id, the other queries
  have no `ORDER BY`. The model lets every query lock in any order.
- A row that was *updated* while a statement waited for it is tested again by
  PostgreSQL, a row that was only *locked* is not. `DraftItems` therefore drops
  invoices that were cancelled meanwhile, but not records that became occupied.
- `_validate_allocations` tests the invoice's status on the object that was read
  under the lock; the model tests it in `InvoicesLocked`. The row stays locked, so
  both give the same.
- In `confirm_settlement_batch`, `create_reconciliation` locks the invoices and
  transactions a second time; the session holds them all, so this is no step.
- The pages read one record per query. A form that mixes amounts of two moments is
  refused unless all of them are current, and then it equals a form of that moment.
- `confirm_batch` of an import appears only as `CancelInvoices`: it locks the posted
  invoices of its rows and changes their status at its commit. `Corrections` are the
  sets of invoices that an import may change together.

### Reporting

**`Reporting`** adds days to `Reconciliation`: `today`, and for every reconciliation,
reversal and change of an invoice's status the day its row was stamped with. A row is
stamped when it is inserted, before its transaction commits: `clock[s]` is the day of
the last statement, and the stamp lies between it and the day of the commit
(`Timed`). The queries are operators on the state: `Payables`, `UnmatchedFunds`,
`SupplierSummary`, `SupplierLedger` and the exceptions that concern allocations, each
as of a day. Every step of `Reconciliation` is taken as it is; `Midnight` is added.

Two things to know when reading it. `payables_as_of` and the dashboard use an
invoice's status of today also for a past day, the supplier report uses the status of
that day; `PastReportsStand` is therefore about the supplier report. And a transaction
that runs across midnight may commit rows stamped with the day before: the report of
that day, if it was read in between, changes. `PastReportsStand` says only that a
transaction whose last statement ran after a day leaves that day's report alone.

### The pin of the updater

**`UpdaterPin`** is `system-update-updater.sh` with `system-update-updater-atomic.py`: a
run takes the lock, captures `.env`, pulls, marks that it is about to change `.env`,
validates and replaces it, recreates the container, proves that it runs the right
image and that the other services were left alone, and removes its scratch
directory; `Exit` is the `on_exit` trap with its recovery. `.env` is the updater tag,
the Web tag and the inode, which the script compares. Every command may fail
(`Fail`), and a kill of the shell lets a running child go on with the lock (`Kill`):
the lock lives as long as the last open descriptor.

The updater that is being replaced edits `.env` itself (`ReadEnvironment`,
`PersistVersion`: `persist_version` reads the file and replaces it a moment later), and
somebody may recreate Web (`DeployWeb`). `docker compose up --force-recreate` is three
steps: it reads `.env` (`ComposeReads`), stops the old container with whatever that was
doing (`ComposeStops`), and starts one of the tag it read (`ComposeStarts`); the edit of
the old updater may be written before, between, or never. A new file takes any inode
that is free (`FreeInodes`): only the file it replaces is sure to have another one. An
image is identified with its tag. `owner` and `late` are history: the run that replaced
`.env` last, and at which label an edit from before that replacement was written over
it. A loss of power is not modelled, only the death of processes. An edit of the
updater that falls between the last validation and the replacement is overwritten; the
model reaches that, and no property excludes it, as neither side locks the file.

## 3. The runs

| Run | Instance | States | Shows |
|---|---|---|---|
| `updater_safety` | 3 versions, 2 task ids, platform and store faults, 2 crashes | 2,941,038 | the safety properties and `ImplementsUpgrade` |
| `updater_liveness` | 2 versions, 2 tasks, platform faults, 2 crashes | 63,032 | every task ends, Web comes back |
| `updater_cleanup_crash` | 2 versions, 1 task, no faults, 1 crash | – | violates `CleanupSurvivesCrash` (section 5) |
| `updater_stopped_web` | 2 versions, 1 task, all faults, no crash | – | violates `StoppedWebIsRestored` (section 5) |
| `updater_pin` | 2 runs with different targets, 2 edits, 2 Web tags, 3 inodes | 3,234,333 | the pin is done, undone or evident |
| `web_safety` | 2 tabs, 2 requests, 2 task ids, 1 release, store faults, 1 fault | 1,505,133 | reservation, acceptance, audit, polling |
| `web_confirm` | the same, 2 releases | – | violates `ConfirmedVersionIsStarted` (section 5) |
| `web_liveness` | 1 tab, 2 requests, 2 task ids, 1 release, 1 fault | 66,086 | a watched task is seen to end and audited |
| `imports` | 5 statements and a PDF, 2 sessions, 3 uploads, 1 crash | 1,069,758 | rows posted once, counters, balances, files |
| `reconciliation_safety` | 2 invoices, 1 transaction of 2 cents each, 2 sessions, 2 reconciliations, 1 batch | 355,711 | the safety properties, the suggestions and `LedgerSpec` |
| `reconciliation_draft_race` | 1 invoice, 2 transactions, 1 reconciliation, 1 batch | – | violates `DraftsExcludeOccupied` (section 5) |
| `reporting` | as `reconciliation_safety`, whole amounts, days 3 and 4 | 101,275 | the reports, and that every request ends |

*Properties of the updater.* `OriginalRetained`: from the save before `stop_web` to
the cleanup, the tag, digest and alias of the replaced image and the task's backups
exist and are recorded. `JournalIsWrittenAhead`: the cleanup journal never lags
behind a removal it did not announce, nor claims one that did not happen.
`MigrationsAreGuarded`: migrations run with Web stopped and the task's own backups
on disk and on record. `OnlyReplacedImageIsRemoved`: the updater takes references
only from the image its task replaced, once neither the container nor `.env` names
it. `OutcomesAreTruthful`: what a finished task says about rollback and version is
so. `ImplementsUpgrade`: the refinement. `TaskIsAttended`, `EveryTaskEnds`,
`WebComesBack`: liveness.

*Properties of the pin.* `OneTransaction`: two runs are never under way at once, nor is
a child that outlived one. `DriftLeavesEvidence`: whenever no run is under way and the
container is not what `.env` names, the run that replaced `.env` last left its marker, or
an older edit was written over its replacement while it was under way. The marker of
some other run is no excuse. `CleanEndsAreSettled`: a run that succeeds or restores
removes its evidence only with the container on the very version it was to start, and
`.env` too unless an older edit came after compose had read it; a run that finds `.env`
untouched does so only with the container as it was, unless it had replaced `.env` and
an older edit brought back content and inode. Section 5 says what the exceptions mean.

*Properties of the web side.* `AcceptedIsPersisted`: a 202 names the start that was
asked for, and its task exists, also when the updater's answer was lost.
`StartedTasksAreReserved`: no task exists, or can still come to exist from a call
under way, without its committed row. `AuditIsTruthful`, `AuditIsFinal`: an audited
result is one the task had, and stays. `ActiveIsPolled`: a page that shows a running
task asks again, whatever fails. `ConfirmedVersionIsStarted`, which fails: the version
started is the one in the dialog. `WatchedTaskIsSeenToEnd`, `WatchedEndIsAudited`: liveness. The
audit depends on a page that polls: the end of a task nobody watches may never be
recorded, and the end of a replaced task is lost; the properties say only what
holds.

*Properties of imports.* `LedgerIsTraceable`: every record comes from a posted row of a
confirmed batch of a stored statement. `NoRowIsDropped`: a posted row of a confirmed
batch is in the ledger with its status or a later one; a duplicate is too, or repeats an
earlier row of its file that is shown as an error; and the counters count the rows. The
exception is real: when a file has a red invoice twice, the second row is staged as a
duplicate of the first, and if somebody else has voided the invoice meanwhile the first
becomes an error at the confirmation while the second stays a duplicate, of a row that
was not recorded. The error is shown, so nothing is lost silently. `BalancesAgree`: the
balance on record is that of every confirmed statement. `FilesAreOwned`: stored contents
have their file, and only a dead worker leaves another. `StatusMovesForward`: invoices
turn red or void once.

*Properties of reconciliation.* `NoOverAllocation`: the active allocations of a
record never exceed its amount. `DecisionsAreCurrent`: the sums a transaction
decided on still hold at its commit. `BatchesAreSettledOnce`: one reconciliation per
confirmed batch, exact to the cent. `ShownAmountsAreCurrent`: a direct
reconciliation commits only on the amounts the user saw. `DeadlocksStayInOneTable`:
two transactions that wait for each other do so over rows of one table; locks are
ordered between the tables (batch, invoice, transaction, allocation, reconciliation).
`LedgerSpec`: the statements of all sessions together act like `Ledger`.
`SuggestionsAreExact`: the candidates of every reachable ledger may be reconciled as they
are; a settlement draft nobody else has a claim on is offered for confirmation exactly if
some plan settles it to the cent, and then with such a plan; and for all short lists the
windows are all and only the runs that meet the target, and a plan uses up one side without
exceeding any record. `EveryRequestEnds`: liveness.

*Properties of reporting.* `NoDayOverAllocates`: on no day was more allocated to a
record than it has; a reversal and what took its place never count together, although
each was stamped before its commit. `PastReportsStand`: as section 2 says.
`ReportsAgree`: the payables and unmatched funds of today are the open amounts of the
supplier reports, the ledger ends in the balance, and, if nothing is dated later, the
balance differs from what is open exactly by the allocations to cancelled invoices, which
the exceptions list. A payment dated in the future would be open but not in the balance.

*Bounds and why they are enough.* Three versions let one update follow another and
`:stable` move between check and start; two task ids make the leftovers of a first
task (its alias, its backups) meet a second; two crashes allow a crash in the
recovery from a crash, and a third would find the same state file and container.
Two sessions are what the races of the code are between: every test and every lock
concerns two transactions; two cents can be split, exhausted and crossed; two
invoices against one transaction make locks cross and amounts compete (the draft
race has two transactions, as it needs an unoccupied partner). Two reconciliations
allow one to be reversed under the other. `MaxRecs` and `MaxBatches` bound how many
are begun, including those under way. `Corrections` lets an import cancel any set of
invoices in the reconciliation runs, and all or none in the reporting run. There only
one invoice is of the transaction's party; the other is there so that imports which
cancel both can deadlock. One midnight is enough: a stamp is before it, after it, or on
either side of a commit, and a second midnight would only repeat that; one invoice is
three days older and a bucket is one
day instead of 30, so that it becomes stale at midnight. Whole amounts are enough
there, as split amounts concern the decisions and not the days.

On the web side two tabs act on what the other changed, two requests overtake each
other, two task ids let a second task replace the first; one fault at any place
already separates every pair of hops, and two releases are needed only for the dialog
(`web_confirm`). The statements of `imports` contain every pair that matters: the same
invoices in another order, another status, other fields, a row in error, repeated rows
in one file, and two bank balances of one instant; any three of them can be uploaded.
`updater_pin` has a second run meet what the first has left, with an edit of `.env` before,
between and after; with three inodes a new file takes the number that was captured or
another one.

Sessions, tabs, requests, task ids, inodes and Web tags are symmetric; the safety runs use that, the
runs with liveness do not.

*Fairness.* `UpdateManager!FairSpec` has weak fairness of `Work`: a worker thread or
a restarted container (Compose's restart policy) goes on. Requests, crashes and
operators are not fair. `updater_liveness` has no store faults, because a worker
that cannot save has nowhere to go (section 5), and finitely many crashes. For the same
reason `web_liveness` has `StoreFails = FALSE`: a worker that died leaves its task active
until somebody restarts the updater, and nobody has to.
`Reporting!FairReportingSpec` assumes that a transaction advances: strong fairness,
since a lock wait is enabled again and again as other transactions pass, and
PostgreSQL queues the waiters of a row; and weak fairness of aborting a deadlocked
transaction, PostgreSQL's deadlock detector. Users are not fair, and midnight need not
come. `SystemUpdateWeb!Fairness` has weak fairness of a page's timer, of each request
in Django, and of the updater's worker; nobody is made to click, and no fault has to
happen. The safety runs of `Imports` and `UpdaterPin` need none.

`CHECK_DEADLOCK FALSE` in the runs of reconciliation, reporting, imports and the pin:
with the bounds reached and every request done, all may be idle for good, which is no
error. The other runs check deadlock.

## 4. The proofs

Checked by TLAPS, for any number of sessions, tabs, requests and crashes, any sets of
versions, task ids, records and statements. Where a theorem has a property, some run of
section 3 checks it on a small instance.

| Module | Theorem | States |
|---|---|---|
| `UpdateManagerProofs` | `Invariance` | `Spec => []Inv` |
| | `TypeCorrect`, `OriginalIsRetained` | `TypeOK`, `OriginalRetained` |
| | `GuardedMigrations` | `MigrationsAreGuarded` |
| `UpgradeProofs` | `UpgradeInvariance` | `Spec => []Flow` |
| | `RefinesUpgrade` | `Spec => ImplementsUpgrade` |
| | `TruthfulOutcomes`, `RemovesOnlyReplaced` | `OutcomesAreTruthful`, `OnlyReplacedImageIsRemoved` |
| | `JournalAhead` | `JournalIsWrittenAhead` |
| | `AttendedTasks` | `TaskIsAttended`, if saves do not fail |
| `UpdaterPinProofs` | `Invariance` | `Spec => []IInv` |
| | `TypeCorrect`, `MutualExclusion` | `TypeOK`, `OneTransaction` |
| | `DriftIsEvident`, `CleanEnds` | `DriftLeavesEvidence`, `CleanEndsAreSettled` |
| `SystemUpdateWebProofs` | `WebInvariance` | `Spec => []Inv` |
| | `TypeCorrectness` | `TypeOK` |
| | `AcceptedStarts`, `ReservedStarts` | `AcceptedIsPersisted`, `StartedTasksAreReserved` |
| | `TruthfulAudit`, `FinalAudit` | `AuditIsTruthful`, `AuditIsFinal` |
| | `PolledPages` | `ActiveIsPolled` |
| `ImportsProofs` | `ImportsInvariance` | `Spec => []Inv` |
| | `TypeCorrectness`, `FilesOwned` | `TypeOK`, `FilesAreOwned` |
| | `Traceable`, `NothingDropped` | `LedgerIsTraceable`, `NoRowIsDropped` |
| | `BalancesAgreed`, `StatusForward` | `BalancesAgree`, `StatusMovesForward` |
| `ReconciliationProofs` | `LedgerInvariance` | `LedgerSpec => []LedgerInv` |
| | `LedgerNeverOverAllocates`, `LedgerSettlesOnce` | the promises of the abstract ledger |
| | `ReconciliationInvariance` | `Spec => []Inv` |
| | `RequestsImplementLedger` | `Spec => LedgerSpec` |
| | `NeverOverAllocated`, `SettledOnce` | `NoOverAllocation`, `BatchesAreSettledOnce` |
| | `CurrentDecisions`, `CurrentShownAmounts` | `DecisionsAreCurrent`, `ShownAmountsAreCurrent` |
| | `DeadlocksInOneTable`, `TypeCorrectness` | `DeadlocksStayInOneTable`, `TypeOK` |
| | `WindowsMeetTheTarget`, `CandidatesMeetTheTarget` | `WindowsAreExact`, `CandidatesAreExact`, for lists of any length |
| | `RowsMeetTheTarget`, `PlansAreExact` | `RowsAreExact`, `PlanIsExact`, for lists of any length |
| | `ExactSuggestions` | `SuggestionsAreExact` |
| `ReportingProofs` | `DayInvariance` | `ReportingSpec => []DayInv` |
| | `NoDayOver`, `PastReports` | `NoDayOverAllocates`, `PastReportsStand` |
| | `AgreeingReports` | `ReportsAgree` |
| | `CurrentDay` | the allocations of today are those of the ledger |
| `SumTheorems` | `SumWithout`, `SumOfUnion`, `SumOfParts`, ... | lemmas about sums |
| | `BySize`, `RecursionExists`, `RecursionsAgree`, ... | lemmas about recursive functions |

*Assumptions.* Only those the modules name. Versions, days and bounds are numbers; task
ids are no other reference; invoices and money transactions are disjoint and finitely
many, and their amounts are positive; a record is of at most one party
(`PartiesAreDisjoint`: it has one counterparty and one direction), and `Calendar` has each
record once; the rows of a statement are a finite sequence, with
a key or none; `None` is no inode (`InodeAssumption`), and `StoreFails` a Boolean.
`RowsAreDistinct` says that a record is not taken for a row of another table, and the
assumptions on `None` that it is nothing else (`NoneIsNoRecord`, `NoneIsNoEntry`):
`None` is the `None` of Python or SQL's `NULL`.

*The update.* `TypeOK /\ OriginalRetained` is not inductive: at a label like
`stopping_web` nothing says that the alias was made, and a recovery starts from a
stage alone. `Inv` adds `Attached` (an operation that needs a task has one, and new
work is done by the server) and `Knows(pc, task)`: what the operation has achieved
on its way to its label. Before `stop_web` it collects what a rollback needs, label
by label; after it, it says that the task's stage is one from which recovery
finishes or rolls back; in a migration it says that Web is stopped; in the cleanup
that the removal was journaled. A crash forgets the label, so whatever recovery
relies on must be in `Retained(task)`, which speaks of the state file and the host
only: this is where the order of saves and calls in the code is needed. Every action is
a save, a platform call or the death of an operation; a few lemmas (`SaveKeeps`,
`CallKeeps`, `RaiseKeeps`, `AbortKeeps`) say once what such a step must establish, and
`MethodsAreHarmless` that no method but `cleanup_original_step` takes anything away.

`Flow` adds what the refinement needs: which stage the state file shows at which label
(`Course`), on which side Web and `.env` are at a stage (`Anywhere`, which survives a
crash) and at a label (`Here`, which does not), and how far the journal and the images
agree (`Journaled`). `Upgrade` is then implemented step by step: every step keeps the
upgrade where it is (`Stays`), moves Web or `.env` to the other side within one, opens
one, or closes one with both on the side the task says. `AttendedTasks` has the
hypothesis that the store does not fail, as section 5 shows that it is needed; the run
`updater_liveness` has the same.

*The pin.* `LockInv`: a run is under way exactly while it has the lock.
`MarkInv`: what is on disk at which label, and that a run which has replaced `.env` keeps
its marker until it ends. `RunInv` is what a run may rely on whatever earlier runs have
left: before it replaces `.env` the container is the one it captured; afterwards `.env`
says what it has written (`Written`) as long as no older edit was late; what compose has
read is what `.env` says, or an edit came in between; and once compose has started the
container, it runs what compose read and no edit is under way that would write another
tag (`Coherent`), as a new container has read nothing yet. `DriftInv` speaks of
installations in which the last replacement left neither evidence nor a late edit
(`Evident`): there file and container agree, and so does any edit under way. Nothing is
assumed of inodes but that a file beside another has one of its own: the proof does not
use that `on_exit` recognises the captured file, which it cannot do reliably.

*The web side.* The promises say what an answer means when it arrives, so `Inv` says what
each hop carries: every status under way was true when it was taken and, as ends of
tasks are remembered in `ended`, remains so; a request past its reservation has its row;
one that is about to answer 202 has a started task with the asked-for id and version;
a page that waits does so for a request of its own. Only the last is about the pages,
and `ActiveIsPolled` follows from it.

*Reconciliation.* The ledger is proved first, on its own: with one indivisible step per
request, `LedgerInv` is types and both promises, and the work is in the sums. The
amounts are `SumFunction` over sets of allocations; `SumTheorems` proves how such a sum
splits, by an induction over finite sets that has a set of good subsets in the place of
a predicate (`FiniteSubsets`). Then every behaviour of the concurrent requests is one of
the ledger. `Inv` says, session by session, what is locked at each statement
(`RowsHeld`) and what a session may therefore believe: that the plan is sound
(`PlanFits`), that the items of its batch are free (`BatchFits`) or open (`DraftFits`),
that the open amounts it has read are those of this moment (`ReadFits`). A commit of
another session leaves all of that alone, as it changes no record that this session
has locked; so a commit is a step of `LedgerSpec`, every other step stutters, and the
promises carry over. A reversal locks the same records as a
confirmation, which keeps two reversals of one reconciliation apart even before they
lock its row.
`DeadlocksInOneTable` has an invariant of its own, `Ordered`: what a session holds is of
the table it is in or of an earlier one.

*The suggestions.* TLAPS knows a recursive function only by its defining equation, and only
once such a function is known to exist. `RecursionExists` gives one, for any recursion whose
arguments get smaller by a measure, `RecursionsAgree` says that there is no other, and
`BySize` is the induction; all three speak of sets of good arguments in the place of a
predicate. For each loop the measure is what is left of the lists (`Gap`), and the invariant
says what the rest of the loop will yield: for a window that starts at `i` and has reached
`j`, the ends that meet the target from there (`found`); for `_allocation_plan` with `due` and
`left` to go, a plan that gives no item more than it still lacks and spreads the smaller of
the two rests (`Spreads`, `PlanStep`). The ledger adds three facts: what is open is a natural
number, `Listed` names each record once (`ListedOnce`), and a batch has items on both sides
(`OnlyTwoSidedBatches`). With equal totals no item can be given less than it has
(`SumTight`), so an offered plan is exact; conversely, whatever plan settles a batch gives
both sides the same in all (`ExactPlansBalance`), so the page offers it.

*The reports.* A stamp is taken before the commit, so of two transactions the one that
commits later may bear the earlier stamp, and a day between the stamps might count what
never was active together. `DayInv` says why that cannot happen to one record: whoever
has locked it ran his last statement no earlier than anything on record about it was
stamped (`LocksAreLate`), as a row is locked in a statement of today and nobody else puts
anything on record about it while it is locked. Hence a new reconciliation, from its stamp
on, counts together with just those that are active (`GivingCounts`), whose sum is
bounded by `NeverOverAllocated`; before its stamp, and after a reversal, no more counts
than did before. `AgreeingReports` counts the allocations of a party twice, once by invoice
and once by payment (`SumOfParts`, `PartyBalances`), which needs parties that do not overlap,
and follows a supplier's ledger row by row to its last balance. `PastReports` follows from
the stamps alone. The locks of an import are
not needed: it records nothing.

*Imports.* `Inv` has one part per batch, per record and per session. The reason for the
state of each row (`Justified`) refers to the ledger for a batch and for an upload, and
to what the transaction sees (`SeenBy`) for a confirmation under way; as records only
move forward (`JustifiedMoves`), reasons remain reasons, and this is where a row that is
a duplicate of a row that fails has to be admitted. The steps that commit nothing
(`Quiet`) change one session; the two commits satisfy `Grows`, which says that nothing on
record is taken back, and `Keeps`, that nothing another session has locked is touched,
and these two are all that the other sessions' parts need.

*Only model-checked.* Liveness: TLAPS proves no `ENABLED` and hence nothing under fairness.
That is `EveryTaskEnds` and `WebComesBack` of the update, `WatchedTaskIsSeenToEnd` and
`WatchedEndIsAudited` of the web side, and `EveryRequestEnds`. Every invariant and every
action property of a run that passes, and both refinements, have a theorem.

## 5. Where the code does something else

Four runs are expected to fail. Each checks what the repository says of the
program, and ends in a trace of the code as it is.

- **`updater_cleanup_crash`** (`updater/platform.py:362`). `cleanup_original_step`
  inspects the original image before it looks whether the alias is gone. If removing
  the alias deletes the image and the updater dies before it has journaled that, the
  repeated step raises for ever; the task is `SUCCEEDED` with its cleanup pending, so
  later checks and starts are refused. `tests/updater/test_manager_recovery.py:431`
  tests a crash after each deletion with a platform double whose image stays.
- **`updater_stopped_web`** (`updater/manager.py:242`). A save that fails after
  `stop_web` ends the worker thread without a rollback; Web stays down until the
  updater restarts. `docs/superpowers/specs/2026-08-06-web-managed-upgrades-design.md:151`
  promises a rollback after *any* step that fails.
- **`web_confirm`** (`static/js/system-update.js:576`). The dialog names a version;
  `startUpdate` reads the version of the latest status again when its button is pressed.
  A status that a retry timer fetches while the dialog is open may name a newer
  release, which is then started unconfirmed. `docs/system-update-runbook.md:207` says
  that the dialog confirms that exact version.
- **`reconciliation_draft_race`** (`apps/reconciliation/settlements.py:52`). A draft
  that waits for a reconciliation keeps the record it partially used, because
  PostgreSQL tests only updated rows again. The draft cannot be confirmed until that
  reconciliation is reversed. `tests/reconciliation/test_task12_amendments.py:99` says
  that a draft excludes every partially occupied record; it runs one session.

Three more observations, which no run is about.

- **An edit the pin script cannot see** (`scripts/system-update-updater.sh:885`). The old
  updater works until compose stops it. If its `persist_version` has read `.env` before the
  script replaced it and writes after compose has read it, every check of the script
  passes, as they look at containers only: the run reports success while `.env` names the
  old updater and the container runs the new one, and the next `docker compose up` goes
  back. A recovery can end the same way. A Web upgrade should not be under way when
  the script is started; `docs/system-update-runbook.md:236` asks that no restart or
  rebuild of `db` and `web` is pending, and the script checks neither.
- **A reused inode** (`scripts/system-update-updater-atomic.py:401`).
  `classify_environment` takes a file with the captured content and inode for the captured
  file. After a replacement that inode is free; if an older edit brings the content
  back and the file system gives its file that number, the run removes its evidence
  as if nothing had been replaced, while the container may already be the new one.
  `docs/system-update-runbook.md:240` relies on this classification as a proof.
- **A supplier's balance**, visible without a run:
  `docs/superpowers/specs/2026-07-31-supplier-reconciliation-design.md:51` takes a
  supplier's balance as the difference of what is open, which does not hold while a
  cancelled invoice has active allocations. `ReportsAgree` states the exact difference.

## 6. What is not modelled

*Parsers* of bank, WeChat and tax files, name normalisation: conversions cell by cell
without state, which unit tests with fixtures reach; a model would repeat them. A
parser's result is a constant of `Imports`. *Exports, templates, search, cash flow, data
coverage*: they read rows and arrange them. *Roles, login, CSRF, form parsing*: a
modelled request is one that passed them. *Audit entries* are inserted in the
transaction of what they describe; only those that a decision reads (the terminal
audit, `invoice.status_changed`) are modelled. *Attachment links* to records are written
once, with the row. *`CommandRunner`'s threads* and the parsing of Docker's JSON are the
outcome of a method. *The shutdown controller* of `main.py` decides when the process
ends; the model lets it end anywhere. *Backups* are taken, never restored: restoring is
run by hand on a stopped installation; so is `deploy-dsm.sh`. *Release tools* scan the
repository itself.

Five effects inside modelled components are left out: a commit that succeeds while
its acknowledgement is lost (imports), a power loss between two writes of one file
(the pin script calls `fsync`), Docker's daemon going on with a command after its client
has died and its caller has gone on (compose counts as half-way at that moment), images
that share a tag, and somebody else retagging or pruning the original image before
`tag_rollback`, which then raises with nothing changed.

## 7. Plan

Modules, in the order they were written: `DockerPlatform`, `UpdateManager`, `Upgrade`;
`Ledger`, `RowLocks`, `Reconciliation`; `SystemUpdateWeb`; `Uploads`, `Imports`;
`Suggestions`; `Reporting`; `UpdaterPin`. What is left to model is section 6.

Theorems, in the order they were proved: types, retention and guarded migrations of the
update; types, exclusion, evidence and clean ends of the pin; the ledger and, by
refinement, reconciliation; the web side; the refinement of `Upgrade` with journal and
outcomes; imports; the days of the reports; that the reports agree; the suggestions, for
lists of any length and for every ledger. What is left is liveness.
