# TLA+ models of ait-native

ait-native is a workflow system for software changes. A client (`src/ait-core`)
records plans, tasks, changes and patchsets; a server (`src/ait-server`) keeps
them for many clients and queues Worker Jobs; runners (`src/ait-runner`) claim
those jobs and report the result. This directory holds TLA+ models of the parts
of the server on which everything else rests: the *remote Binary DB*, the file
store behind every repository, the *Worker Job store* beside it, the *runtime
leases* that decide which runner owns a Worker Job, the *prepared packages* that
are tested and reviewed before they are published, and the *retirement* of a
repository. TLC checks the models on small instances, and TLAPS proves
theorems about them for every value of the constants.

    tlc -workers 2 -config MCWriterAdmission.cfg MCWriterAdmission
    tlapm WriterAdmissionProofs.tla

`PROJECT.json` lists the components, the runs, the mapping from definitions to
source lines, the hazards and the theorems.

In this document `core/` stands for
`src/ait-server/rust/crates/ait-server-core/src/foundation/` and `server/` for
`src/ait-server/rust/crates/ait-server/src/`.

## 1. Inventory

### Parts that are modelled

**Command scopes** (`core/remote_binary_db/ids.rs`).
The files of the store belong to five families: content, plan, queue, pack and
workflow. A write transaction names a *command scope*: one family, a composite
of several (a task start writes plan and workflow, a land writes content, queue
and workflow), or the general scope of offline maintenance. A scope determines
the write locks, their order, the lanes of admission and the journal file.

**In-process write admission** (`core/remote_binary_db/admission.rs`).
State: per lane a mutex, a condition variable and three fields, `next_ticket`,
`serving_ticket` and `cancelled_tickets`. Operations: acquire (take a ticket in
each lane of the scope and wait), timeout with cancellation, release. Hard: a
timeout races the release that serves the ticket; cancelled tickets inside the
queue; the ticket counter at its end. Correct when one thread holds a lane, nobody
is overtaken, no ticket is served that nobody uses, and no waiter sleeps for ever.

**Transactions, rollback journal and process locks**
(`core/remote_binary_db/{txn,journal,locks}.rs`, with the file layer of
`filesystem_db.rs` and `filesystem_store.rs`).
State: the record, payload and index files, one rollback journal file per scope,
advisory locks per family and one recovery lock. Operations: begin (probe, gate,
scan for stale journals, lock, recover, create the journal), append, overwrite,
index merge, commit, abort, drop, and read transactions. Files are changed *in
place*; the journal makes that a transaction. Hard: crashes and I/O errors between
any two steps, also inside a recovery; journals of dead writers in overlapping
scopes; stale scans. Correct when a transaction happens entirely or not at all,
works alone on its files, and readers see what was committed.

**Worker Job leases** (`core/server_operational_runtime_leases.rs`, called from
`server/operational_binary_runtime.rs`; job records in
`core/server_operational_worker_jobs.rs`; domain commits in
`core/server_operational_job_domain.rs`).
State: job records, the lease table in memory, its replica file, the committed CI
evidence. Operations: open, claim, heartbeat, complete, fail, reconcile. Hard: each
operation is several writes to different places; reconcile reads the jobs and the
table at different moments; every request uses the time at which it started.
Correct when a job has one owner, a finished job stays finished,
success implies evidence, and a lost job comes back.

**Worker Job store and atomic finish**
(`core/server_operational_worker_jobs.rs`, `.../prepared_finish.rs`; recovery at
start in `server/operational_binary_runtime.rs`).
State: `worker_job.bin` with fixed records, a ready index, a state index, an update
journal for one record, temporary files; for package jobs also the ServerLand
journal of the Binary DB. Operations: enqueue, begin_attempt, requeue, complete,
fail, invalidation after restart, tombstone_all, finish_prepared_ci, recovery of a
publication, start. Hard: one operation changes up to three files in place or by
rename, each step may fail, and the rollback may fail as well; two journals of
different owners cover the same file. Correct when an operation happens whole or
not at all, an answer is true, the indexes list what was acknowledged, and a job is
bound exactly when its Patchset is published.

**Prepared packages** (`core/prepared_ci_runtime.rs` and its `governance.rs`,
`server/operational_binary_runtime/workflow_packages.rs` with `cleanup.rs` and
`reset.rs`, `.../prepared_finish.rs`).
State: in memory the executions, which of them stands for a package hash, the order
in which they passed, their reviews, and per package a count of readers and a flag
that asks for removal; on disk the job record and a directory of managed files.
Operations: prepare, claim, download, complete, fail, review, finish, abandon,
reprepare, and the loss of all memory at a restart. Hard: three locks with different
holders, downloads that hold none of them, runners that outlive their lease and the
server, reviews that arrive during a publication, and packages that compete for one
base. Correct when files stay while somebody works with them and go when nobody
does, a package is published with all its reviews and on the head it was tested on,
and nobody waits for a package that cannot be published.

**Retirement of a repository** (`server/repository_retirement.rs`,
`server/operational_binary_runtime.rs`, the lifecycle in
`core/server_operational_repository_registry.rs`).
State: the lifecycle of the registry record, `patchset.bin`, `worker_job.bin`, the
purge journal with its before-images, a cached export manifest. Operations: begin,
abort, export, purge, and recovery at start. Hard: a purge changes three
authorities and is undone or completed depending on the lifecycle that is found;
enqueues are not stopped by the registration lock. Correct when a purge takes
effect whole or is undone whole, and the server comes back after a crash.

### Parts that are not modelled

| Part | Why not, or when |
|---|---|
| registration of repositories, restore sessions | planned with the generations |
| generation lifecycle and activation | planned: staged generations and their switch |
| workflow store (tasks, changes, patchsets, reviews, lands), policy gate | planned after the stores below it; every operation is a Binary DB transaction |
| server plan, content and queue databases | record layouts and queries on top of Binary DB transactions |
| asynchronous job transport, scheduler, live turns | bookkeeping around the job store; after it |
| runner (`src/ait-runner`) | its requests, its silence and its death are actions of `RuntimeLeases`; heartbeat thread and attempt directories are planned |
| local Binary DB and generations of the client | a twin of the server's; planned where it differs |
| client workflow and remote synchronisation | planned last |
| agent core and worker | event loop around external models, mostly I/O |
| storage contracts, format validation | type declarations and byte formats, no state |
| HTTP routes and start, Postgres import, Node and Python bindings, release scripts | decoding, wiring, one-shot conversion and packaging |

### How the parts interact

A serving thread that wants to write first goes through admission, which orders
the threads of one process, then through the process locks, which exclude other
processes. Admission and process locks use the same names (`BinaryDbScopes`).
A completion of a Worker Job commits to the workflow database, which is such a
transaction, and then replaces the job record, which is an operation of the Worker
Job store. Finishing a prepared package writes the job record inside a Binary DB
transaction instead, under the queue lock of the job store and with the state of the
prepared packages locked. A purge runs a Binary
DB transaction and an operation of the job store inside a replacement of the
registry record. Runners reach the server by
requests only; a lost answer leaves the server with a lease whose token nobody
knows.

## 2. Modules

| Module | Models |
|---|---|
| `BinaryDbScopes` | scopes, their locks in order, their conflict relation; no state |
| `FifoLanes` | abstract: lanes are first-come first-served locks |
| `WriterAdmission` | the ticket lanes, one action per critical section |
| `WriterAdmissionProofs` | the theorems about it |
| `TransactionalStore` | abstract: transactions on private copies, published whole |
| `RemoteBinaryDb` | begin, recovery, journalled writes, commit, abort, reads, faults |
| `RemoteBinaryDbProofs`, `RemoteBinaryDbRefinementProofs` | the theorems about it: locks, journals, refinement and readers |
| `JournalDurability` | the rollback journal with every sync, against power loss |
| `JournalDurabilityProofs` | the theorems about it |
| `RuntimeLeases` | claim, heartbeat, complete, fail, reconcile, restart |
| `RuntimeLeasesProofs` | the theorems about it |
| `WorkerJobRecords` | job records and what the operations make of them; no state |
| `WorkerJobTable` | abstract: a table that each operation changes in one step |
| `WorkerJobStore` | the files of the job store, in steps that fail and are interrupted |
| `WorkerJobStoreProofs` | the theorems about it |
| `PackageReviews` | the review rules of a package, as operators with a reference definition |
| `PreparedPackages` | packages from prepare to finish, abandon or reprepare |
| `PreparedPackagesProofs` | the theorems about it |
| `RepositoryRetirement` | lifecycle, export, purge and the recovery of a purge |
| `RepositoryRetirementProofs` | the theorems about it |
| `MCWriterAdmission`, `MCRemoteBinaryDb`, `MCJournalDurability`, `MCRuntimeLeases`, `MCPreparedPackages` | instances for TLC |

`WorkerJobStore` and `RepositoryRetirement` are checked as they are: a `.cfg` gives
their constants.

Operators whose comment begins with "Mutant" are plausible mistakes of the code.
They are not used by any specification; each of them, put in the place of the
definition it belongs to, makes TLC find the property named in `PROJECT.json`
violated.

### WriterAdmission

`next`, `serving` and `cancelled` are the fields of `BinaryDbWriteAdmissionLane`,
`ticket` and `held` the guard a thread is building. `TakeTicket` is the part of
`acquire` up to its first wait, `Recheck` the wait loop after a notification,
`Timeout` its end: a ticket that is served by then is accepted, any other is
cancelled and the loop of `skip_cancelled_locked` runs. `SkipsTo` says where that
loop stops. `ReleaseLane` is one iteration of the guard's release, last lane
first. `MaxTicket` is `u64::MAX`, the value that is never handed out, so that
exhaustion and the restart at 0 are ordinary steps of a small instance.

### RemoteBinaryDb

A writer is one process that runs one transaction after another. Its `pc` follows
`begin_with_scope...` in `txn.rs`:

    idle -> preflight -> probing -> gate -> scan -> lock -> recover (-> undo)*
         -> header -> created -> open -> ... -> unlink -> unlinked -> idle

`Preflight` is the shared probe of the family locks, `AcquireGate` the recovery
lock, `Scan` the closure of overlapping pending journals
(`OverlappingRecoveryScopes`, a least set closed under conflict), `LockNext` one
lock of the union, `Confirm` the second look under the locks, after which the gate
is given up. Locks are tried and never waited for: `PreflightBusy`, `GateBusy`
and `LockBusy` are the error returns, and each gives everything back. Recovery reads a journal, undoes its entries from the last to
the first (`UndoEntry`), and removes it.

A write is up to four steps: `TrackFile` (existence and length, into the journal),
`TrackImage` (the records about to be overwritten, if they are within the original
length), `Apply`, and for an index `RewriteIndex`, because an index merge first
grows the file and then rewrites it. A commit is `CommitSync`,
`CommitUnlink`, `CommitDone`; the moment that counts is the removal of the journal.
Abort and drop are the same rollback from memory.

Faults: `Crash` (the process dies, its locks vanish, files stay), `FailAndLeave`
and `FailAndAbort` (an I/O error in begin or in an open transaction), and
`UnlinkSyncFails` (the directory sync of a commit fails after the unlink). They
happen at any step, `MaxFaults` in one behaviour. No journal covers the rollback that
follows a failed directory sync, and faults happen there as anywhere else: what that
rollback had not undone then stays. `TransactionalStore` therefore has a third
variable, `failed`, the writers whose commit failed with nothing to fall back on, and a
step `Tear` for such a writer only; every other transaction is whole or nothing.
`Unjournaled` is that set in the model.

A file is a sequence of records; record contents are small integers, because the
properties only ask whether contents are the old or the new ones.

### JournalDurability

One writer, whose files have two contents: what everybody sees (`file`, `jfile`)
and what is certain to be there after a power loss (`disk`, `jdisk`). A write
changes the first, a sync copies it to the second; the directory entry of a new
file needs the sync of its directory, and so does the removal of the journal.
`PowerLoss` leaves of each file any mix of the two, with records in pieces where
they differ (`Survivors`), and of the journal either, none of a new one, or a torn
last line (`JournalSurvivors`). `Crash` loses the process and nothing else, but the
next transaction then runs over data that is not durable yet.

The refinement mapping reads the committed contents off the durable lines of the
journal: a file cut back to its boundary, with every record that has images replaced
by the oldest of them (`ContentBefore`). Every overwrite writes its own image
(`Image`), so a record that a transaction overwrites twice has two, and only undoing
them from the last to the first ends with the old contents. A batch of overwrites is
modelled record by record. That undoing the lines one by one, in the order of recovery,
gets there is part of what is shown. It shows the same abstract store
as `RemoteBinaryDb`, so the two models share what "committed" means. Transactions
of several writes to one record, and recoveries interrupted twice, are checked here.

### WorkerJobStore

An operation is a sequence of file steps (`todo`), decided by the `Decide` actions
from the records found under the queue lock. Each step is an action that succeeds
(`Publish`, `ReplaceFile`, `OverwriteRow`, `AppendRow`, ...), fails (`ReplaceFails`,
`RowFails`, ...), or is cut by `Crash`; an atomic replacement may fail or stop
before or after its rename, a record may be written in part (`Mangled`). `onError`
is the error path of the code: the rollback of `persist_job_replacement`, which
publishes the journal again, or the rebuild of the indexes after an append.
`Start` follows `open_repository_runtime`. `Seen` is the table with the
before-images of both journals put back: what a reader that waits for the queue
lock, and refuses interrupted state, can see.

The transaction of finish is taken as `RemoteBinaryDb` shows it: begin undoes an
interrupted one, commit and abort are atomic. The candidates in memory are left to
`PreparedPackages`, so a finish may succeed here after a restart, where the code
wants the package to be prepared again.

### PackageReviews and PreparedPackages

`PackageReviews` has the fold of `governance.rs` and, beside it, what the fold is to
compute said without folding: a decision counts until its author takes the opposite
one in the same lane. The actions use the fold, `PublishedAsReviewed` the definition
without it.

In `PreparedPackages`, `op` is the holder of `package_operation_lock` and its place
in the operation, `queue` the holder of the queue lock, and `StateHeld` says when the
mutex of `PreparedCiRuntime` is kept over several steps: over the commit of a finish
and over the removal of an abandoned package. `exec`, `selected` and `passes` are the
fields of `PreparedCiState`; `readers` and `requested` are the two atomics of
`PackageDownloads`, each read and written in a step of its own. A download holds the
queue lock for `PinSelect`, `PinFence` and `PinCount` and none while it reads.
`runner` is not state of the server: it is what the runner really does, also when its
lease is gone. `Restart` loses everything in memory and follows the order of `open`:
the sets `reset` and `ended` are taken first, then the active jobs are invalidated.
`Begin` reconciles the leases as finish and abandon do; `Reconcile` is one step here,
its places are in `RuntimeLeases`. The publication is one step as well.

`Claim` asks for what the code asks for: a source that is known and, under the queue
lock, a queued job. It looks at no files; and since `claim_worker_job` does not look at
the selection, and `claim_next_worker_job` only before it takes the queue lock, a job
that was released but is still queued may be claimed. That the files of such a job are
there all the same is part of what `RunnerKeepsFiles` says: they go only after the
record left the queue.

A job has one attempt, as `prepare_workflow_package` enqueues it. That matters: with
more attempts, the report of a later one would count as the end of an earlier one
whose runner may still work, and `RunnerKeepsFiles` would not hold.

### RepositoryRetirement

Purge and recovery are again sequences of steps; `handler` says where an error
leads: out of the closure of `coordinate_repository_purge` through a first recovery
(`inner`), through the second one with the lifecycle read again (`outer`), or
straight to the caller. Clearing the locators is a single step, as `RemoteBinaryDb`
justifies. `tombstone_all` and `recover` of the job store work through temporary files:
an error or a crash in them leaves the records old or new and `scratch` set, and while it
is set no job is read. `Start` recovers the purge (`Recover`), opens the
repository (`Open`, which reads the locators and sets them anew) and recovers the job
store; `Refused` is a start that gives up. `Stop` is an ordinary stop of the server.
`Status` and `Export` are the requests that make and use the cached manifest, `Admit`
and `Enqueue` the two halves of `enqueue_patchset_ci`. `misread` remembers that a
recovery took a purged repository for a retiring one because it could not read the
lifecycle; nothing in the model depends on it but the exception of
`PurgedIsNormalized`.

### RuntimeLeases

`job` has the fields of a Worker Job record that the lease code reads or writes,
`entries` is the table, `replica` its file. A thread works on one request: it
reads the clock when it starts (`Asks`) and uses that value to its end. Job
records change under the queue lock (`QueuePcs` are the places inside it); the
table is changed atomically by `MutateEntries`, which writes the replica and puts
the table back when that fails. The places inside reconcile are `Scan` (jobs,
under the queue lock), `Look` (leases, without it), `Sweep` (discard invalid
leases that have not changed), and per lost job `Lost` and `Drop` (under the queue
lock again). Every claim reconciles first, as `claim_next_worker_job` does; so does
the start of the server (`Boot`).

A job record is replaced in one step that happens or is rolled back. `WorkerJobStore`
shows when that is exact: after an error of the rollback itself, or of clearing the
lock file, the replacement may also have happened (`AnswersHold`).

`evidence` abstracts the committed CI evidence to its completion time: that is the
field that differs when the same completion is repeated.

## 3. Runs

| Run | Instance | Question |
|---|---|---|
| `admission` | 3 threads, workflow / plan and workflow, 3 tickets, fair | Is a lane ever held twice or stranded, do the lanes implement `FifoLanes`, and is every queued writer served without timeouts? |
| `db_writers` | 2 writers, plan / plan and workflow, 1 reader, one write each, 2 faults | Do locks exclude, do journals stay disjoint, is the scan still right when used, is the recovery lock never kept while waiting, do readers see committed files unless a writer died, do the files implement `TransactionalStore`? |
| `journal_power_loss` | 1 writer, 2 writes, 3 crashes or power losses | Do the durable files implement `TransactionalStore`, and is what is found without a journal durable? |
| `leases` | 2 runners, 1 job, 2 attempts, 3 seconds, 2 faults, fair | Do lease, replica and job agree on the owner; do finished jobs stay; does evidence precede success; is a job without a live lease resolved? |
| `leases_reconcile_race` | 2 runners, no fault | Does reconcile keep live leases? **violated** (F1) |
| `leases_commit_replay` | 2 runners, 1 crash | Can an owner repeat a completion? **violated** (F2) |
| `worker_jobs` | 2 jobs, 2 attempts, 2 faults | Do readers see whole operations, are answers true, is every acknowledged job listed, is a torn record always protected, are binding and publication one? |
| `worker_jobs_start` | 1 job, 1 crash, fair | Does the server start again? **violated** (F3) |
| `package_files` | 1 package, 2 jobs, 1 download, 2 restarts, 1 failing write | Do the files of a job stay while its runner may work and while a download reads, and is a requested removal carried out? |
| `package_publication` | 2 packages on one base, 2 jobs, 3 reviews, 1 restart, 1 failing write | Is a package published with all its accepted reviews, only one on the base, and none held up for good? |
| `retirement` | 3 jobs, 3 errors, 3 crashes, fair | Is a purge whole or undone, can it always be undone, does the server come back unless one of three obstacles is there? |
| `retirement_aborted` | 1 job, 2 errors | Is an active repository free of purge journals? **violated** (F4) |

### Bounds, and why they are enough

*Admission.* Three threads are a holder, a waiter that times out and a waiter
behind it: the smallest instance in which a cancelled ticket lies inside the queue.
A family scope and the composite scope around it give a shared lane and a
lane held while waiting for another. With three tickets the counter is exhausted after three requests, both
while the lane is busy and while it is idle. The bound is lifted by the proofs,
which hold for any threads, scopes and width.

*Binary DB.* Two writers and the scopes plan and plan-and-workflow give both a
pending journal of a smaller scope met by a larger one, and the converse.
One file is a record file with one record, the other an absent index: existence,
length and contents all have to be restored. `MaxRecords` 2 and two values tell an
old record from a new one. Two faults let a recovery be interrupted, and let a crash
follow a failed directory sync. Several writes
of a transaction and a second interruption of its recovery do not depend on other
writers; `journal_power_loss` has them, with one file to restore and one to remove,
and a crash before a power loss. A
chain of three journals that conflict only through the middle one cannot arise,
because pending journals are disjoint (`JournalsDisjoint`).

*Leases.* Two runners and two attempts: the old owner, the new one, a retry and a
final failure. Leases of one second and a clock of three (two and four in the runs
that look for a violation) let a lease expire, be renewed and be replaced; six tokens are never used up at these bounds. Two faults
are a crash and a failing write, in any order. Jobs are independent but for the
queue lock, so one job is the interesting case; `Jobs` is a set and the actions go
through it in index order.

*Worker Job store.* Two jobs: the one at work and one that must not be disturbed.
Two faults: the step that fails and a failure or crash in its rollback, or a crash
and another one in the recovery. After a torn append the store refuses everything,
so that run may end in a state without successor.

*Packages.* Two restarts, because what the second one finds depends on what the first
one left: an invalidated job is noted only by the next start. Two jobs are the
original and its replacement. Readers of one package meet only in the count, which
changes in atomic steps: pins are taken under the queue lock while the job runs, and
finish, abandon and reprepare all come when it does not run or hold that lock; so one
download shows the races with a removal. Two packages on one base are the
competitors; a third would stand in the same relation to each. Three reviews, a
summary, a task approval and an objection that a later summary settles, come in every
order and number; the package takes no more of them (`Capacity`). All are of one bot:
objections of several authors, blocking reviews and required human approvals are
covered by the theorem `PublicationsReviewed` only. The head of the line moves only
by a finish, so `TestedOnHead` is about packages that compete with each other, and not
about other writers of the line.

*Retirement.* Three jobs: one finished, one exported, one that comes late. Three errors
are the step that fails, the recovery under the closure and the second recovery or the
reading of the lifecycle between them; three crashes interrupt purge, recovery and
recovery again (381,445 states). The theorems have no bound on any of these.

### Fairness

* `WriterAdmission`: weak fairness of each thread's `Step`. A runnable thread runs
  and a transaction ends. `Timeout` is not fair, so `QueuedIsServed` shows that
  progress comes from notifications and lock order, not from the budget.
* `RuntimeLeases`: weak fairness of `Step` (a request that started is worked on)
  and of `Poll` (the runner's loop claims whenever it is idle), and strong fairness
  of `GiveUp` (every execution ends in the end, by success, failure or death, also
  if heartbeats come in between). Time is not fair: `LostLeaseIsResolved` is about
  leases that are already gone. Reports are not fair either: nothing forces a
  runner to report anything.

* `WorkerJobStore`: weak fairness of `Boot` (whoever runs the server starts it again)
  and of `Step` (a thread at work goes on). Requests and faults are not fair.
* `RepositoryRetirement`: the same as `WorkerJobStore`, `Boot` and `Run`. `ServerComesBack` needs no
  request and no luck: faults are bounded, and after the last one every start must
  succeed, but for the three obstacles that `Obstructed` names: temporary files of the
  job store (F3), the journal of an aborted purge (F4), and a Patchset that locates a job
  that is not there, which an enqueue between the two restores of a recovery leaves.

Deadlock is checked except in `worker_jobs` and `journal_power_loss`, where the code
means to stop (a torn append, and a journal that cannot be read, are refused by
every later operation), and in the package runs, where the bounds on jobs and reviews
end a behaviour.

## 4. Proofs

The theorems hold for every value of the constants: any number of threads, writers,
readers, runners, jobs, packages, downloads, files, faults, crashes and restarts, any
scopes and any bounds that the named `ASSUME`s allow. Each proof has the same form: an
inductive invariant, one lemma per action that the step preserves it, and the
properties as consequences. The invariants were checked with TLC, as invariants of the
runs, before they were proved.

| Theorem | States |
|---|---|
| `WriterAdmissionProofs`: `AdmissionAccounts`, `AdmissionTypes` | `TypeOK`, `TicketAccounting` |
| `AdmissionExcludes`, `AdmissionServesTheLiving` | `LaneExclusion`, `NoOrphanHead` |
| `AdmissionIsFifo` | `FirstComeFirstServed`: the module implements `FifoLanes` |
| `RemoteBinaryDbProofs`: `LocksAndJournals` | the invariant `LockInv` |
| `WritersExclude`, `JournalsNeverOverlap` | `WriteExclusion`, `JournalsDisjoint` |
| `NewJournalIsFresh`, `ScanIsStable` | `FreshJournal`, `ScanStaysValid` |
| `JournalsCanBeUndone` | the invariant `DataInv` |
| `RemoteBinaryDbRefinementProofs`: `TransactionsAreAtomic` | `Transactional`: the module implements `TransactionalStore` |
| `ReadsAreCommitted`, `TypesHold` | `ReadsUnlessInterrupted`, `TypeOK` |
| `JournalDurabilityProofs`: `JournalInvariant`, `JournalTypes` | the invariant `JournalInv`, `TypeOK` |
| `CleanIsDurable`, `UndoStaysPossible` | `CleanMeansDurable`, `UndoIsPossible` |
| `TransactionsAreDurable` | `Durable`: the module implements `TransactionalStore` under power loss |
| `RuntimeLeasesProofs`: `LeasesAndJobs`, `LeaseTypes` | the invariant `LeaseInv`, `TypeOK` |
| `GrantsAreBacked`, `SuccessIsEvidenced` | `GrantBacked`, `SuccessHasEvidence` |
| `FinishedJobsStay` | the action property `FinishedStays` |
| `WorkerJobStoreProofs`: `StoreInvariant`, `StoreTypes` | the invariant `StoreInv`, `TypeOK` |
| `TornRowsAreProtected`, `AnswersAreTrue` | `TornRowIsProtected`, `AnswersHold` |
| `AckedJobsAreListed`, `BoundJobsArePublished` | `AckedIsListed`, `BoundIsPublished` |
| `StoreIsATable` | `AtomicOperations`: the module implements `WorkerJobTable` |
| `RepositoryRetirementProofs`: `PurgeAndRecovery`, `RetirementTypes` | the invariant `RetireInv`, `TypeOK` |
| `PurgedStaysPurged`, `FailedPurgesAreUndone`, `JournalsUndoPurges` | `PurgedIsNormalized`, `FailedPurgeIsUndone`, `PurgeCanBeUndone` |
| `PreparedPackagesProofs`: `PackagesInvariant`, `PackageTypes` | the invariant `PackageInv`, `TypeOK` |
| `RunnersKeepFiles`, `ReadersKeepFiles`, `CleanupsAreNotLost` | `RunnerKeepsFiles`, `ReaderKeepsFiles`, `CleanupIsNotLost` |
| `PublicationsTested`, `PublicationsReviewed` | `TestedOnHead`, `PublishedAsReviewed` |
| `FinishNotHeldUp` | the action property `FinishIsNotHeldUp` |

### Admission

Exclusion is not inductive. That two threads hold a lane is prevented by the
tickets being different, which in turn needs that no ticket is issued twice, which
after a restart at 0 needs that nobody was left in the lane. The invariant that
carries this is

    IInv == TypeOK /\ GuardShape /\ TicketAccounting

`TicketAccounting` says of each lane that the tickets from the served one to the
last one issued are exactly the cancelled tickets and those of live threads, each
once, and that a holder has the served one. `GuardShape` ties the number of held
lanes to the thread's place in `acquire`, so that the next lane is never one the
thread already has (`NextLaneIsNew`); that rests on `ScopeLanes`, the fact that
no scope names a lock twice. One lemma per action shows that `IInv` is preserved;
`LaneFrame` and `ThreadFrame` dispose of the lanes and threads an action leaves
alone. The three theorems follow: two holders would both have the served ticket;
the served ticket is issued and not cancelled, so a thread has it.

For the refinement, `Arrivals` enumerates the threads of a lane by the number of
smaller tickets. Two lemmas about finite sets make this usable: an enumeration in the
order of tickets exists (`InOrderIsOrdered`, an injection between sets of one size is
onto) and there is only one (`OrderedIsInOrder`). It is then enough to show, action by
action, that the queue after a step is ordered: a new ticket is the largest of its
lane, also after a restart at 0, a cancelled one is taken out wherever it was, and the
served one is the first (`ServedIsFirst`). Finiteness is not assumed: tickets of a lane
are different and at most `MaxTicket`.
Assumed: `ScopesAssumption`, `MaxTicketAssumption` (at least one ticket).

### Locks and journals of the Binary DB

    LockInv == LockTypes /\ JournalsDisjoint /\ \A w \in Writers : WriterOK(w)

`WriterOK` ties a writer's place to what it owns: from the second look on all locks of
its scope, before that every lock of a scope it found that it does not still want; the
gate exactly from the scan to the end of `create_new`; and while it recovers, every
pending journal in its way is one it still has to recover. Exclusion, disjointness and
freshness follow from it together and not one by one: that a new journal is fresh needs
that the scan was complete, which needs that the scanned set is closed under conflicts
(`ClosedUnderConflict`), which is the point of `OverlappingRecoveryScopes`. The proofs
rest on two facts about scopes, that each has locks and that the orders of locks and of
scopes are total (`LeastNumber` by well-foundedness of the naturals).

### Undoing journals, and the refinement

`DataInv` describes the contents of journals and of the files they are about. A journal
has one boundary line per file, which comes before the file's images (`OneBoundary`,
`BoundaryFirst`); no file is shorter than its boundary (`LongEnough`); the entries
that a rollback or a recovery is through with are undone (`UndoneTo`), so that
recovering again from the start gives the same; and a write that is about to change the
file only touches what the journal protects (`GrowsFile`, `Protected`).

The refinement maps the files, with all pending journals undone, to the abstract
database, and the files of the scope of an open transaction to its private copy.
`RecordBeforeAppend` and `ChangeIsUndone` are the two facts behind it: appending an
entry changes what undoing gives only for records that had no image, where it is the
present contents; and a protected change is invisible through the journal. Then every
step of a writer is a step of `TransactionalStore` or unseen (`WriterStepOfStore`); a
fault of an `Unjournaled` writer is a `Tear`;
and the other writers' files are not touched (`OnlyOwned`, from `LockInv`). Readers
need one more invariant, `ReadInv`: they hold the shared locks of what they have seen.

Assumed, besides types and bounds: the files before the first transaction are
contents with index rows strictly sorted (`InitFileAssumption`), and `Nobody` is not a
writer, and writers and readers are different (`ActorsAssumption`).

### The journal under power loss

    JournalInv == Shape /\ ... /\ LinesOK of both journals /\ Behind /\ DirtyIsJournaled /\ ...

`CleanMeansDurable` follows from `DirtyIsJournaled`: a file that is not durable has a
line in the journal, and during an abort or a recovery one that is still to be undone.
To keep that, undoing must be possible: a file that a line cuts back is there and
long enough, now and durably (`LongEnough`), for the journal that is seen and for the
durable one, because a journal that was unlinked comes back with a power loss until
its directory is synced. `Behind` says that the durable journal lacks at most lines at
the end. A file has one boundary line (`Single`), which is its first (`BoundaryFirst`).

    RecoveryInv == ImagesOK of both journals /\ Clean /\ Ahead /\ UndoneBehind

carries the refinement. `Clean`: the durable contents of a file and the visible ones
agree wherever the durable lines have no image, of however many, so what comes back after a power loss
is the same before these lines (`AgreeBefore`, `SurvivorAgrees`). `Ahead`: a line that
is not durable yet says what the file still holds, unless the record has an older image,
which is the one that counts, so its sync changes nothing that is committed
(`FreshBefore`). `UndoneBehind`: the lines above the cursor are undone and
durable, so with the last of them the files are those before the transaction
(`UndoneBefore`). Each step then is one of the store or unseen (`NextRecovers`): the
transaction commits where the removal of its journal becomes durable, also when
that is a power loss. Assumed, besides bounds: a file that does not exist to begin with
has no records (`InitFileAssumption`).

### Leases

    LeaseInv == TypeOK /\ Locked /\ (\A t \in Threads : Works(t)) /\ GrantsBegan
                /\ GrantBacked /\ SuccessHasEvidence

`Locked` is the queue lock; `Works` says what a thread found under it and may still
rely on, in particular that neither table has a lease of the coming attempt with
another token. That is what lets a claim write its lease before the job record: no
lease of an attempt that has not begun survives but the claim's own. `GrantsBegan`
is needed after a restart, when the table is read back from a replica that may be
older. Assumed: positive limits, and that job names are numbers (`LimitsAssumption`,
`ThreadsAssumption`), because reconcile goes through the jobs in their order.

### The Worker Job store

    StoreInv == TypeOK /\ DiskOK /\ (Idle => nothing is left to do and the answer is true)
                       /\ (~Idle => Working)

`DiskOK` is what any error and any crash leaves in the files. Every record but the one
in the update journal is whole, and its rows in both indexes are those of its state;
only the record of an enqueue that failed may lack rows, and nobody was told of it.
The update journal and the ServerLand journal never exist together, and under the
latter the record is the one before or the bound one. None of the properties is
inductive: that an error path restores what it should depends on the steps left.

`Working` therefore says which of eight phases the operation is in: `Recovering` (up to
the decision), `Rebuilding` (tombstone_all, and start), `Replacing` and `RollingBack`,
`Adding` and `Reindexing`, `Landing` and `Aborting`. A phase describes the steps left as
a path of a small graph (`Path`), so that an action needs to look at the first step
only and `PathStep` gives the next; and it relates the files to `base`, the table
found, and `goal`, the table meant. In `Replacing` the records are `base` up to the
write and `goal` after it, the journal holds the image from `base` until it is unlinked,
and an index that is not rewritten need not be (`PutOK`). In `RollingBack` they agree
with `base` except at the job; this covers the journal published again after it was
gone, and a record in pieces.

`WorkingDisk` is the fact that everything else uses: with the journals undone the files
are `base` or `goal`. For the refinement, users see `base` while an operation is at
work; `SeenStep` shows that the table seen changes only when an operation returns or
the server stops, and then to `goal`, which is `base` after one operation
(`GoalIsOneOperation`). Assumed: positive bounds (`TableAssumption`) and a number of
faults (`FaultAssumption`); nothing limits the jobs, the attempts or the faults.

### Retirement

    RetireInv == Types /\ Room /\ AtRest /\ AtStep

`AtRest` is what any error and any crash may leave: without a journal nothing of a
purge is in the files of a repository that is not purged, and with one the images are
complete. `AtStep` says what each step relies on; that only the first step left has to be
looked at rests on `Ordered`, the order in which steps follow each other in every list
that occurs. `Room`: exported jobs stay in the table, because an image is never longer
than the table it would replace. "Complete" (`Whole`) covers, besides the export, the
cached manifest: while the journal of a failed purge is there a client may still export
by a manifest that was cached before it, so what the manifest names has to be kept as
well, or `PurgeCanBeUndone` would not be inductive. Nothing limits jobs, errors or crashes; what more than one error
can do is in the properties themselves: the exception of `PurgedIsNormalized`, and that
`PurgeCanBeUndone` speaks of active repositories too, which can have a journal (F4).
`AbsentAssumption` only says that the mark of a missing file is not a file.

### Prepared packages

    PackageInv == Shape, JobOK of every job, OpOK, DownloadOK of every download, ...

The idea is that a job whose files may go is *quiet*: its record is settled, so nobody
can claim or pin it again, and its runner has stopped. `JobOK` says that a requested
cleanup, an ended attempt of an earlier server and an execution that was stopped imply
it; `OpOK` says it of the operation on its way to the removal. That a runner has stopped
is not visible to the server; it follows from what was reported: success, a terminal
error, or a record that was never claimed. `JobOK` therefore also keeps that an
executing runner's record is claimed and neither succeeded nor terminally failed,
which is where the difference between an expired and a terminal failure comes in.

`CleanupIsNotLost` needs the count of readers to be exact
(`readers[j] = Cardinality(Reading(j))`). `TestedOnHead` needs `LineOK`: the head and
the base of every published package are landed, and no published package has the head
as its base. With `RevisionAssumption` (a package's name is also that of the snapshot it
publishes, and none publishes the snapshot again that the line starts from) a new head
is therefore no base that was used before. `FinishNotHeldUp` follows from how
`WithoutFailed` changes the executions. `ReadersAssumption` asks for finitely many
downloads at a time.

`PublishedAsReviewed` relates the fold that the actions use to the definition without a
fold. The invariant has that the published reviews passed `RequireComplete` and are
those the execution holds; `CompleteIsReviewed` has what passing means, for every
sequence of reviews. `LanesOK(actions, s, n)` is its induction hypothesis: after the
first n reviews, an objection that was not settled since blocks its author's lane in s,
and a decision marked in s was made and not objected to since. `NextReview` takes it
over one review. The induction itself is on the set of the n for which the hypothesis
holds (`InductionUpTo`, from the least number outside it), and the same lemma shows
that the function `Folded` defines exists (`FoldedSteps`). `ReviewsAssumption` asks that
a review identifies a human, a bot or nobody, as the code's principal does; its action
may be any word.

### Only model-checked

* Liveness (`QueuedIsServed`, `LostLeaseIsResolved`, `ServerComesBack`): fairness and
  ENABLED are outside what the prover handles. `GateNeverWaits` speaks of ENABLED too.

## 5. Findings

**F1. Reconcile may discard the live lease of a running attempt.**
It reads the jobs under the queue lock, gives the lock up and then reads the lease
table. A job claimed in between is queued in the snapshot, so its lease looks
invalid. The same happens to a lease whose heartbeat is later than the clock value
of the reconcile. The runner's next heartbeat is refused, and the attempt is lost.
Safety is not touched: `FinishedStays` and `GrantBacked` hold with the race.

**F2. The domain commit of a completion cannot be repeated.**
Its contract demands idempotence, because the process may die between the commit and
the job record. The evidence is stamped with the time of the request and compared
with that time included, so a repetition a second later is refused as
contradicting, and the job ends failed although its evidence is committed.

**F3. A crash during a record replacement keeps the server from starting.**
`open_repository_runtime` reads the CI locators before it recovers the job store, and
that read refuses an update journal or a rebuild file. `recover()`, a few lines
further down, would have cleared both. Every start fails until somebody removes the
files by hand, and removing the journal would leave the record unprotected. A purge meets
the same: when `tombstone_all` fails or is cut short, its temporary files stay, the
recovery of the purge restores the job file next to them, and the start is refused.

**F4. An aborted retirement may leave an active repository with a purge journal.**
Publishing the purge journal fails after its rename, and the recovery that follows fails
as well: the purge reports both errors and the journal stays. `abort_repository_retirement`
does not look for one and makes the repository active. `recover_purge_journal` calls that
state impossible and refuses it, so the next start of the server fails. When the
repository is retired again before that start, the start restores the old images, and
jobs enqueued in between are lost.

## 6. Limits of the models

* A crash of `RemoteBinaryDb` is the death of a process; power loss is modelled for one
  writer (`JournalDurability`). The Worker Job store and the purge sync every file
  and directory before they go on, and their crashes keep what was written.
* A reader that begins after a crash may see what no transaction committed:
  `new_for_scope` takes the shared locks of the families and does not look for
  journals; only a writer recovers them. `ReadsUnlessInterrupted` says that this is
  the only case. The visibility contract in `test_support.rs` does not mention it.
* A commit whose directory sync fails has removed its journal and is then undone from
  memory. A crash or an error in that rollback leaves the transaction torn, with no journal
  to find it by. The visibility contract in `core/remote_binary_db/test_support.rs` promises
  a journal that covers every touched file while a transaction is in progress (line 540),
  and the exact bytes from before it after a recovery (lines 548-551); in this
  case neither is there. `Transactional` states it as its only exception (`Tear`), and it is
  not a run of its own. In `db_writers` a transaction has one write, so what
  stays there is that write whole; that a part of a longer transaction may stay, and that
  nothing else is touched, is in the theorem.
* The journal's text format, layout identifiers, length checks, index lookup and
  the publication of packs are data handling and left out.
* A failed commit is followed by the drop of the transaction; a caller that retries
  commit on the same transaction is not modelled.
* `RuntimeLeases` models bound `patchset.ci` jobs of one repository. Its clock never
  goes back. Tokens are 128-bit random values in the code; in the model a new
  token differs from every token still around.
* Whether a headerless or torn journal is ever removed is not a property: the code
  rejects it as corrupt until somebody removes it. `CleanMeansDurable` says that
  removing a headerless one loses nothing.
* `PreparedPackages` leaves out attestations and their capacity, the comparison of the
  published records with the tested package, a preparation that fails halfway and
  cleans up after itself, the checks that a path is the managed one, and empty
  containers. A partly removed directory stays partly removed until a cleanup is
  repeated; after a restart nobody owns it, and `CleanupIsNotLost` only speaks of
  behaviours in which no write and no removal failed.
* A lifecycle that cannot be read after a failed purge counts as retiring
  (`operational_binary_runtime.rs:1266-1271`). If the error came after the registry record
  was replaced, the repository is purged and its files are restored all the same: two
  errors, one after the rename and one in the reading, and TLC finds this when the
  exception is taken out of `PurgedIsNormalized`. It is stated as that exception and is not
  a run of its own.
* An enqueue admitted while the repository was active may append its job after the purge:
  `enqueue_patchset_ci` checks the lifecycle first and does not hold the registration lock.
  The repository is then purged with a live job that a Patchset locates. Nobody can claim
  it, since claims only consider repositories that are serving, and it stays as it is.
  `PurgedIsNormalized` speaks of the exported jobs, and so does not exclude it.
* `RepositoryRetirement` has no indexes of the job store: whether recovering it has to
  write an index again, and can leave a temporary file in doing so, is left open. The copy
  of the lifecycle in memory is taken to be that of the registry, and a repository has one
  enqueue at a time.
* An enqueue that fails after its append leaves a record that no index lists until
  the next start; the caller was told of an error.

## 7. Plan

Done: scopes, admission, Binary DB transactions, the journal under power loss, leases,
the Worker Job store with atomic finish, prepared packages with their reviews and
downloads, retirement; theorems about all of them, with the four refinements proved.

Next, in this order:

1. `GenerationActivation`: staging and switching a generation, with crashes, and the
   registration and restore of repositories.
2. The runner: heartbeat thread against execution and attempt directories, composed
   with `RuntimeLeases`.
3. The land operation of the workflow store.
