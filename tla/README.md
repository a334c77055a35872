# Verification of the Pidex Host

TLA+ models of the Pidex Host and its neighbours, the TLC runs that check them
on small instances, and TLAPS proofs of what matters most for every instance.
Every definition is translated from the sources under `src/`; `PROJECT.json`
gives the lines behind each one. "SPEC" below is
`src/.scratch/pidex-product-and-architecture/SPEC.md`, which the repository's
README calls normative, and "CONTEXT" the `CONTEXT.md` beside it.

## The system

Pidex is a daemon ("Host") on one Windows machine that runs Pi coding agents
for remote browser Clients. The parts with state of their own:

| Part | State | Operations | Talks to | What is hard |
|---|---|---|---|---|
| Runs of a Session (`host.ts`, `store.ts`, `pi-worker.ts`, `run-artifacts.ts`) | rows of runs, interactions, steering; residency and availability; evidence files; maps of workers, generations, jobs, timers, resolvers | submit, follow-up, release, cancel, stop, steer, answer, sleep, archive, restore; the continuations of `worker.execute`; timers; recovery | SQLite, Pi worker, job object, Clients | several commits in one callback, crash or fault between any two; timers racing Pi's answer; workers replaced under a running Run |
| Authority generations (`authority-generations.ts`, `production-recovery.ts`, `durability`) | directories with sealed envelopes, objects, selector, holds, warnings | resolve, activate, hold, clear warning, cleanup | file system | crash between two file-system effects; damage; fallback; what cleanup may delete |
| Synchronization and read state (`store.ts`, `host.ts`, `client-store.ts`) | sequence and epoch, change log, read marks; each Client's cursor and caches | commit, publish, synchronize, mark read, retention, epoch rotation | Clients over WebSocket | connection lost between two messages, pruned history, stale caches |
| Release activation and lifecycle (`launcher/`) | selector, running release, drain state, restart window | update, drain, activate, roll back, supervise | Host, file system | partial failure and resuming what was paused |
| Commands (`store.ts`, `client-command-journal.ts`) | receipts; journal entries | submit, retry, reconcile | Client and Host | lost answers, restart, epoch change |
| Blobs and maintenance (`store.ts`, `run-artifacts.ts`) | blob files, references, quarantine | publish, quarantine, restore, delete | file system | files and rows apart after a crash |
| Genesis and migration (`authority-generation.ts`, `migration.ts`) | legacy database, frozen marker, sealed generation | freeze, seal, select, delete legacy | file system | crash in every gap |
| Monitors (`durability-coverage.ts`, `storage-protection.ts`, `capacity-admission.ts`) | latest observation | refresh, admit | file system | stale observation |
| PWA (`client-store.ts`, `control-connection.ts`) | projections, drafts, the open Session, the New Session form | load, open, recover, mark read, create | Host, journal | answers to older questions on one shared socket |
| Worktrees (`git-worktrees.ts`, `host.ts`) | what git lists, rows of Sessions | discover, create, clean up | git | two Clients, and the loss of the process between git and the commit |
| Pi adapter and worker protocol (`pi-worker/`, `worker-protocol/`) | children of the SDK, frames, checkpoints, lifecycle | execute, abort, force, wake, settle | Pi, Host | a stop between two awaits; facts and commands crossing |
| Recovery points and restore (`recovery-snapshots.ts`, `whole-host-restore.ts`) | point directories, shared objects | create, verify, rotate, delete, preview, activate | file system, SQLite backup | collection under a copy; damage after a preview |
| Portable backups, native launcher, presentation, diagnostics, CLI | see `components` in `PROJECT.json` | | | |

The Host is one Node.js thread. What interleaves is callbacks: client messages,
promise continuations of Pi, timers, and the loss of the process between any
two durable effects. `hazards` in `PROJECT.json` lists, line by line, where
that can go wrong; the properties are chosen against that list.

What makes each part correct: a Run is dispatched at most once and ends in one
outcome, a completion is always proved, a Stop always ends, the queue is in
order and never stranded, sleep and archive only when quiescent; startup opens
the newest valid Authority or says that it did not, and cleanup removes nothing
that startup, fallback or evidence needs; a Client that resumes has missed
nothing or knows it; an update ends in the old or in the new release with
mutations resumed; a command takes effect once.

## Modules

| Module | What it is |
|---|---|
| `SessionRuns` | the Runs of one Session, in detail |
| `RunContract` | what the Host promises about each accepted Run, without saying how |
| `SessionProofs` | theorems about `SessionRuns`, that it implements `RunContract`, and about `ClientView` |
| `AuthorityGenerations` | the sealed generations of the Host's Authority |
| `AuthorityProofs` | theorems about `AuthorityGenerations` |
| `ChangeFeed` | what the change log promises to the rest of the Host |
| `ChangeLog` | the transactions of the store on Sessions: sequence, log, read state |
| `ChangeLogProofs` | theorems about `ChangeLog`, and that it implements `ChangeFeed` |
| `Synchronization` | one Client kept in step over `ChangeFeed`: publication, delivery, resume |
| `MCChangeLog`, `MCSynchronization` | the same for TLC, with Sessions interchangeable |
| `Commands` | one command from the composer to the Host and back, with its replays |
| `CommandsProofs` | theorems about `Commands` |
| `ClientView` | what the PWA loads, shows and marks read over its one socket |
| `NewSession` | the New Session form, git worktrees and the creations of two Clients |
| `NewSessionProofs` | theorems about `NewSession` |
| `PiAdapter` | a Session's Runs down to the children of the Pi SDK |
| `WorkerDuplex` | the protocol between the Host and a worker process |
| `WorkerProofs` | theorems about `PiAdapter` and `WorkerDuplex` |
| `HostLifecycle` | staging, supervision, drain, stop, removal, the three activations |
| `HostProofs` | theorems about `HostLifecycle` and `Synchronization` |
| `LegacyCutover` | the move from the legacy database to sealed generations |
| `RecoveryPoints` | blobs and maintenance, recovery points, whole-Host restore |
| `StorageProofs` | theorems about `LegacyCutover` and `RecoveryPoints` |

How they meet: `SessionRuns` and `PiAdapter` describe the same Runs from the
store's side and the SDK's; `WorkerDuplex` is the out-of-process form of the same
worker. `ChangeLog` implements `ChangeFeed`, over which `Synchronization` runs; the
scope and the resets it models for an obedient Client are what `ClientView` uses in
the PWA. `Commands` is how a command of `ClientView` or a Run of `NewSession`
travels. `LegacyCutover` makes the first generation of `AuthorityGenerations`,
`RecoveryPoints` activates one, `HostLifecycle` switches the release that opens it.

### SessionRuns

One Session: every statement of `store.ts` about Runs is keyed by session id.
Durable variables (`run`, `residency`, `availability`, `evidence`, `ask`,
`steering`) are rows and files; volatile ones (`gen`, `job`, `inflight`,
`worker`, `timer`, `stopGen`, `resolver`, `steerPending`) are the maps of
`startHost`. The random id of a worker generation is named by the Run whose
dispatch minted it; the `workers` and `workerGenerations` maps change together
and are the one variable `gen`. `worker[r]` is the generation Run r was handed
to and survives a crash as history.

A callback that commits several times is a chain of steps. `handler` names the
next step; while it is not idle only that step, a storage fault in it
(`StorageFault`, `DispatchFault`, `RecoveryFault`: the step rolls back and
control goes to the enclosing `catch`) or `Crash` may happen. Steps with no
durable effect between them are joined; two adjacent commits that no property
can tell apart (marking steering and withdrawing interactions after a worker
loss, holding the queue and going to sleep) are one step.

Left out: command receipts and revisions, texts and timelines, capability
negotiation, publication to Clients, the images of a prompt except that reading
them may fail.

Bounds: `MaxRuns` Runs, `MaxCrashes` losses of the process, `MaxFaults` storage
faults, one interaction and one steering per Run in the sets given. Two Runs
are enough for every race of a Stop with a later Run, and are what the run
`session` has; `SessionQueued` takes three, so that a follow-up stands behind a
held Run.

### AuthorityGenerations

Calls are synchronous but have several file-system effects: `call.at` names the
next one (scan, copied, warn, select, publish), and a fault or the loss of the
process may strike between any two. Generations are numbered in the order they
are minted, and a continuity is named by the generation that minted it; the
activation index stays separate from the name. `stray` says that a directory
under `generations/` is not a generation: a half-copied fallback, a stage left
by a crash, a half-deleted directory. `seen` and `proven` abstract the scan
numbers cleanup asks about. Holds and protected markers are one set. `Init` is
one sealed generation, as genesis leaves it. Torn JSON files are not modelled:
the code replaces them by rename. `Damage` loses one object or the selector.

Bounds: four generations give a grandparent, a fallback and an activation after
it; one object is enough to be shared or lost; one crash, fault and loss.

### ChangeLog and ChangeFeed

`ChangeLog` has one action for each transaction of `store.ts` that a Client can
see: create, fork, rename, sleep, archive and restore, submit, the reports of a
Run, steering and Stop, an interaction that opens or closes, settlement, mark
read, maintenance, epoch rotation. `session[s]` is a row of `sessions` (metadata
revision, Timeline length, read-through position, unread milestone, read-state
revision), `log` the table `synchronization_changes` with its `committed_at`,
and `committed` the history of every row. A Run is only counted here; its life is
`SessionRuns`. `CreateSession` and the others that log a change share `Announce`;
`Reach` is a Timeline entry with `recordUnreadMilestone`. Some transactions take
a sequence number but log no row (steering, the second number of a settlement),
and some change a Session without taking one (submit, worker loss).

`ChangeFeed` is the abstract log: a number that grows, rows that say which
revision a Session reached, a log shortened from its old end. The mapping is
`Feed` in `ChangeLog`; the seven types of change become three kinds, because all
but `renamed` and `read` are delivered and received alike.

`RunMaintenance` here is only the deletion of old changes. The reset of all
residencies at start (`store.ts:2374`) is not an action: `LoseWorker` covers the
loss of one worker. Texts, receipts, projects and workspaces are left out.

Bounds: five sequence numbers and four Timeline entries let a Session be created,
answered, read and unread again, or forked from another that settled a Run; two
epochs; a clock with two values, so that maintenance finds old and new rows.

### Synchronization

Over the feed: what the handlers publish after a commit (`PublishChange`,
`PublishProgress`), the bounded queue of one socket (`Push`) with the in-place
replacement of a waiting rename, and `scope.set` answered by a replay or a reset
(`Synchronize`). The attention summary of a Session is published before its read
state and carries the later cursor; whether it is published at all depends on
what was published last, so it is a choice. The head of `delivery.queue` is the
message handed to the socket: `Receive` is its arrival together with the callback
of `client.send`, and a closed connection loses it.

The Client is external: one that obeys the protocol as the schemas and SPEC
section 8 describe it. It asks for its scope when it gets `host.snapshot`;
installs a reset as a whole; otherwise keeps the higher revision; takes a cursor
from a change only once it is current; and resumes with a claim of every revision
it holds. The repository's own Clients use less of it: the PWA sends no cursor
and starts over each time, the CLI sends a cursor and no claims and leaves.

Left out: Session scopes with their Timeline windows, command outcomes, Timeline
and Run messages, which only take room in the queue; a storage fault between the
commit and the publication; the loss of the Host, which to a Client is
`Disconnect`.

Bounds: two Sessions, five sequence numbers, two epochs, three messages in the
queue: enough for two changes with a snapshot or an attention summary between
them, and for an overflow in the middle of a replay.

### Commands

A command waits with a *caller*: itself for its first send, a *recovery* (one run
of `recoverAuthority`) for a replay. `step` is the await the caller is at:
`reserve` and `mark` are the transactions of `journalHostAdapter`, `opening` and
`waiting` the promise of `connect` with its ten-second timer, `record` the
transaction after the answer, `look` and `reading` the steps of a recovery. The
Host's side is one transaction with its receipt (`Handle`), or the same on a
socket the Client has already lost (`HandleLate`). Commands come in three kinds,
by what the Host keeps: a Submit leaves a receipt either way, a Stop only when it is
accepted, a Release (also cancel and an interaction's answer) none. Whether the
target still admits the command is chosen when it is issued and ends with its
effect; for a Release the state of the Run is all that protects it from a second
effect. `Project` and `Shown` are how the store retires an outcome when the
projection arrives and what it shows of a result. A recovery replays what it
captured in any order; the code keeps the order of the outcomes, which nothing here
depends on.

Left out: drafts and images, the texts of errors, IndexedDB beyond one atomic
transaction at a time. Bounds: one issued command of any kind, two recoveries that
may overlap, two mishaps (lost connection, reload of the page, failed journal).

### ClientView

A `call` is one `loadDiscovery`, `openSession` or `recoverAuthority`, with the await
it is at and what it was answered. An entry of a Timeline is the revision that
brought it, an attention summary the cursor it was derived at. The calls share one
socket whose scope is the last one any subscriber asked for; `toHost` and
`toClient` are its two streams. `seen` is history: the entries that were on the
screen. `PresentTail` is `presentTail` with the optimistic read status; the
listener of `watchSession` (`TimelineChange`) merges a change only from the
revision it is based on.

`ReadWasShown` says of every Session that the entry it is read through was on the
screen, and of one opened once also every entry before it. Without the condition it
is false, though it takes six calls: a recovery that read Session b writes the
catalog's revision over Session a, whose Timeline it did not read; if a is opened
again, the next change of a follows that revision, and is shown and marked read with
an entry missing before it. `ClientRead.cfg` looks at that schedule alone.

Left out: paging of older entries (the window is the whole Timeline), archive and
sleep, expansion and search. Bounds: two Sessions, two changes, three calls, one
mishap: a load, an open of either Session and a recovery may overlap.

### NewSession

A Project is its directory, and all git worktrees are of one repository. `form` is
`newSession` of the store; `flow` is what `submitNewSession` captured before its
awaits; `lookups` are discoveries under way. On the Host a creation goes through
`Begin` (scope check), `List` or `AddTree` (git, awaited), `Finish` (the transaction,
with the checks made again) and `CleanUp`; `disk` is what git lists. Another Client
adds Projects and creates Sessions, in its own worktree or in one it was offered.

`WorktreesAreNotShared` leaves out the own directories of Projects on purpose: a
Session may select a worktree that another Project was added from, because
`validateSessionScope` asks for the Project of a Workspace row only
(`NewSessionShared.cfg`).

Left out: draft storage and images; the journal's waits are part of the caller's
step; browsing is `AddProject` with a valid or an invalid token; the change of
`selectedSessionId` and what the Run does. Worktrees are removed by nobody else.
Bounds: two directories, one creation of each Client, two forms opened or scopes
chosen, one mishap.

### PiAdapter

Run r names the worker object, the generation and the child it makes. `pc[r]` is the
await of the call chain `execute` is at (probe, bind, configure, session, prompt,
flush); at each of them the Host may dispatch, stop, force, close or wake. `mapped` is
the child in `#children`, `user` the Run that set `#running` on it, `ui` the Run
whose context it holds. `host` is the Run's record, reduced to what these calls read.

Left out: steering, model and mode, and two children made by two bindings that
overlap (`#child` is taken as atomic up to its first await). Bounds: three Runs.

### WorkerDuplex

`lifecycle` is the Host's `SessionGenerationLifecycle`, `endpoint` the worker's
`ExactPiWorkerEndpoint` with its child; each direction between them is an ordered
stream of frames. The worker's frames are handled one after the other (`#work`), the
Run it executes goes on beside them. `gap` records
that an outgoing frame used a sequence number and was never sent, which the peer
calls `invalid-frame-order`. An answer of the Host fits the kind of its request or does
not (`Answers`); one that does not is refused with a fault (`RefuseAnswer`), and the
request goes on waiting. `chunks` and `manifests` are the two publications of
a checkpoint. The Host around `SessionGenerationLifecycle` is not in `src/` and is
external: it applies a lifecycle operation for each frame it receives and fails the
generation when one throws.

Left out: bytes of frames, heartbeats, presentation effects, `fork` and `migrate` of
`PiCheckpointStore`. Bounds: two Runs, two interactions, one mishap (broken stream,
lost worker, unencodable frame, failed prompt).

### HostLifecycle

One operation at a time; `pc` names the hook it is at. Hooks are external: each
returns, or throws without effect into the operation's `catch` (`Caught`, `CatchOf`);
only removals throw with some of the paths gone. What the `catch` and `finally`
clauses call may throw as well: the question whether mutations were accepted
(`AskFails`: no rollback, and the `finally` clause resumes), the rollback
(`RollbackFails`), the resumption of the prior release (`ResumePriorFails`: nothing
restores the acceptance) and of mutations (`ResumeFails`: a planned operation tries
once more). So may the rejection before the `try` (`RejectFails`) and the job's close
(`CloseFails`). A runnable activation that succeeds restores nothing: the new release
accepts for itself. `outcome` names how an operation ended; `SelectedTogether` excuses
the outcomes `GivenUp`, in which the code itself leaves the data without a
rollback, and `AcceptanceReturns` names those in which a running Host may go on
rejecting. After an outcome that is not in `Repeatable` no further operation is begun,
because what it would start from is not defined by the code.
The planned operations (stop, restart, uninstall, purge), the Windows shutdown and
the signed, source and runnable activations share the steps they share in the
code's shape: reject, force, drain, flush, data, start, pointer. `DataBefore`,
`CatchOf` and `RestorePointer` say where the three activations differ. Beside it run
`stage` of a release, whose package may change under it, and `superviseStartup`.

Left out: an operation begun while another runs, a loss of the launcher between
`activateData` and the pointer. Bounds: two releases,
two attempts of the supervisor (six in the code), two units of work, two
operations, two faults.

### LegacyCutover

A database is its main file and its write-ahead log; write w brings row w and blob
w. `op` and `at` say what the offline tool is doing (migrate, cleanup, delete) and
at which of its durable effects; a process may be lost at each. The bridge Host
opens the legacy file until `frozen`, then the generation selected. `objects` and
`torn` are whole and short files of the object directory. `proof` is the file,
`granted` what the caller of `deleteLegacy` holds. The documents have release B
quiesced before release M starts (`Quiesced`), which no code enforces.

Left out: `createGenesis`, migration of Pi artifacts, schema versions. Bounds: two
writes, two releases, one kind of mark, two lost processes.

### RecoveryPoints

`blobs`, `quarantine`, `orphans` and `retained` are the files and rows of
`runMaintenance`: `Decisions` is its transaction, `todo` the moves left to make.
`busy` is a synchronous block that only the loss of the process interrupts. `point`
are the recovery points: requested, made, published, verified, torn, deleted;
`store` the recovery objects they share; `rotten` those whose bytes changed.

A restore runs in a process of its own. `Restore` is the look at the daemon, the
preview and the point; after it come the copies, one file a step (`CopyDatabase`,
`CopyFile`), and the activation, and between any two of them the daemon may start,
points may be made, rotated or deleted and files may rot. `restore.since` is history:
what rotted after the look. `ActivateUnflushed` is the failure after the pointer moved,
whose `catch` clause removes the directory the pointer names. `waiting` is what was
activated until a daemon opens it; a daemon that runs keeps what it opened.

Left out: portable archives, `OnlineSnapshotStore`, migrate and rollback, and a Host
whose database or blobs were copied rotten, which is not followed. A preview is taken
only while a restore may follow. Scheduled passes are taken one at a time. Bounds: one
object, two points of which one is kept, two Timeline commits, one restore, two
mishaps (process lost, write failed, bytes rotten).

## Runs

| Run | Checks | States |
|---|---|---|
| `session` | `EscalationArmed`, `ArchivedIsQuiet`, `NeverReplayed`, `StopReachesItsWorker`, `StopEnds`, `ContractSpec` | 127 549 |
| `log_replay` | `ReplayIsComplete`, `ReadRevisionExact`, `ImplementsFeed` | 548 863 |
| `sync_read` | `SyncTypeOK`, `CurrentReadIsTrue` | 1 078 164 |
| `authority_select` | `NewestLossRecoverable`, `PredecessorKept`, `NoSilentRegression`, `ClosureKept` | 979 040 |
| `commands` | `AtMostOnce`, `AcceptedIsTrue`, `FirstRejectionIsTrue`, `PendingSettles` | 83 127 |
| `client_view` | `ReadWasShown`, `AttentionAdvances` | 1 284 083 |
| `new_session` | `TreeIffSession`, `WorktreesAreNotShared`, `OffersItsProject` | 1 263 403 |
| `pi_adapter` | `AbortHitsItsRun`, `AsksUnderItsOwnRun`, `RefusedOnlyBehindStopped` | 57 330 |
| `worker_duplex` | `LifecycleAccepts`, `OutcomesAreProven`, `RespondedWasConsumed` | 5 872 496 |
| `host_lifecycle` | `PublishedIsVerified`, `SelectedTogether`, `OneSupervisionJob`, `AcceptanceReturns` | 107 312 |
| `legacy_cutover` | `RowsKept`, `BlobBytesKept`, `DeletionProven` | 501 066 |
| `recovery_points` | `ReferencedBytesKept`, `PointsKeepTheirObjects`, `RestoresWhatItVerified` | 4 012 266 |

All hold. Each property's comment in its module says what it means; each has in
`PROJECT.json` a mutant, a plausible bug in a mapped definition, that violates it.
Two Runs are enough for every race of a Stop with a later Run, since every
operation on a Run looks at no more than one other.

Deadlock is not checked: the bounds stop the system when they are used up, and a
Session with every Run ended, or a page with nothing to do, may rest.

Fairness:

- `SessionRuns` (`FairSpec`, for `StopEnds`): weak fairness of the steps of a
  started callback and of the two Stop timers, because Node runs a callback to its
  end and fires due timers, and of `Restart`, because the supervisor starts a lost
  Host again. Nothing is assumed of Clients or of Pi. `StopEnds` excuses storage
  faults: a settlement whose transaction fails leaves the Run cancelling until the
  next start.
- `Commands` (for `PendingSettles`): weak fairness of the page's own continuations
  and of the ten-second timer of `connect`. Nothing is assumed of socket or Host.
  A journal that fails leaves a command pending for ever: `submitComposer` has no
  `catch`, and the property excuses it.
- `HostLifecycle` (for `AcceptanceReturns`): weak fairness of the operation under
  way, because hooks return or throw and drains have a deadline. The property excuses
  an operation that never got to reject, a selector whose replacement is uncertain, a
  new release that accepts for itself, and a hook of a `catch` or `finally` clause
  that throws.

## Known divergences

Places where the code, as modelled, does not do what a document of the repository
says. Each has a configuration beside the runs that makes TLC print the behaviour;
they are not among the runs because they are meant to fail.

| Configuration | Property | Code | Document |
|---|---|---|---|
| `SessionOneLive` | `OneLiveRun` | `store.ts:1370`: `submitRun` does not count a cancelling Run as active | SPEC:178 "A Session executes at most one Run at a time" |
| `SessionQueued` | `QueuedHasPredecessor` | `store.ts:2483`: cancelling a held Run strands the follow-up queued behind it | SPEC:186 |
| `SessionRecovery` | `RecoveryHoldsQueue` | `store.ts:1854`: the queue is held only where recovery settled a Run | SPEC:235 "Proven-undispatched follow-ups remain accepted but held" |
| `SessionSleep` | `SleepOnlyQuiescent` | `store.ts:1210`: early answer for a Session already asleep | SPEC:219 |
| `SyncCurrent` | `CurrentIsTrue` | `host.ts:475`: a rename replaced in the queue overtakes a snapshot | SPEC:311 |
| `AuthorityCleanup` | `CleanupKeepsStartup` | `authority-generations.ts:286`: the predecessor of a kept generation is deleted, `resolve` then throws | `authority-generations.ts:230` |
| `AuthorityRollback` | `NoSilentRollback` | `authority-generations.ts:158`: the copy is sealed before its warning | SPEC:825 |
| `CommandRetry` | `RetryReturnsOutcome` | `host.ts:1335`: admission is checked before the receipt is looked up | SPEC:334 "Retrying an identical command returns the recorded outcome without re-execution" |
| `ClientCurrent` | `CurrentIsComplete` | `client-store.ts:677`: a change with an unknown base is dropped while the Session stays current | SPEC:291 |
| `ClientRead` | `NothingReadUnseen` | `client-store.ts:940`: a recovery that read another Session moves the catalog's revision past the Timeline the store holds | `client-store.ts:890` "Read status follows what the View rendered" |
| `NewSessionPrompt` | `PromptInItsSession` | `host-session-adapter.ts:163`: any `session.created` is taken for the answer | SPEC:451, SPEC:170 |
| `PiAdapterStop` | `StopHeard` | `pi-worker/src/index.ts:401`: the abort listener is added after two awaits | SPEC:210 |
| `DuplexSettled` | `SettledWithdraws` | `worker-protocol/src/index.ts:575`: `settle` leaves the Run's interactions open | SPEC:254 |
| `HostRollback` | `NoRollbackAfterAcceptance` | `release-update.ts:243`: whether mutations were accepted is asked before the rollback awaits | SPEC:695 |
| `HostUnasked` | `FailureRollsBack` | `release-update.ts:244`, `source-update.ts:75`: `hasAcceptedNewMutations` throws in the `catch` clause, which skips the rollback, and the `finally` clause resumes mutations | SPEC:695 "failed activation rolls back release pointer and data generation" |
| `CutoverBlobs` | `BlobsReadable` | `authority-generation.ts:309`: blobs are copied to a directory the store does not read | SPEC:568 |
| `RecoveryClosure` | `PointsAreClosed` | `recovery-snapshots.ts:147`: objects are listed before the database is backed up | SPEC:618 |
| `RestoreRace` | `RestoresStoppedHosts` | `whole-host-restore.ts:123`: the daemon and the point are looked at once, before the copies | SPEC:648 "materializes and migrates a new generation while stopped" |
| `RestoreFlush` | `PointerNamesAGeneration` | `whole-host-restore.ts:175`: a flush that throws after the pointer moved makes the `catch` clause remove the directory it names | SPEC:653 "may safely return to the prior generation" |
| `NewSessionShared` | `DirectoriesHaveOneProject` | `store.ts:2771`: a selected worktree may be the own directory of another Project, which `store.ts:711` refuses to a second Project | CONTEXT:16 "A concrete working copy or execution environment within one project" |
| `NewSessionCleaned` | `SelectedTreesStay` | `git-worktrees.ts:126`: a failed creation removes its worktree, which another Session may have selected | CONTEXT:141 "either may later be selected by another Session" |

Seen while modelling, with no configuration of their own: overlapping recoveries
may turn a command shown as accepted into rejected, because release, cancel and an
interaction's answer leave no receipt (`store.ts:2447`); a crash between the commit
of a "restored" decision and the move leaves a retained object in quarantine
(`store.ts:3042`); a lost process between `git worktree add` and the commit leaves a
worktree without a Session (`git-worktrees.ts:104`); a torn copy of a legacy blob
makes every later migration fail (`authority-generation.ts:330`); a lost process
before `SupportedReleaseFloor` leaves it unwritten for good
(`authority-generation.ts:188`); the lifecycle refuses every stop of a worker that
does not announce `runtime.cancel`, and the endpoint does not
(`worker-protocol/src/index.ts:571`); an answer that does not fit its request, such as
every dismissal of a confirmation, is refused with the request still pending, and the
Host's Interaction stays applying until its generation fails
(`pi-worker/src/index.ts:629`).

## Proofs

`SessionProofs` proves, for every value of `MaxRuns`, `MaxCrashes` and
`MaxFaults` in the naturals (`SessionRunsAssumption`):

- `TypeCorrect`: `Spec => []TypeOK`;
- `InvCorrect`: `Spec => []SessionInv`, the inductive invariant;
- `NeverReplayedCorrect`: `Spec => []NeverReplayed`;
- `ArchivedIsQuietCorrect`: `Spec => []ArchivedIsQuiet`;
- `StopInvCorrect`: `Spec => []StopInv`, a second inductive invariant beside it, and
  from it `EscalationCorrect` (`EscalationArmed`) and `StopReachesItsWorkerCorrect`
  (`StopReachesItsWorker`);
- `ContractCorrect`: `Spec => ContractSpec`, the refinement of `RunContract`.

`NeverReplayed` is not inductive: a pending `dispatch` callback could hand over a
Run that is no longer executing, and `dispatchNext` could choose one that has
begun. `SessionInv` adds what pending callbacks rely on (`CallbackInv`), that at
most one Run executes, that a Run known to a worker has begun, and that evidence
exists only for Runs that returned. The proof has one step per action; the same
case analysis yields `RunStep`, the moves a Run may make in one step, from which
the refinement follows. `EscalationArmed` and `StopReachesItsWorker` speak of the
moments between callbacks; `StopInv` says which callback may stand in for the timer,
or for the hand-over, while one is under way.

`ChangeLogProofs`, for any set of Sessions, any retention and any bounds
(`ChangeLogAssumption`):

- `LogTypeCorrect`: `LogSpec => []TypeOK`;
- `RevisionsAgreeCorrect`: `LogSpec => []RevisionsAgree`, which no run checks any
  more because it is proved;
- `ReadRevisionExactCorrect`: `LogSpec => ReadRevisionExact`;
- `ReplayCorrect`: `LogSpec => []ReplayIsComplete`, if `ClockMayStepBack = FALSE`;
- `FeedCorrect`: `LogSpec => ImplementsFeed`, if `ClockMayStepBack = FALSE`.

Every step of a Session is a `Transaction`, which commits a sound summary with at
most one row, or `Quiet`. `LogInv` says that positions lie within the Timeline,
that a logged read state is at most as new as the Session's and equal to it if as
new, and that rows have numbers of their own. Replay needs `RetentionInv` as
well: rows are in order of age and what is gone has lower numbers than what is
left. That is where the clock comes in: maintenance selects rows by wall-clock
time and `cursorBasis` looks at the oldest row that remains, so with a clock set
back across the retention period a hole may open behind an accepted cursor. With
`ClockMayStepBack = TRUE` TLC finds it; no document of the repository promises
otherwise, so it stands as the assumption of the two theorems and as a hazard.

`HostProofs`, for any set of releases and any bounds
(`LifecycleAssumption`): `LifecycleTypeCorrect`, `PublishedIsVerifiedCorrect`,
`OneSupervisionJobCorrect`, `SelectedTogetherCorrect`, and of two properties no run
checks, `QuietActivationCorrect` (data and pointer move only with mutations rejected,
and data is activated only over drained work) and `DurableKeptCorrect` (only a purge
removes durable data). `OneSupervisionJob` counts the supervisor's jobs and nothing
else: an activation starts its candidate through a hook, without one. None of them is inductive, because each speaks of a moment between steps. `OperationInv`
says which steps each operation may be at, and `OperateMoves` once what any step of
an operation may change; on these rest `StartupInv` (the one job is the attempt's),
`DataInv` (where data and pointer stand before, during and after an activation) and
`DrainedInv` (nothing runs once the drain is over). `StagingInv` stands alone.

Also in `HostProofs`, for any Sessions, queue limit and bounds
(`SynchronizationAssumption`): `SyncTypeCorrect`, `SyncInvCorrect` and
`CurrentReadCorrect`. `CurrentReadIsTrue` speaks of a Client that has received
everything; `SyncInv` has to say where a read state is until then. `FeedInv`: the row of
a Session's present read state is in the log if any row of the Session is. `ProtocolInv`:
at which moments a snapshot, a reset, a marker or a request may be under way.
`FollowedInv`: a Session sent whole, or a reset, is followed in the queue by what
happened to the read state since. `VouchedInv`: the read state of a Session the Client
vouches for is the Host's, on its way, or behind a claim that will tell. A replay is a
recursive function over the log: `ReplayUnfolds` gives a function that satisfies its
equation, and what it leaves in the queue is shown by the least row for which it could
fail (`LeastNumber`). The weak point is the replacement of a waiting rename: an older
row of a replay may take the place of a newer rename, so that a whole Session in the
queue has nothing newer behind it. `WholeFollowed` allows that only where the Client
holds the present read state already or gets it with another message.

`SessionProofs` again, for any Sessions, changes, calls and mishaps (`ViewAssumption`):
`ViewInvCorrect`, `ReadWasShownCorrect` and `AttentionCorrect`. The run has three
calls; here any number of loads, opens and recoveries overlap, write what they were
told in any order, and share one socket. `ReadWasShown` is about the Host's read mark,
four hops from the screen: `Marks` and `Covered` carry it back, over the request under
way, to the revision presented. What the listener takes is on top of what the store
holds, so one has to know that this was on the screen, whoever wrote it last. `Whole`
says so of the Session that is selected: once it is watched, the screen has had all
that the store holds of it and all that any call under way will write of it (`Alien`:
the load, and a recovery that read another Session); and while its open waits for the
draft, it was told no less than those calls. That in turn holds because the socket
is in order (`Ordered`: a catalog is no newer than the Session sent behind it, nor
than any sent later) and because no Session comes before the first catalog
(`Unloaded`). Opening a Session again breaks `Whole`, since the new open may have been
told less than a recovery has already written; hence the condition `OpenedOnce`. The
lemmas take the values of the variables as parameters, so that a step that answers
calls and then starts a recovery (`Catalog`, `SessionReset`) is followed in two parts.

`CommandsProofs`, for any commands, any number of overlapping recoveries and any
bounds (`CommandsAssumption`): `CommandsTypeCorrect`, `AtMostOnceCorrect`,
`AcceptedIsTrueCorrect`, `FirstRejectionIsTrueCorrect`, and `JournalledFirstCorrect`
for a property no run checks. The run has one command; here commands interfere. The
invariant has four parts. `SeenInv`: whatever a recovery or the Host can see of a
command, the journal holds as sent. `OnceInv`: a command that was done left a
receipt, or has lost its precondition. `TruthInv`: wherever "accepted" is written,
the command was done. `FirstInv`: while a command is pending it was sent once at
most and no recovery knows it, which is why its first rejection can be believed and
a replay's cannot.

`AuthorityProofs`, for any set of objects and any bounds
(`AuthorityGenerationsAssumption`): `AuthorityTypeCorrect`, `PredecessorKeptCorrect`,
`ClosureKeptCorrect`, `NewestLossRecoverableCorrect`, `NoSilentRegressionCorrect`, and
`EvidenceKeptCorrect` for a property no run checks. What a call found it uses several
effects later: `CallInv` says that it is still there, because cleanup runs only
between calls, and `NamesInv` that a minted generation is new, so that its envelope
overwrites no other. The last two properties are about chains of predecessors, which
`ChainInv` describes: an activation index names one generation and falls along
predecessors, and the predecessor is the next generation below unless the generation
is a copy of it (`TreeInv`); sealed envelopes only name what was sealed before
(`OrderInv`); a call under way works on the newest (`NewestInv`); and whatever is
newer than the generation a Host has open descends from it or shows a continuity no
opened one had (`LineInv`). `Ancestors` is a recursive function, whose equation
holds only if some function satisfies it: `AncestorsUnfold` gives one, `Line`, the
generations that every set closed under predecessors has to contain. That sealing
another generation leaves the ancestors of all older ones alone is then shown by the
least generation for which it could fail (`AncestorsKept`).

`StorageProofs`, for any releases, marks and bounds (`CutoverAssumption`):
`TypeCorrect`, `RowsSurvive` (`RowsKept`), `BlobsSurvive` (`BlobBytesKept`),
`DeletionIsProven` (`DeletionProven`), and `FrozenRowsStay` for `FrozenStays`, which
no run checks any more. The properties speak of the Host that is running; the
invariant has to say where the rows and bytes are while none is. `GenInv` gives the
only three lineages there are, `ToolInv` what the offline tool has found by each
step, `HostInv` which database a Host can have open beside it. `RowsInv` then says
that the newest copy has every accepted row, and that the legacy rows are in the main
file of every sealed generation, which is what the deletion needs; `BlobsInv` that
every row's blob is an object or in some `blobs` directory. `GenStep`, `LegacyStep`
and `WrittenStep` say once what a step may do to a generation, to the legacy database
and to the number of writes.

`WorkerProofs`, for any number of Runs (`RunsAssumption`): `AdapterTypeCorrect`,
`AbortHitsItsRunCorrect`, `AsksUnderItsOwnRunCorrect` and `RefusedCorrect`. One lemma
per action says what it does to each run and child; the invariant is then argued
without the actions. `OrderInv` says that a Run is dispatched only when none before
it executes, and that probes are answered in order: so a run that still waits for its
probe cannot take the UI context of a later one. `ChildInv` says that nobody finds a
child before its run has made it, `UserInv` that a child's user executes on it.

Also in `WorkerProofs`, for any number of Runs, Interactions and mishaps
(`DuplexAssumption`): `DuplexTypeCorrect`, `LifecycleAcceptsCorrect`,
`OutcomesAreProvenCorrect` and `RespondedWasConsumedCorrect`. The properties relate
the two ends, so `DuplexInv` says where a thing is while it is on its way. `RunInv`:
the Run the Host waits for is in one place, an `execute` frame, the endpoint, or the
frame that ends it. `ReadyInv` and `AskInv` say the same of the generation's readiness
and of each Interaction. `CheckpointInv`: an outcome under way has its manifest, a
stop its request. What one stream may hold is an order on its frames (`Follows`,
`Succeeds`): nothing about a Run comes after its end, no Interaction is requested or
acknowledged twice. Appending, taking and losing the end of a sorted stream keep it
sorted, whatever the order (`AppendToStream`, `TailOfStream`, `PrefixOfStream`). The
steps of which neither side hears (`Quiet`: half of the actions) are one lemma.

Also in `StorageProofs`, for any objects, points, generations and bounds
(`RecoveryAssumption`): `RecoveryInvCorrect`, `ReferencedBytesKeptCorrect`,
`PointsKeepTheirObjectsCorrect` and `RestoresWhatItVerifiedCorrect`. The invariant is
`RecoveryInv`: beside the types and the first two properties it says what the block
under way relies on (`BlockInv`: what maintenance has still to take is referred to by
nobody, a point about to be published has its objects), what a restore under way has
still to copy or copied (`RestoreInv`: what of it is rotten rotted since its look), and
that restores are numbered in order, so that the directory a restore completes is the
one it made. Nothing is assumed of what runs beside the restore.

`NewSessionProofs`, for any directories, any creations of this page and of other
Clients, and any bounds (`CreationsAssumption`): `NewSessionInvCorrect`,
`TreeIffSessionCorrect`, `WorktreesAreNotSharedCorrect` and `OffersItsProjectCorrect`. The
run has one creation of each Client and two directories; here any number of handlers
wait for git at once. Three parts of `NewSessionInv` carry the proof. `SeenInv`: a
managed worktree that is on disk, in a list a handler holds, or in a row, was added
before, so nobody can choose one that is still to be made, and a creation that fails
before it adds has nothing to remove. `CommandInv`: where a handler is after an await
says what its command asked for, hence that only the handler of a new worktree cleans
up. `RowsInv` and `ScopeInv`: rows with one path are one row, and the row of a
Session's worktree is of its Project, and a row of a Project's own directory has no other;
`Conflict` and `InScope` keep this because they
are decided in the transaction, and not when the command came. On the page, `FormInv`
adds that a list of worktrees does not contain the Project's own directory. `Turn`
says once what any turn of a handler may change, `HostStays` that the page's own
steps leave the Host alone.

Every safety property that a run checks is proved. Only model-checked are `StopEnds`,
`PendingSettles` and `AcceptanceReturns`, because the prover has no rule for liveness
under fairness, and `ViewTypeOK`, which no run checks: of its bounds `ViewInv` has the
types and those the other properties need. What a fold over messages of unbounded
length computes would need an induction scheme, which the provers cannot instantiate;
where an induction over concrete numbers was enough, the least counterexample served
instead (`LeastNumber`, `FirstNumber`).

## Not modelled

Portable backups (copying and encryption of trees), the monitors of coverage,
storage and capacity (one observation each; what they refuse is a choice in
`Commands`), schemas and parsing, the launch manifest, rendering, IndexedDB,
Windows bindings, diagnostics, the command line and the wiring of the daemon. They
are listed with reasons under `components` in `PROJECT.json`.

## Plan

Next, in proofs: the bounds of `ViewTypeOK`. In models: residency in `ClientView`; a
storage fault between commit and publication in `Synchronization`.
