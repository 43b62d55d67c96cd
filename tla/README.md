# Verification of the Yorva node daemon

Yorva is a desktop product around a local daemon (`services/node`) that installs
the Hermes runtime, keeps its instances, channels, models, skills and backups,
and survives being killed at any moment. This directory holds TLA+ models of the
daemon and of the parts of the Desktop that keep durable state, TLC
configurations that check them on small instances, and TLAPS proofs.
Paths below are relative to `src/services/node/internal/` unless they start with
`src/`.

## 1. Inventory

| Component | State it keeps | Operations | Interacts with | What is hard | What makes it correct |
|---|---|---|---|---|---|
| Install transaction (`install/`) | `control/transactions/*.json`, `generations/`, `staging/`, `failed/`, `control/active.json`, `install.lock` | create, seal, publish, activate, fail | install use case, recovery, GC | crash between any two durable writes, write that landed but reported an error | active.json names a whole, committed-or-activating generation; one transaction in flight; terminal records are final |
| Recovery (`install/recover*.go`, `recovery_*.go`, `observe.go`) | the gate | observe, decide, execute, until settled or 8 turns | runs before requests are served | crash in recovery, unknown disks | ends, opens the gate only when all is resolved, deletes nothing unproven |
| Environment (`install/environment*.go`) | HERMES_HOME and PATH in the registry | plan, write, write, read back | activation, recovery | two writes, edits by others | PATH never names a deleted generation |
| GC (`install/gc.go`) | none of its own | retention set, delete | after COMMITTED | interrupted deletion, wrong set | spares the active generation, its predecessor and foreign trees |
| Install use case (`app/runtime_install*.go`, `runtime/hermes/apply_generation.go`, `host_installer.go`) | Operation rows, worker map, `currentOp` | Start, Get, Cancel, execute, InterruptStale | transaction, operation store | request races, cancel and deadline, projection of files onto rows | a row says what happened; nothing works invisibly |
| Operation store (`persistence/sqlite/operations.go`, `installations.go`) | table `operations` | create with unique indexes, update by compare of status, complete | every use case | compare covers the status only | one active mutation, valid status changes |
| Daemon (`daemon/daemon.go`) | — | startup order, shutdown, parent control | all | crash and restart | files recovered first, rows after, then requests |
| Event broker (`events/`, `transport/httpapi`) | subscriber queues | publish, subscribe, drop when full | all use cases, the Desktop's client | full queues, publishers out of order, greeting before the subscription | the Desktop ends up showing the row as it is |
| Operations on instances (`app/lifecycle.go`, `instance_inventory.go` and the admission, worker, cancel and recovery of every other use case) | rows, `operationMu`, installation and instance locks, `started`, `workers` | start, stop, restart, create, delete, apply, back up, restore, upgrade, cancel, recover | operation store, Hermes CLI | each kind is admitted and cancelled in its own way | two workers never share an instance, a cancelled row changes nothing, no row is left without a worker |
| Inventory (`app/instance_inventory.go`) | instance rows | list, clear, reconcile | Hermes profiles | row and profile differ after a failure or during a restore | a record is forgotten only with its profile |
| Channels (`app/channels.go`, `channel_qr.go`) | `.env`, account files, binding rows, QR payloads | connect, disconnect, cancel, list | the instance's lock | listing without the lock, three writes | CONNECTED names the account that is there |
| Models (`app/shared_models.go`, `models.go`, `model_validation.go`) | connections, profiles, bindings; provider and model scalars; validations | create, apply, configure, validate, cancel | secret store, credential file | probe without the lock, several writes | a binding and a PASSED are of what is configured |
| Credential file (`runtime/hermes/model_credential.go` and its other writers) | `.env` of a profile | compare, stage, compare, rename, read back | models, channels, MCP | a writer between comparison and rename | what was reported saved is there |
| Skills (`app/management_skills.go`, `managedskills/`) | rows, store, projections, staged sources | install, import, update, enable, disable, remove | projector, Desktop | three stores, a source removed under its reader | the row owns its directory; the store is immutable |
| MCP (`app/management_mcp.go`, `runtime/hermes/profile_mcp_manager.go`) | `config.yaml`, `.env`, readiness, rows | install, authenticate, configure, test, remove | profile | cancelled worker beside its successor | entry, credential, readiness and row agree |
| Backup (`app/management_backup.go`, `runtime/hermes/backup*`) | key, artifact, index row, snapshot | create, delete | secret store | three stores; a live directory | an indexed backup can be restored and is one moment |
| Restore (`runtime/hermes/backup_manager.go`) | Hermes directory, transaction directory, phase file | restore, roll back, recover | startup | two renames and a phase file | the last good tree is never lost |
| Upgrade (`app/management_upgrade.go`, `upgrademanagement/`) | none of its own | plan, assess rollback, accept | install | two policies over the same evidence | what is offered can be undone |
| Migrations (`persistence/sqlite/sqlite.go`, `migration_protection.go`) | database, protection copies, state file | protect, migrate, verify, restore | startup | crash at every step | the schema served is the program's, no write is lost |
| Supervisor (`src/apps/desktop/src-tauri/src/daemon.rs`) | status, child handle | start, ready, deadline, restart, stop | daemon | tasks of an earlier child | one daemon, and it is the one shown |
| Update (`updater.rs`) | record, package, installer result | check, download, install, reconcile | supervisor, installer | the installer outlives the program | SUCCEEDED means installed |
| Prerequisites (`app/hermes_prerequisites.go`, `runtime/hermes/node_*.go`) | rows, node.exe, npm, node_modules and its stamp | install, cancel, inspect, interrupt | operation store, Hermes tree | written in place, judged by probes and a digest | what is shown ready is what was put there |
| Product data (`product_data.rs`) | legacy, staging and stable directory | copy, publish, refuse | supervisor | crash, the old application running | the daemon serves a whole copy or nothing |

HTTP handlers, diagnostics, logging, discovery of candidates, downloads and
archive handling keep no protocol state; `PROJECT.json` lists every component
with its status, and under "hazards" what is hard to test, each at its line.

## 2. Modules

| Module | Models |
|---|---|
| `RecoveryDecide` | `DecideRecovery` and its helpers, `rankState`, `forwardOrNoop` as pure operators |
| `InstallTransaction` | records, directories, pointer, environment, gate and `install.lock`; requests, workers, recovery, GC, crashes, faults |
| `ActivePointer` | abstract specification: one current generation, replaced in one step, by one that was never current, after the previous change is complete |
| `RuntimeInstall` | composes `InstallTransaction` with Operation rows, worker goroutines, Get, Cancel, completion and startup repair |
| `OperationTable` | the `operations` table for every kind of operation: insert under the unique indexes and triggers, update by compare of status |
| `InstanceInventory` | instance rows, profiles, gateways; start, stop, restart, create, delete, with `operationMu` and the installation's lock (extends `OperationTable`) |
| `InstanceOperations` | composes the two with the channel, Skill, MCP, model, backup, restore and upgrade operations, cancellation, crash and the recovery passes of a start |
| `RestoreTransaction` | `RestoreBackup`, its phase file, rollback, `RecoverInterruptedRestores` |
| `MigrationProtection` | `sqlite.Open`: protection copy, state file, migration, verification, recovery |
| `BackupStore`, `BackupSnapshot`, `BackupArtifact` | key, artifact and index of backups; the copy of a live directory; the reading of a backup: header, container, members, limits |
| `ChannelConnection` | Weixin: QR code, assignments, account file, binding, listing |
| `DaemonSupervisor`, `DesktopUpdate`, `ProductData` | the Desktop: the child it keeps, its own update, the move of its data |
| `ManagedSkills`, `SkillStore` | store, row and projection of a Skill; staging and import into the store |
| `McpBindings` | an MCP server over `config.yaml`, `.env`, readiness and row |
| `SharedModels`, `ModelValidation`, `CredentialFile` | shared model profiles and their application; the model of an instance and its probe; the `.env` and its three writers |
| `NodePrerequisites` | the prerequisites operation; Node, npm and dependencies on the disk; their inspection |
| `UpgradePlan` | `BuildUpgradePlan`, `AssessRollback`, the adapter's planner and the application's acceptance, over bounded evidence |
| `EventDelivery` | commit, publish, broker, event stream, and the Desktop's client |
| `MCInstallTransaction`, `MCRuntimeInstall`, `MCInstanceOperations`, `MCDataSafety`, `MCManagedResources` | modules the configurations run |
| `InstallSafetyProofs`, `RuntimeInstallProofs`, `EventDeliveryProofs`, `NodePrerequisitesProofs`, `InstanceOperationsProofs`, `DataSafetyProofs`, `DesktopProofs`, `ManagedResourcesProofs` | theorems, each module about the ones it extends |

### State and code

`txn[t]` is the record of transaction `t`: its state, whether the digests are
recorded, and the predecessor stored when ACTIVATING is saved. `disk[place][t]`
is what `generations/`, `staging/` or `failed/` hold for it, told apart exactly
as far as `observeTree` and the verifiers do (absent, empty, unproven, candidate,
sealed, remnant of an interrupted delete, ...). `job` is the holder of
`install.lock` and its position in the code; `pend` are the requests and workers
that do not hold it; `identity` is `HostInstaller.currentOp`, one field for all
workers. In `RuntimeInstall`, operation `t` is the row whose TransactionID is
`t`, `op[t]` its status and `exec[t]` the position of its goroutine.

An action is one durable write or one step that others can observe. `SealLoad`
… `WriteActive` follow `SealNew` and `PublishAndActivate`; `ReconcileHome`,
`ReconcilePath`, `ReconcileReadback` are the writes of `reconcileOnce`;
`CollectTree` and `InterruptCollect` delete a tree, or part of it;
`RecoverTree`, `RecoverRecord`, `RecoverPersist`, `RecoverSettle`,
`RecoverBlock` are one turn of `RecoverWith`; `IOFault` makes the current
durable step of the lock's holder fail; `Crash` drops every goroutine and the
lock and starts recovery.
`Create`, `CreateOperation`, `ExecRun`, `ApplyStep`, `ExecError`,
`ExecPostcheck`, `ExecComplete`, `Get`, `CancelWorker`, `CancelRow`, `Deadline`,
`InterruptStale` and `Startup` are the steps of the use case. The map in
`PROJECT.json` gives the lines.

In the other modules, likewise, a worker is a program counter (`pc[o]`, `rAt`,
`step`, `importer.at`, ...) with one value per point where the code may be
interrupted, stopped or overtaken: between two durable writes, before and after
a lock, where a context is looked at. A file, row or directory is a variable
with as many values as the code, reading it back, tells apart (`disk.kind` in
`ManagedSkills` is what `inspectProjection` can find; `txn[t].phase` in
`RestoreTransaction` has "torn", because the file is truncated before it is
written). A variable marked *ghost* is history the code does not keep: it says
which exception a property allows, never what an action may do.

Which modules interact. `InstanceOperations` holds everything that excludes
operations from one another: rows, indexes, locks, cancellations, recovery. What
a worker does inside its turn is the business of `RestoreTransaction`,
`BackupStore`, `ManagedSkills`, `McpBindings`, `SharedModels` and
`ChannelConnection`, each of which models the worker's own steps and, from
`InstanceOperations`, only what may be beside it: a second worker when Cancel
does not wait (backups, MCP, shared models), none when it does (Skills,
channels). `CredentialFile` is where models, channels and MCP meet.
`DaemonSupervisor`, `DesktopUpdate` and `ProductData` see the daemon as a process
that is started and told to go.

`MCDataSafety` and `MCManagedResources` check ten and eight modules. These share no
state in the models, so a product of them would show nothing more: `part` is
chosen in the initial state and only that part takes steps, the others staying
in one of their initial states.

### Abstractions

- Revisions of a record are left out: every writer holds the lock and reads
  before it writes, so the comparison only fails on a caller's error. A save
  that lands and still reports an error is the save followed by a fault.
- Transaction ids grow with time, so "latest" is the largest id; the ActivatedAt
  stamp is left out.
- The verdict of discovery is whether the active generation verifies. Damage
  from outside strikes only a committed, active generation.
- The legacy staging tree `publish` can still move cannot exist for a fresh id;
  the run on found disks has such trees for recovery.
- `FailFailableNonterminals` writes several records; it is one step, and the
  disks a crash inside it leaves are among the found ones.
- Get and Cancel read and then update by compare of the status; since a
  terminal record never changes, one step has the same outcomes.
- A read of `currentOp` that races a write returns the old or the new value.
- Stages, messages, the 50-row limit of the stale query and database errors
  other than a refused insert are left out.
- Contents are numbers: a tree, a file, a version, a credential. They are new
  whenever the code writes new contents and equal when it would find them equal.
  Digest, size and metadata comparisons are modelled by what they tell apart
  (`BackupSnapshot` keeps bytes and metadata of a file apart for that reason).
- `InstanceOperations` has one installation, and detecting it succeeds; a failed
  detection is a request that is refused.
- An external program (Hermes CLI, msiexec, an MCP server, a model provider) is
  a choice among its outcomes.
- Symlinks, permissions, path checks and limits of size are refusals before the
  first write and are left out.

## 3. Runs

| Run | Bounds | Shows |
|---|---|---|
| `install_crash_safety` | 3 transactions, 2 requests at once, 1 cancel, 2 crashes, 1 fault, 1 drift (0.8 million states) | the safety properties below, and `ActivePointer` is implemented |
| `recovery_of_any_disk` | any records, generation trees, pointer and environment of two transactions, of which only the later may be nonterminal past CREATED and have a staging tree; 1 crash | recovery ends within its limit, deletes only what is proven, opens the gate only when resolved |
| `install_progress` | 2 transactions, weak fairness | `LockReleased`, `GateDecides` |
| `runtime_operations` | 2 transactions, 2 requests, 2 cancels, 2 crashes, 1 fault, 1 damage | rows tell the truth about transactions; the gate stays sound when the active tree is damaged |
| `instance_operations` | 2 keys (any two of twelve kinds of operation, from every family, on two instances, their workers, their cancels), 1 crash (1.7 million states) | operations on instances keep apart, tell the truth and end |
| `data_crash_safety` | one part at a time: 2 restore transactions over 3 trees, 2 faults, 2 stops; 3 schema versions, 2 I/O faults, 2 kills; 2 backup jobs at 2 destinations, 1 failure, 1 exit; 3 files and 3 changes under a snapshot; 3 children of the supervisor, 1 mishap; 2 releases, 1 attempt to update, 1 mishap; 2 accounts, 2 channel operations, 1 mishap; 2 data files, 2 faults; 2 prerequisites operations, 1 fault, 1 stop, 2 lock files; archives of up to 2 members that are short, long, misplaced or collide, with sizes at the limits of the word (2.2 million states) | what is on disk after crashes and failures is what the code promises |
| `managed_resources` | one part at a time: 2 releases, 2 installs, 2 faults, 1 edit of a Skill; 2 selections, 1 fault of the store; 2 MCP requests at once, 2 mishaps; 2 instances, 2 profiles, 2 applications, 1 mishap; 2 validations with 1 page and 1 hand; 2 saves, 1 edit, 1 fault of a `.env`; evidence up to 3 deviations from the ideal; a queue of 2, 2 operations, 2 other events, 1 break (2.0 million states) | stores that no transaction joins agree, and the Desktop learns it |
| `published_over_predecessor`, `success_without_row`, `cancelled_reported_failed`, `cancel_leaves_pending`, `shared_identity` | 1 or 2 transactions | the disagreements of section 5 |

Three transactions are the smallest number with an active generation, its
predecessor and one in flight; two crashes let one strike the recovery from the
other; two requests overlap in every order. A fault, a drift or the damage can
fall at every point; damage is left to the runs on found disks, which may hold
damaged trees, and to `runtime_operations`. Deadlock is not checked: once the bounds are used
up the daemon idles.

In `instance_operations` two keys are every pair of those kinds on the same or on
different instances; what a third could do needs a second one to be out of the
way first, which its end or its cancellation makes it. In the other two, one mishap more than a
rollback has steps to undo adds no kind of state: a fault and a stop each may
fall on the recovery from the first. The bounds of the modules' `CONSTANTS` say
what each counts.

Properties of `InstallTransaction`: `ActiveIsUsable`, `AtMostOneNonterminal`,
`PathNamesExisting`, `PredecessorRetained`, `BlockedOnlyInWindow` (the only two
crash windows that recovery refuses), `StepsWithinLimit` (8 turns suffice unless the registry is edited three times
while recovery runs; with a third edit TLC shows the limit reached),
`RecordsAreFinal`, `DeletesOnlyProven`, `ReadyMeansResolved`,
`ImplementsActivePointer`. Of `RuntimeInstall`: `ReportedSuccessIsReal`,
`WorkIsVisible`, `RestartRepairsRows`, `RestartClearsStale` (and
`ReadyMeansResolved` again, over a damaged tree).

Each of the other modules has one or a few properties, and each names, as an
exception, the windows in which the code does not keep the promise. They are worth
a reviewer's eye:

| Property | Promise | Windows |
|---|---|---|
| `OperationsApart` | two workers never work on the same instance | a Cancel that does not wait (MCP, backup, shared models) leaves its worker beside the next; a delete beside a Skill or MCP operation; a create of a name the inventory shows UNKNOWN |
| `ActsWhenAllowed` | only stopped instances are deleted; a worker whose row is CANCELLED changes nothing more | for the first: `StartDelete` read the state before it asked for active operations |
| `RecordKept`, `SuccessIsReal` | a record goes with its profile; SUCCEEDED of a create or delete is true | a restore that does not hold the installation lock had the data directory aside as the profiles were listed, or put data in place between the list and what is made of it |
| `NoOrphanWhileServing` | every open row has a worker or a Cancel | the client of a Cancel went away between the signal and the update |
| `TreeKept` | a restore never loses the tree last worked in or verified | recovery undoes a restore that had verified, or had answered RECOVERY_REQUIRED, when the previous tree is still there |
| `RestoreTrue` | the answer is what is on the disk; a crash leaves something to start from | torn or absent phase file, a crash inside a rollback; a crash in the removal of the previous tree makes the half-deleted one the data directory |
| `MigrationTrue` | the database served has the program's schema and every write; the state file tells the truth | a `-journal` left beside a restored copy |
| `BackupsAgree` | key, artifact and index agree | a call cut between two of them |
| `SnapshotConsistent` | a verified snapshot is one moment of the source | a write that shows in no metadata |
| `ArtifactTrue` | a backup that is read again is accepted, extracted or refused for what it is | a failed read, or a cancelled restore, answers that the ciphertext does not decrypt |
| `SupervisorTrue` | one daemon, the one shown, always watched | an event or deadline of an earlier child meets a later start |
| `UpdateTrue` | an offer is newer, staged, and SUCCEEDED is installed | a queued second command, an offer kept by a failed check, the ten minutes, an unwritten record |
| `ChannelsTrue` | binding, files, operation and QR code agree | a listing between read and write, a replaced account, a failed step |
| `ProductDataKept` | the daemon serves a whole copy of the old data or is refused with cause | a power cut, a write of the old program into the file being copied; the Desktop's own files after a failed first start |
| `PrerequisitesTrue` | what an inspection shows READY is what was put there; operations keep apart and are seen; a success leaves all ready | an npm placed or deleted half way under the package.json of the official one; a lock replaced while npm ci ran; a stamp that cannot be removed; an unwritten row, a Cancel before RUNNING |
| `SkillsAgree` | a directory is owned by its row; ENABLED is of the row's release | a restored profile, an ignored error, an update cut in half; a directory somebody else put in the place of the projection |
| `SkillStoreTrue` | contents under a digest are whole and stay | a source removed under its worker; a power cut |
| `McpAgrees` | entry, credential, readiness and row agree | hands, restarts, a second worker; the cleanup of a second install removes the first one's entry; a credential whose write was reported as failed though the file was replaced, READY on its predecessor's account until that is next observed or dropped |
| `ModelsAgree` | a binding tells how its application ended | cut before it was claimed, an unwritten outcome, a restart (PENDING for good); a cancelled worker still at it while the next application binds, sets or records the same instance |
| `ValidationTrue` | PASSED is of the provider and model shown | the credential is not in the fingerprint |
| `EnvTrue` | what was reported saved is in the file | a writer overtaken between its second look and its rename |
| `PlansTrue` | an offered upgrade can be undone; BLOCKED and UNKNOWN are told apart; the adapter's answer is accepted | none |
| `EventsTrue` | once nothing is on its way the Desktop shows the row | a full queue, the gap between greeting and subscription, a failed request, an event between the answer to a list's first request and its arrival (react-query keeps the running request of a query without data) |


Fairness: `FairSpec` has weak fairness of the daemon's own steps (worker,
recovery, collection): a goroutine that can run is eventually scheduled, and
none of them waits for a lock it does not hold (`install.lock` is tried, never
waited for). Requests, cancellations, crashes, faults and edits from outside are
not fair.

## 4. Proofs

Every safety invariant and action property of the passing runs is proved for
every value of the constants. TLC says
cheaply what holds in a small instance; a proof also says why, by the invariant it
needs, and twice it showed that an instance had been too small (see the end of
*Managed resources*).

### Install transaction (`InstallSafetyProofs`)

`TypeCorrect`: `Spec => []TypeOK` from any initial disk, one lemma per action.

*From an empty disk* (`World = "fresh"`). The safety properties are not inductive:
why may a worker write active.json? Because its position says which record, tree
and pointer it left behind. `IInv` says so:

- `RecordOK`: each state of a record goes with the trees that may exist;
- `PendingOK`: an operation that is created or running has its transaction;
- `IdentityOK`: the transaction the shared `currentOp` names is one a worker may
  load;
- `DecisionSound`: each decision of `DecideRecovery` on a disk that satisfies
  the first part names a step that keeps it.

Every action's effect is first brought into one of two shapes (`RecordStep`: one
record moves along the state machine; `DiskStep`: one tree changes in a way its
record allows), and the invariant is proved once per shape. `ActiveIsUsable`,
`AtMostOneNonterminal`, `RecordsAreFinal` and the refinement of `ActivePointer`
follow.

`LInv` adds the lineage, which is what a rollback and PATH rely on: what is in
flight is newest and no committed transaction is newer than the active one
(`OrderOK`); the active one stores the newest committed one before it, and while
active.json is valid that tree is there (`PredecessorOK`); PATH names the active
generation or, until that is committed, its predecessor (`PathOK`); and only a
committed generation is ever damaged (`DamageOK`).
`PathNamesExisting` and `PredecessorRetained` follow.

*From any disk a restart can find.* `AnyInv` does not say that a record agrees
with its tree, since it may not, but what the code has established about a tree
it is about to act on: who acts (`WhoOK`), what a builder and a collector have
checked (`BuildsOK`, `SparesOK`), what recovery has found resolved so far
(`ResolvedOK`), that a reconciling recovery has nothing else in flight
(`LoneOK`), and that a `failed/` tree whose record is still in flight is left to
recovery (`MovedOK`). It gives `ReadyMeansResolved` and `DeletesOnlyProven`.

`StepsWithinLimit` follows from a measure, `NeedsAtMost`: an upper bound on the
turns a disk still needs, by the state of its record in flight and what is
left to reconcile. Every turn that executes takes one off, and only an edit of
the registry adds one (`TurnsOK`); five turns are enough for any disk, so 8 suffice
with up to two edits. The bound is sharp: with three TLC finds the limit reached.

`BlockedOnlyInWindow`, from an empty disk, brings these together (`BlockInv`). A
recovery closes the gate in one of four ways, and three of them do not occur:

- its turns run out: not with up to two edits of the registry, by the measure (on
  one transaction TLC finds the property to hold with three edits too, and
  violated with four);
- a decision is not `ForwardOrNoop` to the one before: `PastOK` says that what a
  turn executed has left no record to decide it on again;
- an executed step returns an error: with working storage only a reconciliation
  does, which leaves the gate RECONCILING;
- decideOne refuses: `TreesOK`, which says what each state of a record promises
  of its tree and predecessor, leaves it the two windows (`BlocksInWindow`).

Nothing moves behind the closed gate, so the window stays to be seen
(`RefusedOK`). A request closes the gate too, when active.json does not
verify, and that never heals (`InvalidStays`), which is why the property is about an
active.json that does.

### Use case (`RuntimeInstallProofs`)

`RTSpec => Spec`, so the theorems above hold of the composition. An invariant
over rows and goroutines (`RTInv`: a worker that holds the lock has an applying
goroutine, what it applies is shown, success was earned) gives
`SuccessIsNeverClaimedEarly` and `WorkIsAlwaysVisible`; `StartupClearsStale` and
`StartupRepairsRows` follow from the startup step for any initial disk.
`RuntimeTypeCorrect` adds the types of the use case (`RTTypeOK`).

### Operations on instances (`InstanceOperationsProofs`)

`OpsInv` relates each row to where its request, its worker and its Cancel are in
the code (`KeyOK`). `MuOK`, `SeenOK`: `operationMu` is held from the look at the
active rows to the insertion, so what was seen stays true; `LockOK`: a channel
worker holds its instance's lock; `CancelOK`, `OrphanOK`: which rows a Cancel
under way still owes an outcome; `StoppedOK`: an instance a delete read as
stopped, with nothing else active, stays stopped; `RowsApart`: what the unique
indexes and triggers keep apart; `BootOK`: nothing works between a crash and the
end of the recovery passes. Two properties are about lists: the profiles are listed
in one step and acted on in a later one, and a restore takes no lock of the
inventory. `ViewInv` says that the installation lock has one holder, and that its
list shows the profiles as they still are unless a restore was or has been at work.
The five properties of the run follow, for any number of
requests, instances and crashes.

### Data (`DataSafetyProofs`)

| Invariant | Its argument |
|---|---|
| `RestoreInv` | what the directories and the phase file say at each position of a restore that is up, has answered, or lies there after a crash; a half-removed tree has the crash that made it to blame (`HalfBlamed`) |
| `MigrationInv` | a protection copy is sound and of the version it names, a hot journal is that of the database beside it (both unless one was played into another), and undoing the run that the state file calls RUNNING loses no write |
| `BackupInv` | the key a job has taken is the device key; which artifact and row are the job's at each of its positions |
| `SnapshotInv` | metadata tells contents apart until a quiet write; when the names are verified the source is the inventory, but for files whose verification will fail |
| `ArtifactInv` | members read so far, their sum below the limits (so no addition wraps), header and extraction, and why a ciphertext was said not to decrypt |
| `ProductInv` | the stable directory is absent, or whole but for a power cut or a write that fell into the copy of a file; what the file being copied has held so far; each start keeps what was written since |
| `ChannelsInv` | one active operation, what its worker has written so far, and how fresh a listing's reading is |

### Desktop (`DesktopProofs`)

`UpdateInv`: versions only grow, and gate, session, installer and pending record
agree on the attempt they are about. `SupervisorInv`: an end that
is reported has happened (`ChildrenTrue`); a start is alone with its child unless an
earlier child's event crossed it (`StartsApart`); what was spawned or will be is at
most two for each deliberate start (`StartsBudget`).

### Prerequisites (`NodePrerequisitesProofs`)

Why is a stamp that is whole one of the modules beside it? `AtOK` says what a worker
at each of its positions has found or left on the disk (before `npm ci` no
stamp, or one that could not be removed; at its end the modules of this lock,
unless the lock was replaced), and `RowsOK` that only the newest operation can have
a worker at such a position, with a row that is RUNNING. A step that applies is
proved once (`ApplyKeeps`) from what the disk says after it; a step that only writes
rows once too (`RowStepKeeps`).

### Managed resources (`ManagedResourcesProofs`)

| Invariant | Its argument |
|---|---|
| `ValidationInv` | one validation at most is current; from the comparison under the lock on, the probe was of the provider and model its row was started for |
| `StoreInv` | references name whole contents; what an importer at each position has seen |
| `SkillsInv` | what the worker knows of the directory, and that it is the row's |
| `McpInv` | one worker unless a second was let in; what it knows of the four places; they agree once it is done |
| `PlanInv` | the decision is that of the evidence, for all evidence |
| `ModelsInv` | a profile has its connection and secret; a binding tells of its application unless another worker is beside it |
| `EnvInv` | the copy being written is the file as seen with the writer's lines set; until somebody overtakes it the file is still that one |

Two of the ghosts that name an exception had to become sets. A single flag for
"an update was cut in half" (`ManagedSkills`) or "another worker is beside it"
(`SharedModels`) is cleared by the next one, and the property was false with a
third operation, which the runs do not have: the failed proof attempts showed it.

### Events (`EventDeliveryProofs`)

`EventInv` says that client and handler agree on the connection, that nothing is
queued without a subscription and never more than `Buffer` events, and where the
latest status is: shown, in the answer, asked for, announced by an event in the
queue or on the wire, or about to be announced by a publisher (`Informed`). A step
that breaks the chain without setting `missed` would be a lost notification nobody
notices. A list that is not enabled needs no notice: its first request is still to
come. An event during that request changes nothing, so `missed` must be set when
the request is already answered.

### Assumptions

Bounds are naturals, positive where at least one thing must exist:
`BoundsAssumption`, `EventBounds`, `PrereqBounds`, `SupervisorBounds`,
`UpdateBounds`, `ChannelBounds`, `EnvBounds`, `ModelBounds`, `McpBounds`,
`SkillBounds`, `SkillStoreBounds`, `ValidationBounds`, `ProductDataBounds`,
`RestoreBounds`, `MigrationBounds`, `DeviationsBound`. The others keep a
marker apart from the values it marks, or give a constant its shape: `BackupBounds`
(`NoPath` is no path, 0 no job), `SnapshotBounds` (what is excluded are files),
`ArtifactLimits`, `TableAssumption` ("none" is no instance), `InventoryAssumption`
(the default instance is one, "free" is no key). TLC evaluates all of them.

### Only model-checked

- `LockReleased` and `GateDecides`: liveness, out of the prover's reach.
- The safety invariants of the transaction on found disks, but for the types,
  `ReadyMeansResolved`, `DeletesOnlyProven` and `StepsWithinLimit`: what they
  say of a disk is not true of any disk, and the run states which disks it starts from.

## 5. Where the code and its documents disagree

Each is a run whose expected result is a violation; `PROJECT.json` quotes the
document.

1. `published_over_predecessor`: PUBLISHED is saved without the predecessor, so a
   crash before ACTIVATING blocks every later start when a generation is active.
2. `success_without_row`: a Get between COMMITTED and the completion marks the
   operation SUCCEEDED, and the installation row is never stored.
3. `cancelled_reported_failed`: a cancellation during the build ends as FAILED.
4. `cancel_leaves_pending`: a cancellation just before RUNNING leaves the row
   PENDING, without a worker. It refuses new installations until it is cancelled a
   second time, which finds no worker and writes CANCELLED, or the daemon restarts.
5. `shared_identity`: with two overlapping requests a worker whose operation is
   already FAILED builds the transaction of the other.

Two more are prose only. `docs/PRODUCT_SUPPORT.md:43-50` speaks of a verified
protection copy and of a validated database; `product_data.rs:259` compares the
sizes of the copied files. In `ProductData` a torn copy is therefore served after a power
cut, or when the old program writes into a file while that file is copied and its size
stays the same: the two exceptions of `ProductDataKept`. And
`docs/adr/ADR-0018-yorva-managed-skills-lifecycle.md:83-86` lets the inventory distinguish
external Skills from managed ones; when a directory of the user takes the place of a
projection, `management_skills.go:149-170` lists it as managed, ENABLED, with the release
of the row, and only its projection is UNKNOWN: the last exception of `SkillsAgree`.

## 6. Not modelled

- Node recovery and health, logging, diagnostics: reports over state that other
  components own.
- The HTTP handlers other than the event stream: one call of a use case each.
- Encryption (the age primitives, DPAPI), the writing of an archive, digest
  formats, downloads and process control: outcomes of the steps that use them. Of
  a manifest, `BackupArtifact` has the members, sizes and digests; its other
  fields are one outcome.
- The catalogs of a model provider, the wire protocol of MCP, the registry of presets.
- WeCom, which goes the way of Weixin without QR code and account file, and the
  approval of a pairing code, one call of the CLI.
- The 64 request identifiers `monitorParent` remembers. The grants of a
  destination, each used once, are in `BackupStore`.
- Gateway and profile commands of the CLI: one step with its outcomes. The check of
  `ClearRemovedInstance` and its delete are one step, so a request that stores its
  row between those two statements is left out; the list before them is a step of
  its own.
- In the Desktop: tray, window, autostart and the React pages.

## 7. Plan

1. `GatewayProcess`: `runtime/hermes/lifecycle.go` below the outcome of a start
   or stop, composed with `InstanceOperations`.
2. `ParentControl`: `monitorParent` with its window of identifiers and the
   registry of destinations.
3. Proofs: the safety invariants of `InstallTransaction` on found disks, from an
   assumption that says which those are.
