# vJailbreak in TLA+

vJailbreak moves virtual machines from VMware vSphere to OpenStack. This directory models the parts of it whose
correctness depends on the order in which things happen: TLA+ modules, TLC configurations that check them on small
instances, and TLAPS proofs. File names below are relative to the repository's root; `hotadd_copy.go` and the like
without a path are in `v2v-helper/migrate/`.

Run a check with `tlc -config rep_admin.cfg MCReplication`, the proofs with `tlapm ReplicationCopyProofs.tla`.
`PROJECT.json` maps every definition that models code to the lines it stands for.

## 1. The system

| Part | Where | State it keeps | Operations |
|---|---|---|---|
| Migration controllers | `k8s/migration/internal/controller` | the custom resources' status (phases, conditions, `VMwareMachine.Migrated`), Jobs, pod labels | one reconcile function per kind: Migration, MigrationPlan, RollingMigrationPlan, ClusterMigration, ESXiMigration, RDMDisk, VjailbreakNode, ProxyVM, credentials, mappings |
| v2v-helper | `v2v-helper` (one pod per VM) | the snapshot chain and change IDs of the source VM, the contents of the target volumes, the reporter's channel, the Cinder volumes, ports and the server in OpenStack | `MigrateVM`: create volumes, copy (NBD, HotAdd or storage array), convert, create the server; `WaitforAdminCutover`; LDM boot gate; clean-up |
| vpwned | `pkg/vpwned` | the Proxy VM locks (in memory), the progress of an upgrade (ConfigMap) | lock acquire and release, upgrade and rollback Job, pass-through handlers for vCenter, OpenStack and bare-metal providers |
| Common libraries | `pkg/common`, `k8s/migration/pkg` | none of their own | validation, credentials, messages and phases, event lookup |
| UI: migration form | `ui/src/features/migration` (`useCredentialFetching`, `useMigrationFormSubmit`) | the choices, the credentials read, an ephemeral MigrationTemplate on the server | effects that follow the choices, a poll, the submit chain, closing |
| UI: addresses of VMs | `useBulkIPEdit`, `useVmsSelectionState`, `useVmSelection` | table rows, selection, the form's copy of the chosen rows, the dialog's maps | rebuilding rows from every answer of the inventory, editing, Apply with its validation |
| UI: migrations page | `MigrationsPage`, `MigrationsTable`, `useDeleteMigrations`, `useRetryPrefill`, `useRetrySubmit`, `useMigrationStatusMonitor` | the list polled last, trackers of phases by name, dialogs | delete, bulk retry, edit and retry, reporting of failures |
| Other UI pages, AI assistant, image builder | `ui`, `vjailbreak-ai`, `image_builder`, `deploy` | none that decides about a migration | presentation, credentials, packaging |

How they interact. A user creates a MigrationPlan; its controller creates one Migration, ConfigMap and Job per VM. The
pod of the Job runs v2v-helper, which talks to vCenter and OpenStack, and reports by Kubernetes events and a pod
condition. The Migration controller rebuilds the phase from the events and the pod, each read from an informer cache
that lags, and talks back by labels of the pod (`startCutover`, the LDM answer), which the helper watches. Pods that use
HotAdd share a Proxy VM and ask vpwned over HTTP for the lock under which they attach disks; they also write the ProxyVM
object's status. Rolling migrations chain controllers by the status of one another's objects. The UI has no server of its
own: the browser makes each operation as a chain of Kubernetes requests (get, patch, delete, post), and the controllers act
between any two of them; nothing rolls a chain back that breaks off.

What makes it hard:

- the guest keeps writing while its disks are copied, in passes that each need a consistent reference point (CBT);
- calls to vCenter, NBD and OpenStack fail half way and are retried; snapshots are found by name or by "current", and
  other tools take snapshots too;
- a copy runs on many goroutines with a pool of handles, several channels and two contexts;
- progress is an unordered, lossy, expiring log of messages that two caches show with different delays;
- several pods work on one Proxy VM with a lock that covers only part of what they do and lives in one process;
- pods, vpwned and the controllers may stop between any two steps;
- React effects, polls, answers and clicks of the UI change one state in any order, each with what it saw when it started.

What makes each part correct:

| Component | Properties |
|---|---|
| Live replication of disks | no write lost, one instant for all disks, change IDs never ahead of volumes, termination, cutover honoured, the user's snapshots kept |
| Copy of changed blocks | success means complete, nothing used after it is closed, no lost error, no deadlock |
| Phase of a migration, reporter | success and failure are reported when, and only when, they happened; phases do not go back; the operator's answers reach the helper once |
| HotAdd, Proxy VM lock | each volume gets its own disk, no migration touches another's disks, everything is released, the lock comes free |
| Migration form | the plan is what the operator saw, with a template that stays; the template follows the choices |
| Addresses of VMs | the plan says what the dialog showed when it was applied; one well-formed address per interface, or none |
| Migrations page | a VM is in one plan at most, others are not touched, deleted migrations stay deleted, failures are reported, a retry starts from nothing old |
| MigrateVM and its clean-up (planned) | what was created is deleted or handed over, once, whichever step fails or is cancelled |
| MigrationPlan (planned) | batches in order, retries do not repeat what was done, post-migration actions once |
| RDMDisk, ESXiMigration, RollingMigrationPlan, VjailbreakNode, ProxyVM, Upgrade (planned) | a step is not repeated or skipped when the status update after it fails; a host or node is only taken away when nothing runs on it |

`PROJECT.json` lists the components with what is and is not modelled, and the hazards at their lines.

## 2. The modules

| Module | Models | Composition |
|---|---|---|
| `Replication` | `LiveReplicateDisks`, `WaitforAdminCutover`, `SyncCBT` (`nbd_copy.go`) and the calls of `vm/vmops.go` they make, with the guest and the administrator | implements `PointInTimeCopy` |
| `PointInTimeCopy` | abstract: what any replication promises | the refinement `Replication!CopiesPointInTime` |
| `ChangedBlockCopy` | one call of `CopyChangedBlocks` (`nbd/nbdops.go`), goroutine by goroutine | its promise `NilMeansCopied` is what `Replication` takes one `Copy` step for |
| `MigrationPhase` | messages of the helper, reporter, events, caches, labels, `MigrationReconciler` | one migration, from the pod's start to the final phase |
| `HotAdd` | `HotAddCopyDisks` (`hotadd_copy.go`) of several pods, the lock of vpwned and its client | any number of migrations on a Proxy VM |
| `MigrationForm` | the drawer that starts a migration, its hooks, and the requests and templates on the server | any number of mounts of the drawer, one after another |
| `MigrationConsole` | the migrations page: delete, bulk retry, edit and retry, failure monitor; of `migrationplan_controller.go` what decides whether a VM has a Migration | the browser's request chains beside reconciles of plans, finalizers and garbage collection |
| `NetworkOverrides` | choosing VMs, the address dialog, `networkOverridesPerVM` of the plan | table, form and dialog: three hooks that share the rows |
| `MCReplication`, `MCChangedBlockCopy`, `MCHotAdd`, `MCMigrationForm`, `MCMigrationConsole`, `MCNetworkOverrides` | model values for TLC | |
| `ReplicationProofs`, `ReplicationCopyProofs` | theorems | extend `Replication` |
| `ChangedBlockCopyProofs`, `MigrationPhaseProofs`, `HotAddProofs`, `MigrationFormProofs`, `MigrationConsoleProofs`, `NetworkOverridesProofs` | theorems | each extends its component |

Operators named "Mutant" in a comment are wrong versions of the definition below them: `PROJECT.json` says which
property notices which. They are not part of any specification.

### Replication

The state is the source VM (`src`, `power`, `snaps`), the volumes (`vol`), what the helper keeps (`changeId`, `back`,
`ref`, `areas`, the loop's `idx`, `cnt`, `done`, `final`) and the label (`yes`). A block's content is a version number.
Every vCenter, NBD or OpenStack call that matters is an action of its own, so that guest writes and foreign snapshots
fall between any two of them; `pc` names the next call. `StepFails` is the failure of a call outside the periodic sync
(it ends `LiveReplicateDisks`), `SyncStepFails` one inside (it may leave part of its work, and the cycle is retried or
given up). `WaitCancelled` is the pod's termination during the wait or a sync cycle (`ctx.Done()`): it ends the replication with an
error. `Refused` is a call vCenter rejects by its arguments. `cut` is a history variable: the instant of the
last migration snapshot.

External, and modelled as the code uses it: CBT lists at least the changed blocks (maybe more: extents are coalesced, and a guest
may rewrite a block with what it held, which is how a guest that never stops writing is in reach of a model with two counted
writes: `Idle` says when a query must come back empty: only that of a cold VM that is off and unchanged); a snapshot freezes all disks
at one instant; a query with another disk's change ID is rejected; deleting a snapshot with `RemoveChildren` removes those
after it. `SnapDev` is the order of the disks in a snapshot's device list.

### ChangedBlockCopy

One action per blocking or shared-state step of the feeder, the workers, the sub-range goroutines, the aggregator and
the calling goroutine. `cancelled` is `copyCtx`, `callerDone` the caller's context it derives from. A handle is a number
in `free`; holding one is counted per worker. A worker's `select` on a handle and on the context is two actions. An extent is a sequence
of blocks, copied one after another, each retried by itself; a block is split into sub-ranges. `short` is a write that
ended short: `pwrite` logs it and `copyRange` does not look at it, so the attempt counts as good; `gaps` remembers it.

### MigrationPhase

`Script` lists, per copy path, the messages that the phase logic could react to, in the order the helper sends them;
the helper's steps between them do not matter here. `outbox` is the message the reporter works on, `log` the events,
`seen` the part of them in the controller's cache, `podSeen` the cached pod, `podRead` the copy a running reconcile holds,
which is how `ReconcileStart` and `ReconcilePhase` come to use data of different age. `woken` is the work queue.
The loop of `SetupMigrationPhase` ends at the newest event that decides (`Decides`): `ScanEvents` says so without a recursion,
and `PhaseAt` is the phase the loop has when it gets to an event. Events of one second come in either order. Failed is sticky;
Succeeded is only reconciled again when something queues the object.

### HotAdd

A device key is the slot (controller and unit) a disk sits in, which is how vCenter numbers disks. Attaching is four
separate calls to vCenter (`KeysBefore`, `AssignController`, `AddDevice`, `KeysAfter`), under the lock; the clean-up's
steps are not. `qemu-nbd` dies when its port is taken while the shell loop that waits for the port is content, so
`serveViaNBD` succeeds and `runNBDCopy` reads whatever answers. `count`/`seen` are the read and the later write of
`AttachedDiskCount`. `stale` are Migrations that are deleted or Failed. The preparation (power-off, snapshot) concerns
one VM and is one step with a failure.

### MigrationForm

Every request is a record in `net`, tagged with the mount of the drawer that sent it; `Answer` serves one and is at once its
effect on the server and the code that awaits it. Each action includes what React runs after its commit: read credentials of
a changed cluster, create or patch the template (`SyncTemplate`), drop it (`ResetTemplate`). An answer for an earlier mount
changes no state of the form, but the asynchronous function that awaits it goes on, as in the browser. `plans` records for
each plan what its template held (`seen`) and what the form showed (`want`) when Start was clicked. Mappings are opaque;
validation of the form is its part about credentials and clusters.

### MigrationConsole

`plan` and `migration` are the server's objects, `status` the plan's MigrationStatus, `list` the page's last poll. A chain of requests
is a record with a `pc`: `groups` for `deleteMigrations` (one chain per plan), `bulk` for the deletions of a bulk retry, `retries` for
`performEditAndRetry`. `mine` says whether a retry belongs to the drawer that is open.

The plan controller is modelled as far as it decides whether a VM has a Migration. A reconcile reads the plan (`ReadPlan`), makes the
Migrations of the VMs it read one by one, unless there is one of that name (`CreateMigration`), and ends with the plan's status
(`EndReconcile`, `PlanOutcome`); what happened to the plan meanwhile it does not notice. An error in between ends it for
the VM or for good. A failed plan is taken up again when its failed Migrations are gone or one of its VMs has none (`ResetPlan`); one that
succeeded never is. A cache that lags is a read that was made earlier. `EndMigration` and `RemoveMigration` are the migration controller's
part: the phase's end, and the finalizer. Garbage collection is external.

A plan's batches keep their numbers when one of them goes: their order matters, not their position. Names of Migrations are those of
their VMs, which is why a retried VM's Migration takes over the name. `witnessed`, `stale` and `erased` are history variables:
`witnessed` and `reported` are about the Migration that has the name now, and `stale` says that a failure of an earlier one was reported
and no list but an empty one was without the name since.

### NetworkOverrides

An interface's addresses are one value; which values stand for several addresses or for none is a constant. `Commit` is a
change of rows or selection together with the effects of `useVmSelection` that follow it: dropping VMs without a row, and
copying the chosen rows to the form unless they equal what was copied last. Apply captures rows, selection and maps in
`pending` before it awaits, and `AllValid` writes back what was captured. `applied` is a history variable: what the dialog
showed of a VM when it was last applied.

## 3. What TLC checks

All bounds are constants of the modules and have a comment there.

| Run | Instance | Shows |
|---|---|---|
| `rep_admin` | hot, mock and cold, with and without an administrator, 2 disks of 2 blocks, threshold 1, 2 counted guest writes and rewrites without bound, 1 failing call or the pod's termination (780 000 states) | no write is lost, one instant for all disks, change IDs stay behind, also after sync cycles that fail half way; the copy refines `PointInTimeCopy`; the replication returns, the label leads to the cutover |
| `rep_disturbed` | hot and cold, a foreign snapshot, a foreign power-on, snapshot disks in another order (2.4 million) | what holds even then: complete cold copies unless the VM was powered on, the user's snapshot survives |
| `cbc_copy` | 3 extents of 2 blocks of 2 sub-ranges, 2 workers, 2 handles, 2 tries, 2 faults, 1 short write, the caller may cancel (1.1 million) | success means complete unless the caller cancelled or a write ended short, nothing used after close, no error lost, termination |
| `phase_paths` | all 7 paths, all answers, one mishap (3 million) | Succeeded means a VM and a marked VMwareMachine, phases do not go back, the gate's first answer stays and precedes the rebuild |
| `phase_live` | admin-initiated, data-only and LDM (rebuild) migrations, a failing step and an expiry of the events (64 000) | success and failure are reported, for good; only failures are |
| `phase_warning` | admin-initiated path, one warning | finding: a warning fails the migration |
| `hotadd_shared` | 2 migrations of 2 disks, 4 slots and ports, 1 failing call, 1 failing clean-up call, 1 lost release, symmetric (1.3 million) | the lock keeps slots from colliding, keys lead to the migration's own disk |
| `hotadd_single` | 1 migration of 3 disks, 1 failing call, a restart of vpwned, a deletion that ends the pod (1800) | each volume gets its own disk, the snapshot goes when the disks are off the Proxy VM, the lock comes free |
| `ui_form` | 2 mounts, 2 clusters and credentials per side, 3 changes, 1 rejected request (1 million) | the plan is what was chosen and keeps its template; the template follows the choices |
| `ui_console` | one plan of 2 VMs, 2 deletions or retries, or 1 and a failing request, one reconcile at a time (3.8 million) | a VM has one plan, deletions stay, other VMs are left alone, failures are reported but for those a tracker of the same name hides |
| `ui_retry_last` | the same, rows that are not refreshed or whose VM has left its plan | finding: a retry deletes the plan of another VM |
| `ui_overrides` | 2 VMs of 2 interfaces, one powered off, several and malformed addresses, 2 openings, 3 edits, 1 refused validation (439 000) | the plan says what the dialog showed; no malformed address gets through |

Why these bounds are enough to be worth something. Replication: two disks are needed for "one ahead of the other", for
the loop's boundaries and for `done`; two blocks for a partial copy and for over-listing; two writes to place one inside and
one after an iteration; a guest that keeps rewriting reaches the threshold, which alone ends the iterations then; one failure fails a cycle or an iteration at any
of its calls. ChangedBlockCopy: as many workers as handles is the case in which holding one while waiting for
another deadlocks; three extents keep one in the feeder while two workers fail; the second block shows what a failure after a
block that is done leaves; two faults exhaust the retries of one worker. MigrationPhase: scripts are complete; lag is unbounded (the caches may show any prefix);
`MaxMishaps` = 1 keeps `phase_paths` small, and each path was also explored alone with two mishaps. HotAdd: two
migrations of two disks let a detach and an attach interleave at every call; more slots than disks are never used.
`hotadd_single` uses one migration because `CopiedOwn` does not hold for two (section 5); its `LockComesFree`
also holds for two migrations of one disk. MigrationForm: two mounts let answers for the first arrive during the second;
three changes take a choice away and back while a request is on its way; channels are queues without a bound.
MigrationConsole: two VMs in one plan are "the other one" and "the last one"; two operations let a deletion meet a retry, or a
retry a second one; there are as many names for new plans as operations. `MaxConcurrentReconciles` is 1, so that reconciles of two plans do
not overlap; the default is 5 (`k8s/migration/cmd/main.go`), for which the theorems hold. `MaxEvents` makes a failing request take the
place of the second operation; a retry that failed may be submitted again all the same. NetworkOverrides: one VM for each power state; an interface
with an address, one without, one with several; an opening, an edit and Apply, and then both again.

`phase_paths` has `CHECK_DEADLOCK FALSE` because the system may really stop there: after a warning the controller has
given up (Failed is sticky) while the helper still waits for a label nobody will publish. `ui_console` and `ui_retry_last`
have it because an operator who used up the operations does nothing more. In every other run a deadlock would be an error.

### Fairness

- `Replication`: weak fairness of the helper's own steps: it is one goroutine that only blocks in the admin wait, and its
  calls have timeouts. Strong fairness of `AdminCutover`: the wait is a Go `select` over the label channel and the sync
  ticker, and `select` picks among ready cases at random, so a waiting label is taken eventually although cycles
  keep starting. None for the guest, the administrator or anybody else.
- `ChangedBlockCopy`: weak fairness of the goroutines together; reads and writes return or time out. The caller need not cancel.
- `MigrationPhase`: weak fairness of helper, reporter, watches (they reconnect), the work queue (the controller requeues
  every 30 s, failed reconciles are retried), and an operator who answers in the end. Failures, expiry and the resync are not fair.
- `HotAdd`: weak fairness of each pod, and of reporting the failure of a helper that failed. Restarts, deletions and crashes are not fair.
- `MigrationForm`, `MigrationConsole` and `NetworkOverrides` have safety properties only.

## 4. What is proved

Each for every value of the constants: any number of disks, blocks, workers, migrations, VMs, and any bound on writes, failures
or edits. The assumptions are the named `ASSUME` of the module (types of the constants) and what the third column says.

| Module | Theorem | Assuming | Says |
|---|---|---|---|
| `ReplicationProofs` | `TypeCorrect` | | `[]TypeOK` |
| | `UserSnapshotSafe` | | no clean-up, partial clean-up, cycle or retry removes the snapshot that was there before |
| | `IterationsAlwaysBounded` | | at most `Threshold + 2` iterations, whatever the guest writes |
| `ReplicationCopyProofs` | `ChangesNeverMissed` | `Undisturbed` | a change ID is never later than its volume, so no query misses a stale block |
| | `OneInstant` | `Undisturbed` | success leaves all disks at the instant of one snapshot |
| | `EveryWriteArrives` | `Undisturbed` | success with the source off leaves every guest write on the volumes |
| | `ImplementsPointInTimeCopy` | `Undisturbed` | every step is a step of `PointInTimeCopy` or a stutter |
| | `ColdNeverAffected` | | `ColdUnaffected`: a cold copy is complete unless somebody powered the VM on |
| `ChangedBlockCopyProofs` | `TypeCorrect` | | `[]TypeOK`, with the bounds on handles, tries and `errorChan` |
| | `NilCopied` | | a nil result means every block was copied, unless the caller cancelled or a write ended short |
| | `ErrorsReported` | | a call in which a worker failed for good returns an error |
| | `PoolWholeWhenClosed` | | when the deferred closes run, no goroutine is left and every handle is back in the pool |
| `MigrationPhaseProofs` | `TypeCorrect` | | `[]TypeOK` |
| | `SucceededIsCreated` | | Succeeded means a VM in OpenStack and a marked VMwareMachine |
| | `PromotingIsAnswered` | | PromotingToVirtio is shown only after the operator's answer |
| | `PhaseAdvances` | | the phase only goes back to Failed, or from the admin's gate once the cutover is triggered |
| | `AnswerStays` | | the first published answer to the boot gate is never replaced |
| | `FailedIsFailed` | `MaxWarn = 0` | Failed means the helper failed |
| `HotAddProofs` | `DisksStayApart` | `Alone`, or `MaxRestarts = MaxDeletes = 0` | `DisksApart`: slots do not collide, and keys lead to the migration's own disks |
| | `SnapshotStays` | `MaxLeftovers = 0`, and `Alone` or `MaxRestarts = MaxDeletes = 0` | once the snapshot is gone none of its disks is attached, with or without a known key, but at most, after an error, the one at which attaching stopped |
| | `TypeCorrect` | | `[]TypeOK` |
| | `CopiesItsOwn` | `Alone` | success leaves on every volume the data of its own disk |
| `MigrationFormProofs` | `FormTypesHold` | | `[]TypeOK` |
| | `PlanKeepsItsTemplate` | `Impatient = FALSE` | no template is deleted under the plan that names it |
| | `QuietFormIsSynced` | `InOrder = TRUE` | with nothing in flight and nothing rejected, the template says what was chosen |
| | `PlansAreAsChosen` | `InOrder = TRUE`, `Impatient = FALSE`, no `"creds"` or `"patch"` in `Failing` | a plan runs with what the form showed when Start was clicked |
| `MigrationConsoleProofs` | `TypeCorrect` | `Impatient = FALSE` | `[]TypeOK`, and whose drawer a submitted retry is |
| | `FailuresReported` | | every failure the page saw happen is reported, unless one of an earlier Migration of the name was and no non-empty list without the name came since |
| | `PlansDisjoint` | `Patient` | no VM is in two plans |
| | `DeletedStaysOut` | `Patient` | a VM whose deletion is done is in no plan until it is retried |
| | `PlanGoesWithItsLastVM` | `Patient` | `LastVMOnly`: a retry deletes a plan only if it holds no other VM |
| | `OthersStay` | `Patient`, `OneBatchEach` | deletions and retries leave other VMs in their plans |
| `NetworkOverridesProofs` | `TypeCorrect` | `Patient` | `[]TypeOK`, and that the form holds selected VMs only |
| | `PlansAssignOneAddress` | `Impatient = FALSE` | no plan assigns a running VM several addresses, or what is none |
| | `PlansSayWhatWasShown` | `Patient` | the plan carries what the dialog showed when it was applied |

The assumptions are no convenience: the code does not keep these properties without them, and section 5 has a counterexample
for each assumption. `Undisturbed` says that vCenter lists snapshot disks in the VM's order and nobody else takes snapshots or powers
the VM on. `Alone` says that one migration uses the Proxy VM. `InOrder` of `MigrationForm` says that requests for one object are
served in the order they were sent, `Impatient = FALSE` that the operator starts once the credentials are read and then leaves the
form alone; a read of credentials or a patch that is rejected is repeated by no one, so `PlansAreAsChosen` is about the others. `Patient` of `MigrationConsole` says that the operator acts on rows
and drawers that show what is, waits for a cancelled retry, and that the last request of a retry does not fail
(`Cached`, `StaleRows`, `Impatient`, `"flavor"`); `OneBatchEach`, that a plan has one batch. `Patient` of `NetworkOverrides` says
that the operator waits while an Apply is validated, no poll arrives meanwhile, and the list of VMs is not reloaded
(`Impatient`, `Overtaken`, `Reloads`). `MaxWarn = 0` is the finding of `phase_warning`: warnings are all there is to it.

Replication. `TypeOK` alone is not inductive, since "the current snapshot" may not exist: `TypeInv` adds that there is one
wherever the code uses it. `CountInv` bounds the counter per program point. `CopyInv` carries the rest:

- `Ordered`: blockwise, volume <= last snapshot <= source; versions only grow, so "not later" is transitive;
- `CurrentIsCut`, `RefIsCut`, `BackIsCut`: between a snapshot and the next clean-up, the current snapshot, the one found by
  name and the one served over NBD are the same, the last one taken;
- `IdsBehind`: a change ID is behind the last snapshot, and behind its volume once the first full copy of the disk ended;
  a block the ID calls unchanged therefore is the same on snapshot and volume;
- `AreasComplete`: what the query listed contains every changed block, so copying it makes the disk equal to the snapshot;
- `DisksDone`: the disks the running loop has passed equal the snapshot, so all do when it ends;
- `PowerInv`: the power-off precedes the last snapshot, so that snapshot is the source's final state.

A failed sync cycle may leave any mixture of old and new blocks: `PartialCopy` shows that it stays between old volume and
snapshot, which is all `Ordered` and `IdsBehind` need. There is one lemma per action (`...CopyStep`), `Quiet` and
`AdministrativeCopyStep` for those that touch nothing of this, and `CopyStep` combines them. The refinement follows from
`CopyInv`: one lemma (`Promise...`) per kind of abstract step says which concrete steps map to it, and `PromiseStep` goes through
the actions. `ColdInv` needs none of this and no assumption: with the VM off before the first snapshot, every image there is, under
whatever name and in whatever order, shows the final source, and changed areas of such images are empty.

ChangedBlockCopy. `NilMeansCopied` speaks of the end only. `Covered` says at every step that an extent handed out is copied,
in a worker's hands, or excused; an excuse (the caller cancelled, an error was counted or returned) never goes away.
`StopsForCause` says that a goroutine that ends early has one, `Bracketed` that a worker's goroutines live only inside its
copy, and `MainKnows` what each point of the calling goroutine may rely on. The handles in use are a sum over the workers; it is
counted by `Tokens`, one pair of a worker and a number for each, of which a step adds or removes one, so that the library's
facts about cardinalities take the place of an induction.

MigrationPhase. What the helper may have said on its path is in `SaidIn`: the reporter's message, the pod's condition and every
event come from it, whatever was lost or expired. `SortedFromLog` says that what a reconcile looks at are visible events, in
whatever order ties come; `ScanIs`, what the newest deciding one can make of the phase (the smallest index exists because `<` on
Nat is well-founded, not by induction); `Rebuilt`, what LDM hold and fallback leave of it. The conjuncts of `Inv` remove from
`SaidIn` what has not happened yet: before the answer nobody speaks of the rebuild (`GateInv`), before the creation nobody
speaks of the VM (`CreatedInv`). `AdminInv` says that a published cutover stays published, which lets the phase go back there and
nowhere else; `ReadInv`, that Failed is not reconciled. For `FailedIsFailed`, `FailInv` adds that "Failed" is the last
word of the helper.

HotAdd. `OwnDisk` looks at keys that were found already; what makes the next one right is `NothingNew`: since the device list
was read, no disk came but the one being added. That needs `LockHeld` (whoever attaches holds the lock), which needs `Calm` (only a
migration that has ended is taken for stale) or nobody to share with. A detach by someone else only removes keys, which
`NothingNew` survives; a slot it frees cannot be one of the holder's. For the snapshot, `Placed` says that each disk is in one
slot, its key's if that is known, and `LeftOf` which disks the clean-up's loop has left behind: attaching goes disk by disk and stops at the first
error, so that only the one it stopped at can be on the Proxy VM without a key, having come although the call failed or not being recognised. Types need `KeysKnown`: a helper that counts or identifies has found a key for each disk, so
`AttachedDiskCount` is well-formed when it adds and subtracts. `CopyInv` follows a disk from its device over its export to the copy:
`Served` says that ports are distinct and each serves the device it was chosen for, which is where a second migration breaks it.

MigrationForm. `Flow(i, e)` says what any step does to `net`: request `i` is answered, the others keep their order, `e` is appended;
every action is first shown to be such a step, so that the invariants are about what is in `net` and in which order, not about
sequences. `TypeOK` needs `Room`: each choice causes at most two requests that may create a template, so `made` plus those under
way stays within `2 * edits`, which is why `MaxTemplates` never cuts a POST off. `Names` says that a template's name is known to one mount
only and that only a mount that is gone has a deletion under way. With a patient operator `Kept` follows: what a submit or a plan uses is
not deleted. The other two properties say of the last request of a kind what nobody says of those before it: `CredsFollow`, that the last
read of a side is that of its cluster; `TemplateFollows`, that the last patch of the form's template carries the choices; each with
"or, when none is under way, it has arrived". Answers are taken from the middle of `net`, but only the first of its channel, so
the last one is answered after all others (`LastIn`, `NoneIn`): this is where `InOrder` is needed. Late polls and answers to older patches
bring a template back, which sends another patch with the choices of now. `SyncedWhenQuiet` is `TemplateFollows` when nothing is in flight.
For `PlanAsChosen`, `Frozen` says that what Start showed is still chosen while the submit of the open form runs, and `Promises`, for each
running submit, that the last patch served before `updateMigrationTemplate` carries it, or the template has it; then that the
method was written too, until the plan is created.

MigrationConsole. `ReportInv` relates per VM the tracker, the page's list and what was reported of this Migration or one before
(`Known`); polls are the only steps that move tracker and list, and a Migration that goes leaves `Known` as it is. `TurnInv` says that dialog, deletions, drawer and retry exclude one another. `OwnerInv` says of each of these what it knows
about the plans: no VM has two owners, what is deleted is out, and the plan a chain of requests works on is the only one that may
hold its VM, until the request that takes the VM out (`UpToDate`, `RetryOwns`); the VM gets into a plan again only in the
step after which the retry ends. `BatchInv` says that plans keep to one batch.

NetworkOverrides. The value an Apply leaves in a row may come from the field, from the row, or be empty, and `AssignedWellFormed`
needs it of each. `Marked` says that a field shown for assignment is well formed unless it is marked invalid, which blocks
Apply. A field that is neither assigned nor cleared leaves the row's address in place: it must be none, since nothing was
discovered for it, so `Seen` and `Learned` relate the addresses learnt so far to rows and inventory, and `NothingBehind` the open
dialog, whose maps are older than the table, to the rows of now. `PendingInv` keeps all of it for the rows captured before
the await, and `RowOK` for those in the form. `TypeInv` gives dialog and rows the index sets of their VMs (`Grid`). `ShownInv` says
that form and payload are the selected rows, that an applied VM's row yields what was shown, and that rows captured by an
Apply are still those of the table.

Only model-checked: liveness (`Returns`, `CutoverHonoured`, `Terminates`, `SuccessReported`, `FailureReported`, `LockComesFree`),
which TLAPS cannot prove under fairness. Every invariant and action property of the passing runs is proved.

## 5. Divergences

Two runs show the code doing what a comment of it says it does not: `phase_warning` and `ui_retry_last`; `PROJECT.json`
quotes them. The others met while modelling are reproduced by changing a configuration as given and leaving only the named
property in it (with `CHECK_DEADLOCK FALSE`, and `Spec` for an invariant):

| Property | Configuration | What happens |
|---|---|---|
| `OwnBacking` | `rep_admin`, `SnapDev <- Permuted` | `UpdateDiskInfo` matches the disks of a snapshot by index (`vm/vmops.go:508`; the comment at 430-431 says why not to): the incremental copy reads another disk |
| `NoWriteLost` | `rep_admin`, `MaxForeign = 1` | `UpdateDiskInfo` (`vm/vmops.go:488`) takes the current snapshot, whoever took it: a backup tool's, taken after the query, moves the change ID past blocks that were never copied |
| `NoWriteLost` | `rep_admin`, `MigTypes = {"cold"}`, `MaxPowerOn = 1` | the power state is sampled (`nbd_copy.go:634`): a VM powered on and off in between passes, its writes are lost |
| `NilAlwaysMeansCopied` | `cbc_copy` | a worker that sees the context cancelled ends without an error (`nbd/nbdops.go:789`, comment at 787): when it was the caller who cancelled, nil is returned with extents left out |
| `NilAlwaysMeansCopied` | `cbc_copy`, `CallerCancels = FALSE` | a write that ends short is only logged (`nbd/nbdops.go:499`), and `copyRange` counts it as whole (590): nil is returned with a gap in the volume |
| `SuccessReported` | `phase_live`, `Paths = {"nbd"}`, `MaxRecover = 1` | when the VM is found after `CreateTargetInstance` failed, the success message is the last one, and main returns (`migrate.go:382`) without waiting until the reporter has sent it: the phase stays ConvertingDisk |
| `LDMSucceededAnswered` | `phase_paths`, `Paths = {"ldm"}` | the SATA build of an LDM guest is announced with the success message (`vm_ops.go:421`); `EventMessageLDMGuestCreatedOnSATA` is emitted nowhere |
| `RollbackNotSuccessful` | `phase_paths`, `Paths = {"ldm"}` | after a rollback main exits with 0 (`main.go:221`); until the failure event is visible the old success message counts |
| `PromotionKeepsVM` | `phase_paths`, `Paths = {"ldm"}` | the server is deleted before it is certain that it can be created again (`migrate.go:516`); the error is only a warning |
| `CopiedOwn` | `hotadd_shared` | ports are found free long before they are bound (`hotadd_copy.go:594`, against the comments at 68, 303 and 376): a volume gets another VM's disk |
| `DisksApart` | `hotadd_shared`, `MaxRestarts = 1` | the lock is lost with the process (`proxyvm_lock_handler.go:35`): two migrations attach, and device keys get mixed up |
| `DisksApart` | `hotadd_shared`, `MaxDeletes = 1` | a deleted Migration is stale at once (`proxyvm_lock_handler.go:91`), its pod attaches on for its grace period |
| `SnapshotLast` | `hotadd_single`, `MaxLeftovers = 1` | a detach that fails is only logged (`hotadd_copy.go:460`); the snapshot goes with a disk of it still attached |
| `CountExact` | `hotadd_shared` | `adjustProxyDiskCount` reads and patches without a resource version (`hotadd_copy.go:411`): one of two adjustments is lost |
| `AllReleased` | `hotadd_shared`, `MaxFaults = MaxLeftovers = MaxLost = 0` | a disk gets the key of one detached since `keysBefore` was read (`hotadd_copy.go:182`), is not recognised, and stays on the Proxy VM |
| `LockComesFree` | `hotadd_single`, `MaxCrashes = 1` | a pod that dies keeps the lock: nothing turns PodFailed into phase Failed (`proxyvm_lock_handler.go:96`) |
| `LockComesFree` | `hotadd_single`, `MaxLost = 1` | a release that does not arrive is only logged (`hotadd_copy.go:85`): a migration that goes on to succeed keeps the lock |
| `PlanAsChosen` | `ui_form`, `Failing = {"creds"}` | a failed read leaves the credentials of the earlier choice in place, validated |
| `PlanAsChosen` | `ui_form`, `Failing = {"patch"}` | a failed patch is only logged; Start names a template of an earlier choice |
| `PlanAsChosen`, `PlanKeepsTemplate` | `ui_form`, `Impatient = TRUE` | the form may be changed or cancelled while a submit runs; cancelling deletes the template the plan is about to name |
| `SyncedWhenQuiet` | `ui_form`, `InOrder = FALSE` | two patches that overtake each other leave the older choice |
| `OnePlanPerVM` | `ui_console`, `Cached = TRUE` | a retry drawer opened again works on the plan it loaded the last time: the VM leaves a plan it is no longer in, and gets one more |
| `OnePlanPerVM` | `ui_console`, `Impatient = TRUE` | a cancelled retry runs on beside the next operation |
| `EveryFailureReported` | `ui_console` | the monitor does not report a phase again that it reported for the name before (`useMigrationStatusMonitor.ts:43`; `ui/AMPLITUDE_EVENTS.md:70`: "When Migration phase transitions to `Failed`"): a retried VM's second failure is lost when no poll in between, or only an empty one, was without the name |
| `GoneBeforeNewResources` | `ui_console` | a reconcile that read the plan before a retry's patch makes the old plan's Migration anew after the wait for it to be gone (`migrationplan_controller.go:639`; `useRetrySubmit.ts:127`: "wait for it to be fully gone before creating new resources"); the new plan then only updates its spec (1042) |
| `OnePlanPerVM` | `ui_console`, `Failing = {"flavor"}` | the flavor patch fails after the plan was made (`useRetrySubmit.ts:209`); Retry again makes a second plan |
| `OthersKept` | `ui_console`, `Batches <- TwoBatches` | a deletion rewrites the plan as one batch and drops the VMs of the others |
| `DeletionSticks` | `ui_console`, `StaleRows = TRUE` | a row that shows an earlier plan takes the VM out of that one, and the new plan makes its Migration anew |
| `AppliedAsShown` | `ui_overrides`, `Reloads = TRUE` | choosing another destination cluster empties the list for a moment, and with it what was assigned (against the comment at `useVmsSelectionState.ts:405`) |
| `TypeOK` | `ui_overrides`, `Overtaken = TRUE` | Apply writes back the rows and selection it captured before its await (`useBulkIPEdit.ts:735`): the form holds VMs that are not selected |
| `TypeOK` | `ui_overrides`, `Impatient = TRUE` | the dialog can be closed and the selection changed while Apply waits (`BulkIPEditDialog.tsx:106`, where the Cancel at 336 is disabled) |

Seen while reading, outside what the modules say:

- `gracefulTerminate` cancels the context and cleans up with it, beside `MigrateVM`'s own clean-up (`migrate.go:206`).
- `useCredentialFetching`: a template the form drops on a change of clusters is never deleted; with two templates at work their
  patches may alternate. `useMigrationFormSubmit`: a rejected network or storage mapping, or plan, leaves "submitting" set for
  good, as does Start before the template's creation was answered; a late answer calls App's `onClose` and closes a newer drawer.
- `useRetryPrefill.ts:191`: "pcdData is intentionally omitted from deps", but it is among them (226): when it loads after the
  operator has begun to edit, the form is reset. Failures of a bulk retry are dropped by `allSettled`.
- A reconcile that read a plan before `deleteMigrations` patched it makes the deleted Migration anew, for a plan that no longer holds
  the VM (`DeletionSticks` is about plans). When the same happens to a retry (`GoneBeforeNewResources`), a retry of that Migration finds a plan without its VM:
  `PrefillAnswer` assumes a row whose VM is in its plan unless `StaleRows`.
- `useBulkIPEdit.ts:539-621`: an interface's own flag comes from the snapshot of the dialog's opening, the VM's from the dialog as
  it is. An address typed while Preserve IP is on, or for a VM without listed interfaces, never reaches the plan. A powered-off VM
  with several addresses discovered on an interface gets all of them assigned (`AssignedWellFormed` excludes powered-off VMs).

## 6. What is not modelled, and why

- Of modelled components: the reading of the VM's inventory and guest information (bulk data, one actor), volume attachment
  around the replication, `coalesceExtents` (planned), the nbdkit process and the progress pipe of `CopyDisk` (no state of the
  migration depends on them), conditions and metrics of a Migration, its deletion (planned with MigrationPlan), log files.
  Of the plan controller, in `MigrationConsole`: validation of VMs (ValidationFailed), data-only Migrations, paused plans and post-migration
  actions (planned). In `HotAdd`, disk i of the snapshot is volume i: `getFrozenVMDKs` keeps flat backings only and `GetVMInfo` leaves out RDM
  disks only, and `HotAddCopyDisks` pairs the two by index (539-543), which nothing checks; the model takes them to agree.
  Of the UI's: contents of the mappings, flavors and RDM configuration, saved templates, filters, columns and wording.
- Not at all, but planned: MigrateVM's resources and clean-up, MigrationPlan, RDMDisk, rolling migrations and their form,
  VjailbreakNode, ProxyVM, Upgrade, storage-accelerated copy, the credential drawers.
- Not at all, and not planned: credentials and mappings on the controllers' side (validation followed by a status write, one
  actor), guest conversion (wrappers around virt-v2v, guestfish and SSH), vpwned's pass-through handlers, the UI's other pages
  (settings, agents, details, onboarding: one request each, and layout, which is most of the UI's lines), AI assistant, image
  builder, deployment files.
- Time: timeouts and intervals are choices between "still waiting" and "gave up"; the model has no clock.

## 7. Plan

In this order; the first items carry the most weight.

1. `MigrationPipeline`: MigrateVM's resources, `cleanup`, `gracefulTerminate` running beside it with the cancelled context
   (`migrate.go:206`), and the volumes that must be deleted or handed over exactly once; abstract specification: every
   resource ends owned by a VM or deleted.
2. `MigrationPlan` with the Migration's deletion: batches, retry (`migrationplan_controller.go:814` reads `Conditions[0]`),
   pause (`:789`), post-migration actions that are repeated when the annotation after them is not written (`:846`), batches
   that each trigger all VMs (`:740`), `reconcileDelete` that gives up the finalizer (`migration_controller.go:342`). Composed with
   `MigrationConsole`, whose `ReadPlan` to `EndReconcile` it then refines.
3. `RDMDisk` (import, then a status update that may fail, `rdmdisk_controller.go:238`), `RollingMigration` (rolling plan,
   cluster and ESXi migrations, `esximigration_controller.go:363`, `clustermigration_controller.go:334`,
   `rollingmigrationplan_controller.go:111`), `VjailbreakNode` (teardown by a stale list, `vjailbreaknode_controller.go:294`),
   `Upgrade` (restart of the Job, `executor.go:136`, rollback, `:775`).
4. `CredentialsDrawer`: the drawers that create credentials, poll their validation and delete what failed it; the rolling form
   with its own copy of the address dialog (`useBulkIPHandlers.ts`).
5. In `HotAdd`, the ProxyVM's re-verification that resets it under running migrations (`proxyvm_controller.go:351`).
6. `CoalesceExtents`: `coalesceExtents` as a fold against "the union is covered, gaps only below the limit".
