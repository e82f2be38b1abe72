# A TLA+ verification of the volume-resize operator

The operator shrinks the volumes of a Kubernetes StatefulSet, which Kubernetes
itself cannot do: for one volume after the other it makes a smaller claim,
takes the pod down, copies the data with rclone in a *migrator pod*, swaps the
claims and brings the pod back. This directory models the operator and the
part of the cluster it acts on, model-checks it with TLC, and proves the
properties that protect the data with TLAPS.

Paths are relative to `src/`; `controller.go` stands for
`internal/controller/volumeresize_controller.go`, the other Go file names are
in `internal/controller/` too.

## 1. Inventory

### Components

| Component | State it keeps | Operations | What makes it correct |
|---|---|---|---|
| Reconciler (`controller.go`) | none across calls: the VolumeResize's phase, cursor (`currentReplica`, `currentVolume`), volume statuses, annotation `sts-deleted`; inside a call: the VolumeResize read at the start, names and volumes found on the way | `Reconcile`, `handlePending`, `handleValidating`, `handleSyncing`, `handleReplacing`, `handleDeletion`, `setFailed`, `getNextVolumeReplica` | slots are done in order and once each; a terminal phase means what it says; a call that is cut off anywhere can be repeated |
| StatefulSet operations (`statefulset.go`) | the StatefulSet, its backup ConfigMap, the target pod | back up, delete with orphan policy, recreate, delete pod, wait for its end | never deleted without a backup; brought back at the end |
| PVC and PV operations (`pvc.go`) | the original and the temporary claim of a slot, the two volumes | create the temporary claim, set Retain, `replacePVC` (7 steps) | the old volume survives; the new claim is bound to the volume that was copied to |
| Migrator pod (`migrator.go`), image (`build/migrator`) | a pod per slot | create, wait, clean up; `rclone sync` | copies from a still source, in one direction; a failure is not taken for success |
| Validation (`validation.go`) | none | four checks | only requests that can be carried out start |
| API types (`api/v1alpha1`) | the CRD | - | the controller writes what the schema allows |
| CLI (`cmd/volmig`) | none | `create`, `delete` (a read, then a write); `watch`, `status --follow` poll; `list`, `describe` read once | `watch` ends when the migration does, with the exit code that says how |
| Manager (`cmd/main.go`) | one controller with one worker, a work queue, an informer cache; leader election off by default | start, stop | restarts are harmless; no VolumeResize starves; a stale copy does no harm |
| Manifests, scripts (`config`, `hack`, `test`) | - | - | not modelled |

### How they interact

Everything goes through the API server. The operator reads through the
informer cache of controller-runtime and writes directly; the StatefulSet
controller, the volume controllers, the scheduler, the kubelets, the
application and the user write to the same objects at any time between two of
its writes. The work queue calls `Reconcile` again after a requeue, an error,
or a change of the VolumeResize. One call of `handleSyncing` makes up to
twenty writes in a fixed order and carries values from one to the next.

### What is hard

- **Interleaving**: between any two writes of one call the cluster moves: pods
  terminate or are started again, claims are protected or vanish, volumes are
  released, reclaimed, provisioned and bound.
- **Crashes**: the progress inside a slot is not recorded. After a restart the
  call begins again and finds whatever the one before left; only the volume
  status `Completed` and the annotation `sts-deleted` are remembered.
- **Partial failure**: an API error has one of three outcomes, depending on
  the line (returned and retried, logged and ignored, or phase `Failed`).
- **Timeouts**: sixty one-second polls in `replacePVC`, after which the code
  goes on; two minutes for the pod; an hour for the migrator.
- **Stale reads**: a migrator pod the cache does not show yet; a VolumeResize
  as it was before the last write of the run before.
- **What is left behind**: temporary claims, migrator pods and backup
  ConfigMaps keep their names from one migration to the next, and are taken as
  they are found.
- **One worker**: a call may wait two minutes for a pod and an hour for a
  copy, and all other VolumeResizes wait with it.

The list of hazards, each at its line and with the properties that watch it,
is in `PROJECT.json`.

## 2. Modules

```
Cluster                     the cluster: StatefulSet, pods, claims, volumes, migrators
  VolumeResizeController    EXTENDS Cluster: the operator; Init, Next, Spec, FairSpec
    MigrationProperties     EXTENDS it: all properties; INSTANCE MigrationLifecycle
      MC                    EXTENDS it: the constant definition the .cfg files use
      TypeProofs            EXTENDS it and TLAPS: type correctness
        RetentionProofs     EXTENDS TypeProofs: the old volumes survive
        LifecycleProofs     EXTENDS TypeProofs: the life cycle; nothing is left behind
          BackupProofs      EXTENDS it: no delete without a backup; the way back
            QuiesceProofs   EXTENDS it and RetentionProofs: still sources, one migration
              DataProofs    EXTENDS it: no write is lost, no failure without a cause
MigrationLifecycle          abstract specification: what a VolumeResize promises

Requests                    several VolumeResizes: stored, cached, queued
  Volmig                    EXTENDS Requests: the command line
    ResizeQueue             EXTENDS Volmig, Cursor: the operator over a campaign
      ResizeQueueProperties EXTENDS it: its properties; INSTANCE MigrationLifecycle
        MCQueue             EXTENDS it: the constant definitions the .cfg files use
        QueueProofs         EXTENDS it and TLAPS: types, life cycles, stale runs
          CampaignProofs    EXTENDS it: what one migration leaves to the next
            MCCampaign      EXTENDS it and MCQueue: the instances of two runs
Cursor                      getNextVolumeReplica, for any list of volumes
```

Two specifications look at the same code from two distances.
`VolumeResizeController` follows one migration one write at a time, with
crashes and failing calls at every one of them. `ResizeQueue` follows several
migrations, out of the work queue and a cache that lags; there a step of a
call of `Reconcile` is what lies between two of its waits.

A *slot* is a pair <<replica, volume>>; it has an original claim `orig(s)` and
a temporary one `temp(s)` (the names `getOriginalPVCName` and
`getTempPVCName` build).

**Cluster** is external code, modelled from how the operator uses it.

| Variable | Meaning |
|---|---|
| `sts`, `backup` | the StatefulSet, the backup ConfigMap exist |
| `pod[r]` | absent, pending, running or terminating; a terminating pod still writes, and has phase Running for `pod.Status.Phase` |
| `mig[s]` | the migrator pod: phase, deletion timestamp, whether the operator's cache shows it, what the source held when the copy began |
| `pvc[c]`, `pv[p]` | claim: state, deletion timestamp, `spec.volumeName`; volume: state, reclaim policy, claimRef, and the writes it holds |
| `acked[s]` | how many writes the application has had acknowledged |
| `faults` | faults so far |

Data is abstracted to sets of writes. A copy holds either what the source held
when rclone began or what it holds at the end; that is enough to tell whether
a concurrent write was lost. The claims are bound by the rules the operator
relies on: pvc-protection keeps a mounted claim; dynamic provisioning or a
free volume binds an unbound claim, late with `WaitForFirstConsumer`; a claim
that names a volume gets it before a younger claim that does not; a released
volume is deleted unless its policy is Retain. Orphan deletion of the
StatefulSet is immediate. Pods are restarted in any order: this includes the
orders of `OrderedReady` and of `Parallel` pod management.

**VolumeResizeController** has the object (`vr`) and the call of `Reconcile`
under way (`run`: the write it is about to make, and the locals `oldPVName`,
`newPVName` and the phase it holds in memory for its slot). One step is one
write together with the reads since the write before, so the cluster acts
between any two writes and a crash or an API error can fall on each.

| Code | Actions |
|---|---|
| `Reconcile` | `AddFinalizer`, `CanReconcile` (guard), `BeginDeletion` |
| `handlePending`, `handleValidating`, `handleReplacing`, `setFailed` | one action each |
| `handleSyncing` :186-208 | `AdvanceCompleted` |
| :221-256 | `GetOriginalPVC`, `CreateTempPVC` (and the wait for binding), `SetRetainOnPV` |
| :266-301 | `BackupSTS`, `DeleteSTSOrphan`, `AnnotateSTSDeleted`, `RecordBackup` |
| :303-313 | `DeletePod`, `WaitForPodTermination` |
| :315-339 | `CreateMigratorPod`, `WaitForMigrationComplete`, `RecheckMigrator`, `CleanupMigratorPod` |
| `replacePVC` | `RetainNewPV`, `DeleteTempPVC`, `WaitTempGone`, `ClearClaimRef`, `DeleteOrigPVC`, `WaitOrigGone`, `CreateOrigPVC` |
| :349-427 | `PersistCompleted`, `RecreateSTS`, `ClearAnnotation`, `CheckPodAndAdvance` |
| `getNextVolumeReplica` | `NextSlot`, `HigherReplica` |
| `handleDeletion` | `DeleteTempPVCs`, `DeleteMigrators`, `RemoveFinalizer` |
| errors of API calls | `ApiError`, split by what the line does with the error |
| restart of the manager | `Crash` |
| `volmig create` / `delete` | `Init` / `UserDelete` |

The `Update` calls carry the resourceVersion of the read at the start; the
user's delete is the only other writer, so after it they are refused
(`WriteVR`). `AnnotateSTSDeleted` brings the stored volume phase back into
memory, because the response to `Update` overwrites the object: a detail with
consequences for what `RecordBackup` then writes.

**Requests** has the versions of each VolumeResize the cache has still to see
(`trail[n]`: the first is what `Reconcile` reads, the last is stored) and the
work queue (`queue`, in order and without repetition). A write of the operator
carries the copy it was made from and is refused when that is not the stored
version any more, whoever wrote in between. `Lag` bounds how far the cache may
be behind; a writer waits for it.

**Volmig** has a command per terminal (`session`): `CheckName` and `Create`,
`LookUp` and `Delete` are the two calls of `volmig create` and `volmig delete`
and other terminals may act between them; `Watch` and `Poll` are the loop of
`volmig watch`, into which `create --watch` and `status --follow` (`Follow`)
turn as well. `Habits` names what users may do that the documents do not
foresee; see section 4.

**ResizeQueue** adds the StatefulSets with their content (`sts`: a revision,
replicas, the size of the template; `want`: what the users wrote last), the
backups with theirs, the claims and volumes by size, the temporary claims with
the VolumeResize of their label, the pods, the migrator pods, and the call of
Reconcile under way (`run`: name, step, copy in memory).

| Code | Actions |
|---|---|
| the worker, `Reconcile` | `Begin`, `Route`, `AddFinalizer` |
| `handlePending`, `handleValidating` | one action each; `Smaller` is `validateSizeReduction` |
| `handleSyncing` | `AdvanceCompleted`, `Prepare` (`createTempPVC`), `BackupSts`, `DeleteSts`, `StopPod`, `AwaitPod` (and `createMigratorPod`), `AwaitCopy`, `Swap` (`replacePVC` and the status after it), `Recreate`, `CheckPod` |
| `handleDeletion` | `HandleDeletion` |
| `getNextVolumeReplica` | `NextCursor` of module Cursor |
| update of a VolumeResize, conflict | `Save`, `Refused` |
| timeouts of two minutes, of an hour | `GiveUpWaiting` |

What it leaves to `VolumeResizeController`: the volumes behind the claims, the
order of the writes inside `replacePVC`, crashes and failing calls. `Swap` is
one step because nobody else touches the claims of a slot whose pod is down
and is not coming back; `SwapsOnlyStopped` checks that on every state. A wait
of minutes is given up only when the cache has caught up with the
VolumeResize: it does not lag for minutes.

**Cursor** is `getNextVolumeReplica` as a function of the list of names, the
highest replica and the present slot. Nothing in the CRD forbids two entries
with one name, and the function looks for the first.

**MigrationLifecycle** is the abstract specification: `phase`, `cur`, `done`,
and the steps Accept, Start, CompleteVolume, Advance, Complete, CloseLegacy,
GiveUp, Remove. `MigrationProperties` instantiates it with a refinement
mapping (`done` is the set of slots whose status is `Completed`) and the runs
check `FollowsLifecycle`. `ResizeQueueProperties` instantiates it once per
VolumeResize and number of replicas (`EachFollowsLifecycle`).

The operators marked as mutants in the modules (`OldPVNotRetained`,
`PodNotAwaited`, ...) are plausible bugs of the definitions after them. No
specification uses them; they serve to show that each checked property can
fail.

## 3. Properties

| Property | Kind | Claim |
|---|---|---|
| `TypeOK` | invariant | types |
| `AppSeesItsWrites` | invariant | a running pod finds every acknowledged write on its volume |
| `CompletedSlotMoved` | invariant | a completed slot has its claim back, on another volume, with all writes |
| `SourceQuiesced` | invariant | no pod writes to a volume while it is copied |
| `OldPVRetained`, `RetentionInv` | invariant | the old volumes survive (and why) |
| `OldPVNeverOverwritten` | action | nothing is taken off an old volume |
| `BackupBeforeDelete` | invariant | no StatefulSet is away without its backup |
| `CompletedHasSts` | invariant | Completed means the StatefulSet is back |
| `RecoveryNamed` | invariant | a migration that failed without the StatefulSet names its backup |
| `NoSecondMigration` | action | a moved slot is not migrated again |
| `FollowsLifecycle` | refinement | order, once each, terminal phases final |
| `FailsOnlyForCause` | invariant | without a fault a valid request never fails |
| `CleanupOnDelete` | invariant | a deleted VolumeResize leaves no temporary claim or migrator |
| `Terminates`, `AllPodsBack` | liveness | it ends, and after success every pod is back for good |

Over a campaign (`ResizeQueueProperties`):

| Property | Kind | Claim |
|---|---|---|
| `QueueTypeOK` | invariant | types; the queue holds a name once |
| `AwayIsBackedUp` | invariant | the backup of a StatefulSet that is away is what its users wrote last |
| `ReturnsAsWanted` | invariant | a StatefulSet that is there is what its users wrote last |
| `ClaimsKeepData` | invariant | no claim loses data to what earlier migrations left |
| `ClaimsFit` | invariant | no claim is larger than its volume (its pod would not start) |
| `FailsForLackOfRoom` | invariant | a copy fails only when the size asked for is too small |
| `CopiesStill` | invariant | no pod writes while its claim is copied |
| `SwapsOnlyStopped` | invariant | a run about to swap finds the pod down, however old its copy |
| `NoSlotTwice` | invariant | a completed slot is not prepared again out of an old copy |
| `NeverGrows` | action | no claim grows, although only replica 0 is asked |
| `CompletesAllReplicas` | action | Completed means every replica users want, and the template |
| `EachFollowsLifecycle` | refinement | each VolumeResize keeps to its life cycle, whoever writes |
| `CursorWalksInOrder` | invariant | the cursor visits all slots in order, iff the names are distinct |
| `ZeroExitMeansMoved` | action | exit code 0 of `watch` means smaller volumes with all data |
| `CampaignInv`, `WantInv` | invariant | what the proofs about a campaign rest on (section 5) |
| `EveryRequestEnds` | liveness | each VolumeResize ends and each delete is carried out |
| `WatchersEnd` | liveness | each `watch` returns |

## 4. Runs

The first four instantiate `MC`, the last two `MCCampaign`. Deadlock checking is
off: a system in a terminal phase, with all pods back, stops.

| Run | Instance | Distinct states |
|---|---|---|
| `rolling` | 3 replicas, 1 volume, 2 writes, PDB with `minAvailable` 1, 1 fault of migfail/slow/userdelete/backuploss | 1,415,008 |
| `liveness` | 2 replicas, late binding, 2 faults of podloss/migfail/lag/userdelete/backuploss | 91,416 |
| `all_faults` | 2 replicas x 2 volumes, late binding, PDB, invalid requests, legacy phase, 1 fault of every kind | 924,302 |
| `deletion` | 2 replicas, 2 faults of crash/podloss/migfail/lag/slow/userdelete | 740,461 |
| `campaign` | 1 StatefulSet of 1 or 2 replicas, 2 VolumeResizes of sizes 1, 2 and 3, 1 edit, deletes, cache 1 behind | 2,669,263 |
| `sharing` | 2 StatefulSets, a VolumeResize each, 2 terminals, hanging migrators of one | 343,922 |

What they show: `rolling`, that a rolling migration loses no write, copies only
still sources, fails only for a cause and repeats nothing, also when a migrator
fails, a claim outlasts the waits, the user deletes or the backup is lost;
`liveness`, that a migration ends and the pods come back, with the same safety,
when pods, migrators or the backup are lost or the user deletes; `all_faults`,
that the old volumes survive any fault and the life cycle is kept, with several
volumes and requests that are refused; `deletion`, that a delete in any state,
a crash included, leaves nothing behind, and that the backup always precedes
the delete of the StatefulSet; `campaign`, that one migration does not harm the
next, whether it was completed, failed for lack of room on its first or second
replica, or was deleted in mid-slot, with the StatefulSet edited, scaled or
restored by hand between them; `sharing`, that the sole worker gets to every
VolumeResize although the migrator of another one hangs, and that the commands
of two terminals end, whatever they do to the same VolumeResize. `campaign` and
`sharing` also look at the inductive invariants of the proofs, in instances
that meet the condition of their theorems (`MCCampaign` assumes `SteadyUse`).

Kinds of fault: *crash* (the operator restarts), *api* (a call fails without
effect, a conflict included), *podloss* (an application or migrator pod is
evicted), *migfail* (rclone fails), *lag* (the cache does not show a new
migrator pod), *slow* (a claim outlasts the sixty polls), *userdelete*,
*backuploss* (somebody deletes the ConfigMap).

**Bounds of the campaign.** Two VolumeResizes, since what is looked at is what
one leaves to the next; one asks for size 2, the other for 1 or 3, in either
order. The data of replica 0 fits into 2, that of replica 1 only into 3, so a
copy fails on the first replica, on the second, or not at all. One edit sets
the replicas to 1 or 2, so it scales up, down or not. A cache one version
behind (`Lag`) already shows each run the state before the last write of the
run before. With a cache two versions behind `NoSlotTwice`,
`SwapsOnlyStopped`, `CopiesStill` and `ClaimsKeepData` are false: a run that
read the VolumeResize before a slot was completed and its StatefulSet
recreated prepares the slot again, and creates the migrator before a write of
its own is refused. Nothing in the code rules such a lag out; that it does not
happen is an assumption about the cluster, and `Lag` is its name.

The campaign starts with as many replicas as it allows, so every replica has
its claim. Where a StatefulSet is scaled up just before, its new replica may
have none yet, and a bound of one version is not enough either: `Prepare`
fails the migration for want of a claim (controller.go:222-225); the claim is
made; a run that still reads the VolumeResize without the failure (a requeue
of an earlier write starts it) goes on, makes a temporary claim, backs the
StatefulSet up and deletes it (:281), and only then is a write refused. The
VolumeResize is Failed ("Terminal states, no action needed", :95), yet its
StatefulSet goes, and neither the annotation nor the name of the backup is
recorded. When the users, to whom the migration is over, have edited the
StatefulSet in between and a backup of an earlier replica is there, that one
is kept, and `AwayIsBackedUp` is false: with `InitReplicas = 1`, `MaxEdits = 2`
and one VolumeResize TLC shows it. It was found when a proof of
`AwayIsBackedUp` did not go through. All other properties of the campaign hold
in that instance, apart from `ReturnsAsWanted`, which says the same of the
StatefulSet that comes back.

**Habits.** The runs that pass assume what the documents ask for: one
VolumeResize per StatefulSet at a time (INSTRUCTIONS.md:9), a failed one deleted
before the next is made, names not used again, and no edit of the StatefulSet
while it is migrated. What happens otherwise (each of these was checked with
the constant `Habits`):

- *busyEdit*, an edit during a migration: `AwayIsBackedUp` and
  `ReturnsAsWanted` are false (run `stale_backup`); scaling up in the middle
  leaves the new replica at its old size, which makes `CompletesAllReplicas`
  false. No property about data is.
- *reuse*, a name used again after its VolumeResize is gone: the backup, and
  the migrator pods and temporary claims on their way out, are taken for the
  new one's. `AwayIsBackedUp`, `ReturnsAsWanted`, `ClaimsKeepData`,
  `ClaimsFit`, `FailsForLackOfRoom`, `CopiesStill` and `SwapsOnlyStopped` are
  false.
- *untidy*, a failed VolumeResize left in place: `FailsForLackOfRoom` is false,
  because the temporary claim of the failed attempt is used for the next, of
  another size (pvc.go:60-63). The other properties hold.

A retry with the size that failed is refused once replica 0 has it
(validation.go:73 asks for replica 0 alone); it takes another size, or a new
start by hand.

**Bounds of one migration.** Two replicas suffice for what one slot can do to
the next; three replicas add a middle one and the budget. One volume per
replica, except where the order of volumes matters. `NumPVs` is above what the runs can
provision: two volumes per slot, and more where a crash or a loss can have
a temporary claim made twice. Two faults, in `liveness` and `deletion`, let a
fault meet the recovery from another (a crash in the run after a crash, a lost
pod during a delete); that the old volumes survive any number of faults is
proved.
`MaxWrites` counts the write that is there at the start; 2 lets the
application write at one more moment, and 1 is used where no property reads
the data. The symmetry of volumes is broken on purpose by provisioning the
lowest free number.

**Fairness** (`FairSpec`). Weak fairness of `Reconcile`: controller-runtime's
queue calls it again after every requeue or returned error. Weak fairness of
each controller of the cluster per object: restart, start and end of a pod,
binding, removal of a claim, start, success and removal of a migrator. No
fault, no write and no delete is ever forced. `MigSucceed` fair means that
rclone ends some day when it does not fail. In `ResizeQueue` the same, and
weak fairness of the informer per name and of the polling of a watch; the work
queue is first in, first out, so nothing stronger is needed. The migrators of
a hanging VolumeResize may run for ever: the worker gives them up after an
hour, for the time being.

**Which faults a run leaves out, and why.** A passing run takes the kinds of
fault under which all its properties hold. Properties that are false under a
kind: `AppSeesItsWrites` and `CompletedSlotMoved` are broken by lag, podloss
and api through the fall-through of :322-334, and by a crash in `replacePVC`
that meets an old succeeded migrator pod still on its way out;
`CompletedHasSts`, `SourceQuiesced`, `NoSecondMigration`, `Terminates` and
`AllPodsBack` by crash and api, in the window between the swap and :386 (under
fair scheduling the operator and the StatefulSet controller can then undo each
other forever: the operator deletes the pod without the StatefulSet, which
brings it back within every wait);
`RecoveryNamed` by crash and api between :291 and :297, after which a failure
leaves the status without the name;
`AllPodsBack` by slow as well (a temporary claim that outlives the sixty polls
takes its volume back after the claimRef is cleared, and the claim that names
the volume never binds); `CleanupOnDelete` by api (the errors are ignored);
`BackupBeforeDelete` by backuploss only, and the theorem covers the rest.
`FailsOnlyForCause` is about no fault at all; an update
conflict on a volume, which the code turns into `Failed`, counts as an api
fault.

### Runs that must fail

Each shows a disagreement between the code and what its documents or comments
say; the quotes are in `PROJECT.json` under "findings".

| Run | Property | What happens |
|---|---|---|
| `two_replicas_down` | `OneReplicaDown` | the requeue at :400-403 leads to :186-208, which advances without the pod: two replicas are down |
| `crash_without_sts` | `CompletedHasSts` | crash between :353 and :377: phase Completed, no StatefulSet |
| `swap_without_copy` | `AppSeesItsWrites` | a migrator pod the cache does not show passes for a finished one: an empty volume is swapped in (the old one is kept) |
| `copy_while_running` | `SourceQuiesced` | crash between :377 and :386: the next pod is restarted under the copy |
| `reprocess_without_replicas` | `NoSecondMigration` | a StatefulSet scaled to zero: the slot is migrated again and again |
| `stale_backup` | `ReturnsAsWanted` | the backup made for replica 0 is kept for the others: an edit between two replicas is taken back |

## 5. Proofs

For every number of replicas, volumes, persistent volumes, writes and faults,
under the assumptions `SizeAssumption`, `InitPVAssumption` (the claims start
on distinct volumes) and `ControllerAssumption`; for the campaign for every
number of VolumeResizes, StatefulSets, replicas, sizes, terminals and edits,
under `RequestsAssumption`, `HabitsAssumption` and `QueueAssumption`. The
column "unless" names the kinds of fault that must not happen, and what else
the theorem asks for.

| Theorem | Module | Property | Unless |
|---|---|---|---|
| `TypeCorrect` | TypeProofs | `TypeOK` | |
| `RetentionHolds` | RetentionProofs | `RetentionInv` | |
| `OldPVAlwaysRetained` | RetentionProofs | `OldPVRetained` | |
| `OldPVOnlyGrows` | RetentionProofs | `OldPVNeverOverwritten` | |
| `LifecycleFollowed` | LifecycleProofs | `FollowsLifecycle` | |
| `NothingLeftBehind` | LifecycleProofs | `CleanupOnDelete` | api |
| `BackupAlwaysBefore` | BackupProofs | `BackupBeforeDelete` | backuploss |
| `CompletedHasItsSts` | BackupProofs | `CompletedHasSts` | api, crash |
| `RecoveryIsNamed` | BackupProofs | `RecoveryNamed` | api, crash |
| `SourceIsQuiesced` | QuiesceProofs | `SourceQuiesced` | api, crash |
| `MigratedOnce` | QuiesceProofs | `NoSecondMigration` | api, crash; no replicas |
| `AppAlwaysSeesItsWrites` | DataProofs | `AppSeesItsWrites` | api, crash, podloss, lag |
| `CompletedSlotIsMoved` | DataProofs | `CompletedSlotMoved` | api, crash, podloss, lag |
| `NoFailureWithoutCause` | DataProofs | `FailsOnlyForCause` | no replicas; a budget that allows no pod to be down |
| `QueueTypeCorrect` | QueueProofs | `QueueTypeOK` | |
| `EachResizeFollowsLifecycle` | QueueProofs | `EachFollowsLifecycle` | |
| `SlotsPreparedOnce` | QueueProofs | `NoSlotTwice` | `Lag` above 1 |
| `CursorSuccessor` | QueueProofs | for distinct names `NextCursor` is the next step of the nested loop over replicas and volumes | |
| `RepeatedNameNeverPassed` | QueueProofs | with a repeated name the cursor never leaves the entries up to the second one | |
| `CursorInOrder` | QueueProofs | for any list of names the whole walk is the nested loop iff the names are distinct | |
| `CursorAlwaysInOrder` | QueueProofs | `CursorWalksInOrder` | |
| `CampaignAlways` | CampaignProofs | `CampaignInv` | not `TidyUse` |
| `SwapsFindPodDown` | CampaignProofs | `SwapsOnlyStopped` | not `TidyUse` |
| `CopiesAreStill` | CampaignProofs | `CopiesStill` | not `TidyUse` |
| `CopiesFailForLackOfRoom` | CampaignProofs | `FailsForLackOfRoom` | not `TidyUse` |
| `ClaimsFitVolumes` | CampaignProofs | `ClaimsFit` | not `TidyUse` |
| `ClaimsKeepAllData` | CampaignProofs | `ClaimsKeepData` | not `TidyUse` |
| `ClaimsNeverGrow` | CampaignProofs | `NeverGrows` | not `TidyUse` |
| `ZeroExitIsSuccess` | CampaignProofs | `ZeroExitMeansMoved` | not `TidyUse` |
| `WantAlways` | CampaignProofs | `WantInv` | not `SteadyUse` |
| `AwayAlwaysBackedUp` | CampaignProofs | `AwayIsBackedUp` | not `SteadyUse` |
| `AlwaysReturnsAsWanted` | CampaignProofs | `ReturnsAsWanted` | not `SteadyUse` |
| `EveryReplicaCompleted` | CampaignProofs | `CompletesAllReplicas` | not `SteadyUse` |

So every invariant and every action property that a passing run checks is
proved as well. No kind of fault is left out for
convenience: in the runs of section 4 `crash_without_sts`, `swap_without_copy`
(by lag; podloss takes the same path), `copy_while_running` and
`reprocess_without_replicas` TLC shows `CompletedHasSts`, `AppSeesItsWrites`,
`SourceQuiesced` and `NoSecondMigration` violated by what their theorems
exclude. An api error has the effects of a crash at every write that is
retried, and its own at those that are ignored (`CleanupOnDelete`). With
`Lag = 2` TLC finds `NoSlotTwice` violated. The other four kinds (migfail,
slow, userdelete, backuploss) are allowed by all theorems but
`BackupAlwaysBefore`.

`FailsOnlyForCause` speaks of the time before the first fault, so its theorem
holds for any `Faults`. A budget that allows no pod to be down is itself a
cause to fail, and without replicas there is nothing to migrate.

**Type correctness is not inductive alone.** `createTempPVC` and its
successors index by `vr.cur`, so a run inside `handleSyncing` must imply the
phase Syncing and a cursor on a slot (`CursorOK`); a write of the application
or a migrator goes to the volume of a mounted claim, so what is mounted must
be bound and have a volume (`MountedOK`). `TypeInv` is the conjunction. The
proof treats the cluster's two halves (claims and volumes; pods) and the
controller's separately and joins them in `TypeStep`.

**Retention** rests on `RetentionInv`: the old volume is live and its claimRef
is its original claim; no temporary claim and no `newPVName` is that volume;
it is retained, or its claim still names it; and a run that has passed
`setRetainOnPV` has retained it. The delicate step is the original claim's
end: it can carry a deletion timestamp only after `deleteOrig`, which a run
reaches only past `setRetain` - in this run, or in an earlier one that was
cut off, in which case the policy is there already. That nothing is taken off
the old volume follows, because a migrator writes only to the volume of a
temporary claim.

**The life cycle** is a refinement: the initial states map to initial states,
and every step to a step of `MigrationLifecycle` or to one that shows nothing.
It rests on `CycleInv`: a run belongs to a VolumeResize that exists (`RunInv`);
nothing is recorded before the first slot (`StartInv`); the completed slots
are those before the cursor and perhaps its own (`OrderInv`); the phase a run
holds in memory agrees with the stored one at each of its steps (`MemInv`:
`AnnotateSTSDeleted` overwrites the one by the other, and without this a
failure could record a slot as not completed again). `NextSlot` and
`HigherReplica` are shown to be the successor in the order of the ranks.

**Nothing left behind** rests on `CleanInv`: without a finalizer there never
was a temporary claim or a migrator; past its step of `handleDeletion` each of
them is on its way out; and a migrator the cache does not show is one this run
has just made, so `DeleteMigrators` sees the rest. A crash may fall on any of
these steps: the finalizer is still there and the deletion begins again.

**The StatefulSet.** Before it is deleted a run has made the backup
(`BackupInv`). In a run that is not cut short it is away between `deleteSTS`
and `recreateSTS` and there on both sides (`StsInv`), and the annotation says
so; hence Completed has it. The name of the backup is stored before anything
can fail while it is away (`NameInv`).

**Still sources.** From the end of `WaitForPodTermination` until the
StatefulSet is back, the pod of the cursor's slot is absent (`PodInv`), and a
migrator that may copy belongs to such a slot, or to a migration that is over
with the StatefulSet away (`QuietInv`).

**One migration per slot** rests on `ClaimInv`: the claim of a slot is on
another volume than at the start (`Moved`) only when the slot is done or the
migration is over, and a slot that is done has moved; the claim is missing
(`Lost`) only inside the swap of its own slot. `Over` is stable.

**The data.** `DataInv` says where every acknowledged write of a slot is: on
its *home*, the volume its claim is on (`Home`); in what a running migrator
has read, as long as it runs; on the target of one that succeeded; and from
there on `newPVName` until the claim names it. It is preserved because the
temporary claim belongs to the cursor's slot and is told to go by the swap
only (`TempInv`), because the migrator of a slot is seen, runs while pod and
StatefulSet are away, and is told to go after it has succeeded (`BusyInv`),
and because no two slots share a volume (`SepInv`). lag and podloss are excluded
by the conjuncts of `BusyInv` that say the operator finds the migrator it
made: those are the two ways into the fall-through of :322-334.

**No failure without a cause** adds `FineInv`, under the condition that no
fault has happened yet: the volume of every temporary claim is live and its
claimRef is that claim, so `RetainNewPV` and `ClearClaimRef` find it;
migrators that count have not failed; the old volume a run remembers is the
one its claim had. That the budget is met at validation needs the
cardinality of the set of running pods (`FiniteSetTheorems`).

**The campaign.** `QueueInv` adds to the types what each stored version shows
(`VersionOK`: nothing done before the migration starts, then the slots up to
the cursor) and that a run works on a version of the phase its step belongs
to (`RunOK`). A lagging cache needs no bound here: a write over a copy that is
not the stored version is refused, so each write that is stored is one over
the copy, hence legal over the stored version (`AllLegal`), hence a step of the
life cycle. That holds for every `Lag` and all `Habits`. `NoSlotTwice` is
about what a stale run does before it is refused, and needs `Lag = 1`: only
the swap adds a slot to those completed, the run that swapped waits with its
next write until the cache shows the completion, and there is one worker
(`SeenInv`).

**The data of a campaign.** `TidyUse` is what these theorems ask for:
`Lag = 1`; names are not used again and a failed VolumeResize is deleted before
the next one (no *reuse*, no *untidy*); and a name is for one StatefulSet.
`SteadyUse` adds that nobody edits a StatefulSet during its migration (no
*busyEdit*) and that every replica has its claim from the start
(`InitReplicas = MaxReplicas`). Section 4 says which property TLC finds
violated without each of them, the last of `TidyUse` apart: a `volmig create`
is a read and then a write, and between them another terminal may create and
delete a VolumeResize of the same name, so that even without *reuse* a name can
have two lives. When both would be about one StatefulSet it cannot, since nobody
starts a second `create` about a StatefulSet while one is under way
(`CheckName`). The instance of `campaign` meets both
conditions, that of `sharing` does too; the theorems hold for any number of
everything. The edits and recoveries by hand between migrations, deletes in
mid-slot, copies that fail, migrators that hang and stale copies are all in.

None of the properties is inductive, because each depends on what a run, or the
migration before, did many steps ago. `CampaignInv` says what that is, one
conjunct per kind of object:

- `VersionsInv`: versions of a VolumeResize, stored, cached and in a run, agree
  in themselves (finalizer, deletion, phase, annotation).
- `CreateInv`, `AloneInv`: of the VolumeResizes about one StatefulSet all but
  one are Completed, and a `create` under way adds none.
- `CacheInv`, `HoldsInv`: how the copy a run starts from, and the one it
  holds, differ from what is stored. By a delete; or by a failure, but then the
  run gets neither to the swap nor past the delete of the StatefulSet: the
  migration failed at a copy, then the migrator that failed is still there and
  the run finds it (`Bad`); or for want of a claim (`Bare`), then a write is
  refused before. This is where stale runs are dealt with, and where `Lag = 1`
  is needed.
- `AwayInv`, `BackupInv`: the annotation says whether the StatefulSet is there;
  a backup is there when it is needed, and of the right StatefulSet.
- `MoverInv`: a migrator that is to copy belongs to the cursor's slot, whose
  pod is down; one that was told to go has done its slot, or its VolumeResize
  goes; one that failed had too little room.
- `TempInv`: a temporary claim is of its owner's size and for its cursor's slot,
  and is full when a copy of it counts.
- `ClaimInv`, `LeastInv`: claims hold their data, fit their volumes and are of
  the new size where a migration has been; the claim of replica 0 is the
  least, and no template or backup of one is smaller, so a replica scaled up
  later gets none that is.

The proof first says, per step of `Reconcile`, what it does to each object
(`SwapIs`, `AwaitIs`, ...) and which of three ways it goes: it ends without a
write, it goes on, or it writes a version (`RunShape`); then, per conjunct, what
the other conjuncts must say for it to survive. `WantInv` adds, under
`SteadyUse`, what the users wrote: the StatefulSet that is there agrees with
it, and so does the backup of a migration under way or of the one that took it
away; the replicas counted at validation are those users want; after the last
swap the template has the new size. TLC checks `WantInv` in the run
`campaign` and `CampaignInv` in `sharing`. In the instance of `campaign`, and in
others with `InitReplicas = 1`, which `TidyUse` allows, it found `CampaignInv`
to hold as well: for two VolumeResizes, and for one with *busyEdit* and two
edits.

`QueueAssumption` says, besides what bounds the constants, that the value the
model uses for no name is not the name of a VolumeResize.

**Cursor**: `FirstIndexOfEntry` gives the least index of a name, from the
well-foundedness of the natural numbers; with distinct names it is the index
itself, with a repeated one it is below the second entry, so its successor is
not beyond it. The whole walk is a function defined by recursion, of which
`WalkExists` and `WalkUnique` show that there is exactly one, by a least
counterexample each: with distinct names the nested loop is that function
(`LoopWalks`, division and remainder by the number of volumes); with a repeated
name it is not, because the walk stays with the first entries (`WalkStays`) and
never comes to the end.

**Only model-checked.** Liveness under fairness is beyond the prover:
`Terminates`, `AllPodsBack`, `EveryRequestEnds` and `WatchersEnd`.

## 6. Not modelled

- Crashes and failing calls together with several VolumeResizes: they are
  modelled for one, where every write is a step of its own. Several volumes per
  replica together with several VolumeResizes: `volmig` names one volume.
- Two VolumeResizes of one StatefulSet at the same time, which the documents
  rule out (INSTRUCTIONS.md:9) and the code does not prevent.
- Claims of others in the same storage class, which may take a volume between
  `ClearClaimRef` and `CreateOrigPVC`.
- Which PodDisruptionBudgets select the pods: there is one, and it does. A
  budget that shrinks during a migration: the code does not look again.
- A failed migration leaves the StatefulSet deleted and its replica down. The
  README of the repository speaks of "automatic rollback" in one place and of
  manual recovery from the backup in another; no property takes a side, but
  the backup the recovery needs is covered by `BackupBeforeDelete`,
  `AwayIsBackedUp` and `RecoveryNamed`.
- rclone's flags and the layout of directories; resources and images of pods;
  storage classes.
- Two managers without leader election. `volmig list` and `describe`, which read
  once and print; output of the other commands; flags and kubeconfig; metrics,
  probes, webhooks, RBAC, generated code, scripts and tests.

## 7. Plan

Done: the operator, its cluster and its life cycle, one write at a time, with
faults; the campaign of several VolumeResizes with the work queue, the lagging
cache and the command line; the cursor for any list of volumes; and every
safety property of both specifications proved.

What could follow: a campaign in which calls fail and the operator restarts
(section 6), of interest once the code closes the windows that section 4 shows;
and a refinement of `VolumeResizeController` to one VolumeResize of
`ResizeQueue`, which would turn the division of labour between the two
specifications into a theorem.
