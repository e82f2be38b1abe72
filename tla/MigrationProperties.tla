-------------------------- MODULE MigrationProperties --------------------------
(***************************************************************************)
(* The properties of the volume-resize operator: what a user of a          *)
(* StatefulSet under migration relies on.                                  *)
(***************************************************************************)
EXTENDS VolumeResizeController

(* Every variable keeps its type (the shapes of the API objects and locals). *)
TypeOK == ClusterTypeOK /\ ControllerTypeOK
-----------------------------------------------------------------------------
(* The data. *)

(* An application pod that runs finds every write it ever had acknowledged
   on the volume its claim names: replacePVC never swaps in less than was
   there, whatever was written between the copy and the swap. *)
AppSeesItsWrites ==
    \A s \in Slots : pod[s[1]] = "running" => WholeOn(s, pvc[orig(s)].pv)

(* A slot persisted as Completed (volumeresize_controller.go:349-353) has
   its original claim back, on another volume than before, and that volume
   holds every acknowledged write. *)
CompletedSlotMoved ==
    \A s \in Slots : vr.vs[s] = "Completed" =>
        /\ pvc[orig(s)].st # "absent" /\ ~ pvc[orig(s)].term
        /\ pvc[orig(s)].pv # InitPV[s]
        /\ WholeOn(s, pvc[orig(s)].pv)

(* While a migrator copies a volume no pod writes to it, not even one that is
   terminating: the order deletePod, waitForPodTermination, createMigratorPod
   keeps the source still although the StatefulSet controller restarts pods. *)
SourceQuiesced ==
    \A s \in Slots : mig[s].st = "running"
                        => pod[s[1]] \notin {"running", "terminating"}

Retained(s) == pv[InitPV[s]].policy = "Retain"
OnOldPV(s) ==
    /\ pvc[orig(s)].st # "absent" /\ ~ pvc[orig(s)].term
    /\ pvc[orig(s)].pv = InitPV[s]

(* The volume a slot had at the start outlives everything the operator does
   and every fault: setRetainOnPV comes before the claim can go. *)
OldPVRetained ==
    \A s \in Slots :
        /\ pv[InitPV[s]].st = "live"
        /\ Retained(s) \/ OnOldPV(s)

(* Nothing is ever taken off the volume a slot had at the start: no migrator
   writes to it, even when a migration is run again after a crash. *)
OldPVNeverOverwritten ==
    [][\A s \in Slots : pv[InitPV[s]].data \subseteq pv'[InitPV[s]].data]_vars
-----------------------------------------------------------------------------
(* The StatefulSet. *)

(* Whenever the StatefulSet is away its spec is in the backup ConfigMap
   ("Backup STS spec to ConfigMap BEFORE any changes"). *)
BackupBeforeDelete == ~ sts => backup

(* A migration that reports Completed has brought the StatefulSet back. *)
CompletedHasSts == vr.exists /\ vr.phase = "Completed" => sts
(* A migration that failed while the StatefulSet is away says in its status
   where the backup is that a recovery by hand starts from. *)
RecoveryNamed == vr.exists /\ vr.phase = "Failed" /\ ~ sts => vr.backupName
-----------------------------------------------------------------------------
(* Progress through the slots. *)

(* A slot whose claim names its new volume is not migrated a second time: the
   Completed status is persisted before anything can send the run back. *)
NoSecondMigration ==
    [][\A s \in Slots :
          pvc[temp(s)].st = "absent" /\ pvc'[temp(s)].st # "absent"
             => pvc[orig(s)].pv = InitPV[s]]_vars

Lifecycle == INSTANCE MigrationLifecycle WITH
    AllSlots <- Slots,
    phase <- IF vr.exists THEN vr.phase ELSE "Gone",
    cur <- vr.cur,
    done <- {s \in Slots : vr.vs[s] = "Completed"}

(* The operator implements the life cycle: slots completed in order and
   once each, Completed only after all of them, terminal phases final. *)
FollowsLifecycle == Lifecycle!LifecycleSpec

(* Without a fault a valid request never fails: none of the races with the
   cluster's own controllers (the reclaim of the temporary claim's volume,
   pvc.go:149-150, late binding, claims made again by the StatefulSet
   controller) drives the operator into setFailed. *)
FailsOnlyForCause == faults = 0 /\ vr.request = "valid" => vr.phase # "Failed"

(* Every migration comes to an end, or the user's delete does. *)
Terminates == <>(vr.phase \in Terminal \/ ~ vr.exists)

(* After a migration that completed, all the pods are back for good. *)
AllPodsBack ==
    vr.phase = "Completed" ~> [](\A r \in Ordinals : r < Replicas => pod[r] = "running")
-----------------------------------------------------------------------------
(* Deletion. *)

(* When handleDeletion has let a VolumeResize go, no temporary claim and no
   migrator pod is left behind that is not on its way out. *)
CleanupOnDelete ==
    ~ vr.exists => \A s \in Slots :
        /\ pvc[temp(s)].st # "absent" => pvc[temp(s)].term
        /\ mig[s].st # "absent" => mig[s].del
-----------------------------------------------------------------------------
(* What the inductive proofs add to the properties above. *)

(* A run of handleSyncing has a slot of the StatefulSet to work on. *)
RunOfSyncing == SyncSteps \cup ReplaceSteps \cup ReturnSteps
CursorOK ==
    /\ vr.phase = "Syncing" => vr.cur \in Slots
    /\ run.pc \in RunOfSyncing => vr.phase = "Syncing"

(* What a pod mounts is a bound claim, and a bound claim has a volume. *)
MountedOK ==
    /\ \A c \in Claims : Mounted(c) => pvc[c].st = "bound"
    /\ \A c \in Claims : pvc[c].st = "bound" => pvc[c].pv # NoPV

(* Why the old volumes are safe: each is reserved for its original claim, no
   temporary claim and no swap is about it, and a run that has passed
   setRetainOnPV, the only kind that deletes the original claim, has set its
   policy to Retain. *)
RetentionInv ==
    \A s \in Slots :
        /\ pv[InitPV[s]].st = "live" /\ pv[InitPV[s]].claim = orig(s)
        /\ Retained(s) \/ OnOldPV(s)
        /\ \A t \in Slots : pvc[temp(t)].pv # InitPV[s]
        /\ run.newPV # InitPV[s]
        /\ vr.cur = s /\ run.pc \in {"createTempPVC", "setRetain"}
              => Retained(s) \/ run.oldPV = InitPV[s]
        /\ vr.cur = s /\ run.pc \in RunOfSyncing \ {"createTempPVC", "setRetain"}
              => Retained(s)
-----------------------------------------------------------------------------
(* Promises of the documentation that the code breaks (see the README). *)

(* "One replica at a time - your app stays up". *)
OneReplicaDown == Cardinality(Running) >= Replicas - 1
=============================================================================
