------------------------ MODULE VolumeResizeController ------------------------
(***************************************************************************)
(* The volume-resize operator: Reconcile and its handlers, for one         *)
(* VolumeResize, acting on module Cluster.                                 *)
(*                                                                         *)
(* SetupWithManager gives the controller one worker, so one call of        *)
(* Reconcile is under way at a time; "run" is that call: where it is and   *)
(* the locals it carries from one API call to the next.  Every step of a   *)
(* run is one write to the API server together with the reads since the    *)
(* write before it, so other actors interleave between any two writes, and *)
(* a crash or an API error can fall on each of them.                       *)
(***************************************************************************)
EXTENDS Cluster

CONSTANTS
    MinAvailable,  \* minAvailable of the pods' PodDisruptionBudget; 0: no budget
    InitPhases,    \* phases the VolumeResize may be found in
    Requests       \* kinds of spec the user may have written

ASSUME ControllerAssumption ==
    /\ MinAvailable \in Nat
    /\ InitPhases \subseteq {"Pending", "Replacing"}
    /\ Requests \subseteq {"valid", "unknownVolume", "notSmaller"}

VARIABLES
    vr,   \* the VolumeResize as the API server has it
    run   \* the call of Reconcile under way

vars == <<sts, backup, pod, mig, pvc, pv, acked, faults, vr, run>>

NoSlot == << >>

Phases == {"Pending", "Validating", "Syncing", "Replacing", "Completed", "Failed"}
SlotPhases == {"none", "Pending", "Syncing", "Synced", "Completed"}
Terminal == {"Completed", "Failed"}

(***************************************************************************)
(* Where a run can be: the write it is about to make, or the wait it is    *)
(* in.  "idle" is between two calls of Reconcile.                          *)
(***************************************************************************)
SyncSteps ==
    {"createTempPVC", "setRetain", "backupSTS", "deleteSTS", "annotateSTS",
     "recordBackup", "deletePod", "waitPod", "createMigrator", "waitMigrator",
     "recheckMigrator", "cleanupMigrator"}
ReplaceSteps ==
    {"retainNewPV", "deleteTemp", "waitTemp", "clearClaimRef", "deleteOrig",
     "waitOrig", "createOrig"}
ReturnSteps == {"persistCompleted", "recreateSTS", "clearAnnotation", "checkPod"}
DeletionSteps == {"deleteTempPVCs", "deleteMigrators", "removeFinalizer"}
Steps == {"idle", "setFailed"} \cup SyncSteps \cup ReplaceSteps
         \cup ReturnSteps \cup DeletionSteps

Idle == [pc |-> "idle", oldPV |-> NoPV, newPV |-> NoPV, mem |-> "none"]

VRRecords  == [exists : BOOLEAN, deleting : BOOLEAN, finalizer : BOOLEAN,
               phase : Phases, cur : Slots \cup {NoSlot},
               vs : [Slots -> SlotPhases], stsDeleted : BOOLEAN,
               backupName : BOOLEAN, request : Requests]
RunRecords == [pc : Steps, oldPV : PVs \cup {NoPV}, newPV : PVs \cup {NoPV},
               mem : SlotPhases]

ControllerTypeOK == vr \in VRRecords /\ run \in RunRecords

Init ==
    /\ ClusterInit
    /\ \E ph \in InitPhases, req \in Requests :
          vr = [exists |-> TRUE, deleting |-> FALSE, finalizer |-> FALSE,
                phase |-> ph, cur |-> NoSlot, vs |-> [s \in Slots |-> "none"],
                stsDeleted |-> FALSE, backupName |-> FALSE, request |-> req]
    /\ run = Idle
-----------------------------------------------------------------------------
(* Control flow inside a run. *)

At(pc)   == run.pc = pc
Goto(pc) == run' = [run EXCEPT !.pc = pc]
Return   == run' = Idle
Fail     == Goto("setFailed")
Stored   == IF vr.cur = NoSlot THEN "none" ELSE vr.vs[vr.cur]
Begin(pc, old) == run' = [pc |-> pc, oldPV |-> old, newPV |-> NoPV, mem |-> Stored]

(***************************************************************************)
(* Update and Status().Update carry the resourceVersion read at the start  *)
(* of the run; the user's delete is the one other writer, so they are      *)
(* refused from then on and the handler returns the error.                 *)
(***************************************************************************)
WriteVR(new, next) ==
    IF vr.deleting THEN Return /\ UNCHANGED vr
                   ELSE vr' = new /\ (IF next = "idle" THEN Return ELSE Goto(next))

(* The status a run writes back: as read, but for the slot it works on. *)
SetSlot(old, s, phase) ==
    IF s = NoSlot THEN old
    ELSE [old EXCEPT !.vs[s] = IF @ = "none" THEN @ ELSE phase]
-----------------------------------------------------------------------------
(* The cursor: getNextVolumeReplica, for distinct volume names. *)

(* Mutant: one replica too many. *)
SameOrHigherReplica(s) == \E t \in Slots : vr.vs[t] # "none" /\ t[1] >= s[1]

(* currentReplica < maxReplica, the highest replica of the volume statuses. *)
HigherReplica(s) == \E t \in Slots : vr.vs[t] # "none" /\ t[1] > s[1]

(* Mutant: only one volume of a replica. *)
NextSlotOneVolume(s) == IF HigherReplica(s) THEN <<s[1] + 1, 1>> ELSE NoSlot

NextSlot(s) ==
    IF s[2] < NumVolumes THEN <<s[1], s[2] + 1>>
    ELSE IF HigherReplica(s) THEN <<s[1] + 1, 1>>
    ELSE NoSlot

Advanced ==
    IF NextSlot(vr.cur) = NoSlot
    THEN [vr EXCEPT !.phase = "Completed", !.cur = NoSlot]
    ELSE [vr EXCEPT !.cur = NextSlot(vr.cur)]
-----------------------------------------------------------------------------
(* Reconcile up to the phase handlers, and the handlers of a single write. *)

CanReconcile(phase) ==
    /\ At("idle")
    /\ vr.exists /\ ~ vr.deleting /\ vr.finalizer
    /\ vr.phase = phase

AddFinalizer ==
    /\ At("idle")
    /\ vr.exists /\ ~ vr.deleting /\ ~ vr.finalizer
    /\ vr' = [vr EXCEPT !.finalizer = TRUE]
    /\ UNCHANGED <<clusterVars, run>>

HandlePending ==
    /\ CanReconcile("Pending")
    /\ vr' = [vr EXCEPT !.phase = "Validating", !.vs = [s \in Slots |-> "none"]]
    /\ UNCHANGED <<clusterVars, run>>

DisruptionsAllowed == MinAvailable = 0 \/ Cardinality(Running) - MinAvailable >= 1

Valid ==
    /\ sts
    /\ vr.request = "valid"
    /\ \A v \in 1 .. NumVolumes : pvc[orig(<<0, v>>)].st # "absent"
    /\ DisruptionsAllowed

HandleValidating ==
    /\ CanReconcile("Validating")
    /\ \/ /\ Valid
          /\ vr' = [vr EXCEPT !.phase = "Syncing", !.cur = <<0, 1>>,
                              !.vs = [s \in Slots |-> IF s[1] < Replicas
                                                      THEN "Pending" ELSE @[s]]]
          /\ UNCHANGED run
       \/ /\ ~ Valid
          /\ Begin("setFailed", NoPV)
          /\ UNCHANGED vr
    /\ UNCHANGED clusterVars

HandleReplacing ==
    /\ CanReconcile("Replacing")
    /\ vr' = [vr EXCEPT !.phase = "Completed"]
    /\ UNCHANGED <<clusterVars, run>>

SetFailed ==
    /\ At("setFailed")
    /\ WriteVR(SetSlot([vr EXCEPT !.phase = "Failed"], vr.cur, run.mem), "idle")
    /\ UNCHANGED clusterVars
-----------------------------------------------------------------------------
(* handleSyncing, on the slot vr.cur. *)

CurOrig == orig(vr.cur)
CurTemp == temp(vr.cur)
CurPod  == pod[vr.cur[1]]

(* The slot was completed before: advance without looking at its pod. *)
AdvanceCompleted ==
    /\ CanReconcile("Syncing") /\ Stored = "Completed"
    /\ vr' = Advanced
    /\ UNCHANGED <<clusterVars, run>>

GetOriginalPVC ==
    /\ CanReconcile("Syncing") /\ Stored # "Completed"
    /\ \/ pvc[CurOrig].st # "absent" /\ Begin("createTempPVC", pvc[CurOrig].pv)
       \/ pvc[CurOrig].st = "absent" /\ Begin("setFailed", NoPV)
    /\ UNCHANGED <<clusterVars, vr>>

MustWaitForBinding == BindingMode = "Immediate" /\ pvc[CurTemp].st # "bound"

CreateTempPVC ==
    /\ At("createTempPVC")
    /\ pvc' = [pvc EXCEPT ![CurTemp] =
                 IF @.st = "absent" THEN [@ EXCEPT !.st = "pending"] ELSE @]
    /\ IF MustWaitForBinding THEN Return ELSE Goto("setRetain")
    /\ UNCHANGED <<sts, backup, pod, mig, pv, acked, faults, vr>>

Live(p) == p # NoPV /\ pv[p].st = "live"

(* Mutant: the old volume keeps its reclaim policy. *)
OldPVNotRetained ==
    /\ At("setRetain")
    /\ run' = [run EXCEPT !.mem = "Syncing",
                          !.pc = IF ~ vr.stsDeleted /\ sts
                                 THEN "backupSTS" ELSE "deletePod"]
    /\ UNCHANGED <<clusterVars, vr>>

SetRetainOnPV ==
    /\ At("setRetain")
    /\ \/ /\ Live(run.oldPV)
          /\ pv' = [pv EXCEPT ![run.oldPV].policy = "Retain"]
          /\ run' = [run EXCEPT !.mem = "Syncing",
                                !.pc = IF ~ vr.stsDeleted /\ sts
                                       THEN "backupSTS" ELSE "deletePod"]
       \/ ~ Live(run.oldPV) /\ Fail /\ UNCHANGED pv
    /\ UNCHANGED <<sts, backup, pod, mig, pvc, acked, faults, vr>>

(* Mutant: the StatefulSet goes before its backup is made. *)
BackupForgotten ==
    /\ At("backupSTS")
    /\ Goto("deleteSTS")
    /\ UNCHANGED <<clusterVars, vr>>

BackupSTS ==
    /\ At("backupSTS")
    /\ backup' = TRUE
    /\ Goto("deleteSTS")
    /\ UNCHANGED <<sts, pod, mig, pvc, pv, acked, faults, vr>>

(* Mutant: the delete is only marked, not made. *)
STSNotDeleted ==
    /\ At("deleteSTS")
    /\ Goto("annotateSTS")
    /\ UNCHANGED <<clusterVars, vr>>

DeleteSTSOrphan ==
    /\ At("deleteSTS")
    /\ sts' = FALSE
    /\ Goto("annotateSTS")
    /\ UNCHANGED <<backup, pod, mig, pvc, pv, acked, faults, vr>>

(* The response to Update brings the stored status back into memory. *)
AnnotateSTSDeleted ==
    /\ At("annotateSTS")
    /\ IF vr.deleting
       THEN Return /\ UNCHANGED vr
       ELSE /\ vr' = [vr EXCEPT !.stsDeleted = TRUE]
            /\ run' = [run EXCEPT !.pc = "recordBackup", !.mem = Stored]
    /\ UNCHANGED clusterVars

(* Mutant: the name of the ConfigMap is not written. *)
NameNotRecorded ==
    /\ At("recordBackup")
    /\ WriteVR(SetSlot(vr, vr.cur, run.mem), "deletePod")
    /\ UNCHANGED clusterVars

RecordBackup ==
    /\ At("recordBackup")
    /\ WriteVR(SetSlot([vr EXCEPT !.backupName = TRUE], vr.cur, run.mem),
               "deletePod")
    /\ UNCHANGED clusterVars

(* A pod that has not started goes at once. *)
DeletePod ==
    /\ At("deletePod")
    /\ pod' = [pod EXCEPT ![vr.cur[1]] = IF @ \in {"absent", "pending"}
                                        THEN "absent" ELSE "terminating"]
    /\ Goto("waitPod")
    /\ UNCHANGED <<sts, backup, mig, pvc, pv, acked, faults, vr>>

(* Mutant: the migrator starts without waiting for the pod to go. *)
PodNotAwaited ==
    /\ At("waitPod")
    /\ Goto("createMigrator")
    /\ UNCHANGED <<clusterVars, vr>>

WaitForPodTermination ==
    /\ At("waitPod")
    /\ \/ CurPod = "absent" /\ Goto("createMigrator")
       \/ CurPod # "absent" /\ Return
    /\ UNCHANGED <<clusterVars, vr>>
-----------------------------------------------------------------------------
(* The migrator pod, as the operator's cached client shows it. *)

Visible(s) == mig[s].st # "absent" /\ mig[s].seen

CreateMigratorPod ==
    /\ At("createMigrator")
    /\ \/ /\ mig[vr.cur].st = "absent"
          /\ \E seen \in BOOLEAN :
                /\ mig' = [mig EXCEPT ![vr.cur] =
                             [NoMig EXCEPT !.st = "pending", !.seen = seen]]
                /\ IF seen THEN UNCHANGED faults ELSE Fault("lag")
          /\ Goto("waitMigrator")
       \/ /\ Visible(vr.cur)
          /\ Goto("waitMigrator")
          /\ UNCHANGED <<mig, faults>>
       \/ /\ mig[vr.cur].st # "absent" /\ ~ mig[vr.cur].seen
          /\ Fail
          /\ UNCHANGED <<mig, faults>>
    /\ UNCHANGED <<sts, backup, pod, pvc, pv, acked, vr>>

WaitForMigrationComplete ==
    /\ At("waitMigrator")
    /\ IF Visible(vr.cur) /\ mig[vr.cur].st = "succeeded"
       THEN Goto("cleanupMigrator") ELSE Goto("recheckMigrator")
    /\ UNCHANGED <<clusterVars, vr>>

(* Mutant: a failed migrator pod is taken for a finished one. *)
FailureIgnored ==
    /\ At("recheckMigrator")
    /\ IF Visible(vr.cur) /\ mig[vr.cur].st \in {"pending", "running"}
       THEN Return ELSE Goto("cleanupMigrator")
    /\ UNCHANGED <<clusterVars, vr>>

(***************************************************************************)
(* After an error of the wait: only a pod that is there and running,       *)
(* pending or failed stops the run; every other answer goes on to the swap.*)
(***************************************************************************)
RecheckMigrator ==
    /\ At("recheckMigrator")
    /\ \/ Visible(vr.cur) /\ mig[vr.cur].st \in {"pending", "running"} /\ Return
       \/ Visible(vr.cur) /\ mig[vr.cur].st = "failed" /\ Fail
       \/ /\ ~ Visible(vr.cur) \/ mig[vr.cur].st = "succeeded"
          /\ Goto("cleanupMigrator")
    /\ UNCHANGED <<clusterVars, vr>>

CleanupMigratorPod ==
    /\ At("cleanupMigrator")
    /\ mig' = [mig EXCEPT ![vr.cur].del = mig[vr.cur].st # "absent"]
    /\ run' = [run EXCEPT !.pc = "retainNewPV", !.mem = "Synced"]
    /\ UNCHANGED <<sts, backup, pod, pvc, pv, acked, faults, vr>>
-----------------------------------------------------------------------------
(* replacePVC. *)

DeleteClaim(c) == pvc' = [pvc EXCEPT ![c].term = pvc[c].st # "absent"]

(* Mutant: the new volume keeps its reclaim policy. *)
NewPVNotRetained ==
    /\ At("retainNewPV")
    /\ Live(pvc[CurTemp].pv)
    /\ run' = [run EXCEPT !.pc = "deleteTemp", !.newPV = pvc[CurTemp].pv]
    /\ UNCHANGED <<clusterVars, vr>>

RetainNewPV ==
    /\ At("retainNewPV")
    /\ LET p == pvc[CurTemp].pv
       IN  \/ /\ Live(p) /\ pvc[CurOrig].st # "absent"
              /\ pv' = [pv EXCEPT ![p].policy = "Retain"]
              /\ run' = [run EXCEPT !.pc = "deleteTemp", !.newPV = p]
           \/ /\ ~ (Live(p) /\ pvc[CurOrig].st # "absent")
              /\ Fail
              /\ UNCHANGED pv
    /\ UNCHANGED <<sts, backup, pod, mig, pvc, acked, faults, vr>>

DeleteTempPVC ==
    /\ At("deleteTemp")
    /\ DeleteClaim(CurTemp)
    /\ Goto("waitTemp")
    /\ UNCHANGED <<sts, backup, pod, mig, pv, acked, faults, vr>>

(***************************************************************************)
(* Sixty polls; then the code goes on as if the claim were gone.  A claim  *)
(* that only pods on their way out mount goes within the minute, unless    *)
(* the cluster is slow.                                                    *)
(***************************************************************************)
WaitClaimGone(pc, c, next) ==
    /\ At(pc)
    /\ \/ pvc[c].st = "absent" /\ UNCHANGED faults
       \/ Held(c) /\ UNCHANGED faults
       \/ pvc[c].st # "absent" /\ ~ Held(c) /\ Fault("slow")
    /\ Goto(next)
    /\ UNCHANGED <<sts, backup, pod, mig, pvc, pv, acked, vr>>

WaitTempGone == WaitClaimGone("waitTemp", CurTemp, "clearClaimRef")
WaitOrigGone == WaitClaimGone("waitOrig", CurOrig, "createOrig")

(* Mutant: the new volume stays reserved for the claim that is gone. *)
ClaimRefKept ==
    /\ At("clearClaimRef")
    /\ Goto("deleteOrig")
    /\ UNCHANGED <<clusterVars, vr>>

ClearClaimRef ==
    /\ At("clearClaimRef")
    /\ \/ /\ Live(run.newPV)
          /\ pv' = [pv EXCEPT ![run.newPV].claim = Unclaimed]
          /\ Goto("deleteOrig")
       \/ ~ Live(run.newPV) /\ Fail /\ UNCHANGED pv
    /\ UNCHANGED <<sts, backup, pod, mig, pvc, acked, faults, vr>>

DeleteOrigPVC ==
    /\ At("deleteOrig")
    /\ DeleteClaim(CurOrig)
    /\ Goto("waitOrig")
    /\ UNCHANGED <<sts, backup, pod, mig, pv, acked, faults, vr>>

(* Mutant: AlreadyExists is tolerated. *)
OldClaimAccepted ==
    /\ At("createOrig")
    /\ pvc' = [pvc EXCEPT ![CurOrig] =
                 IF @.st = "absent"
                 THEN [st |-> "pending", term |-> FALSE, pv |-> run.newPV] ELSE @]
    /\ run' = [run EXCEPT !.pc = "persistCompleted", !.mem = "Completed"]
    /\ UNCHANGED <<sts, backup, pod, mig, pv, acked, faults, vr>>

CreateOrigPVC ==
    /\ At("createOrig")
    /\ \/ /\ pvc[CurOrig].st = "absent"
          /\ pvc' = [pvc EXCEPT ![CurOrig] =
                       [st |-> "pending", term |-> FALSE, pv |-> run.newPV]]
          /\ run' = [run EXCEPT !.pc = "persistCompleted", !.mem = "Completed"]
       \/ pvc[CurOrig].st # "absent" /\ Fail /\ UNCHANGED pvc
    /\ UNCHANGED <<sts, backup, pod, mig, pv, acked, faults, vr>>
-----------------------------------------------------------------------------
(* handleSyncing again: bring the replica back and advance. *)

(* Mutants: no write before the StatefulSet is back; the cursor advances in the
   same write. *)
CompletedNotPersisted ==
    /\ At("persistCompleted")
    /\ Goto("recreateSTS")
    /\ UNCHANGED <<clusterVars, vr>>
PersistAndAdvance ==
    /\ At("persistCompleted")
    /\ WriteVR(SetSlot(Advanced, vr.cur, run.mem), "recreateSTS")
    /\ UNCHANGED clusterVars

PersistCompleted ==
    /\ At("persistCompleted")
    /\ WriteVR(SetSlot(vr, vr.cur, run.mem), "recreateSTS")
    /\ UNCHANGED clusterVars

RecreateSTS ==
    /\ At("recreateSTS")
    /\ \/ backup /\ sts' = TRUE /\ Goto("clearAnnotation")
       \/ ~ backup /\ Fail /\ UNCHANGED sts
    /\ UNCHANGED <<backup, pod, mig, pvc, pv, acked, faults, vr>>

ClearAnnotation ==
    /\ At("clearAnnotation")
    /\ WriteVR([vr EXCEPT !.stsDeleted = FALSE], "checkPod")
    /\ UNCHANGED clusterVars

(* A pod that is told to go is in phase Running until it is gone. *)
CheckPodAndAdvance ==
    /\ At("checkPod")
    /\ \/ CurPod \in {"running", "terminating"} /\ WriteVR(Advanced, "idle")
       \/ CurPod \notin {"running", "terminating"} /\ Return /\ UNCHANGED vr
    /\ UNCHANGED clusterVars
-----------------------------------------------------------------------------
(* handleDeletion: the errors of its deletes are logged and forgotten. *)

BeginDeletion ==
    /\ At("idle") /\ vr.exists /\ vr.deleting
    /\ Begin("deleteTempPVCs", NoPV)
    /\ UNCHANGED <<clusterVars, vr>>

(* Mutant: the migrator pods are not listed. *)
MigratorsForgotten ==
    /\ At("deleteTempPVCs")
    /\ pvc' = [c \in Claims |-> IF c[2] = "temp"
                 THEN [pvc[c] EXCEPT !.term = pvc[c].st # "absent"] ELSE pvc[c]]
    /\ Goto("removeFinalizer")
    /\ UNCHANGED <<sts, backup, pod, mig, pv, acked, faults, vr>>

DeleteTempPVCs ==
    /\ At("deleteTempPVCs")
    /\ pvc' = [c \in Claims |-> IF c[2] = "temp"
                 THEN [pvc[c] EXCEPT !.term = pvc[c].st # "absent"] ELSE pvc[c]]
    /\ Goto("deleteMigrators")
    /\ UNCHANGED <<sts, backup, pod, mig, pv, acked, faults, vr>>

DeleteMigrators ==
    /\ At("deleteMigrators")
    /\ mig' = [s \in Slots |-> IF Visible(s) THEN [mig[s] EXCEPT !.del = TRUE]
                                            ELSE mig[s]]
    /\ Goto("removeFinalizer")
    /\ UNCHANGED <<sts, backup, pod, pvc, pv, acked, faults, vr>>

RemoveFinalizer ==
    /\ At("removeFinalizer")
    /\ vr' = [vr EXCEPT !.exists = FALSE]
    /\ Return
    /\ UNCHANGED clusterVars
-----------------------------------------------------------------------------
(* Faults of the operator, and the user's delete. *)

(* The process dies and its successor starts with informers in sync. *)
Crash ==
    /\ Fault("crash")
    /\ run # Idle
    /\ Return
    /\ mig' = [s \in Slots |-> [mig[s] EXCEPT !.seen = TRUE]]
    /\ UNCHANGED <<sts, backup, pod, pvc, pv, acked, vr>>

(***************************************************************************)
(* A call to the API server fails without effect.  The handlers answer in  *)
(* one of three ways: they return the error and are called again, they log *)
(* it and go on, or they set the phase to Failed.                          *)
(***************************************************************************)
RetriedOnError ==
    {"annotateSTS", "recordBackup", "waitPod", "persistCompleted",
     "clearAnnotation", "checkPod", "setFailed", "removeFinalizer"}
NextAfterError == [deletePod       |-> "waitPod",
                   waitMigrator    |-> "recheckMigrator",
                   recheckMigrator |-> "cleanupMigrator",
                   cleanupMigrator |-> "retainNewPV",
                   deleteTempPVCs  |-> "deleteMigrators",
                   deleteMigrators |-> "removeFinalizer"]
FatalOnError == Steps \ (RetriedOnError \cup DOMAIN NextAfterError \cup {"idle"})

(* Reads whose error also sends the run back: the storage class of a claim that
   is not bound yet, and the StatefulSet before it is backed up. *)
RereadOnError ==
    \/ At("setRetain") /\ pvc[CurTemp].st # "bound"
    \/ At("backupSTS")
    \/ At("deletePod") /\ ~ vr.stsDeleted

ApiError ==
    /\ Fault("api")
    /\ \/ (run.pc \in RetriedOnError \/ RereadOnError) /\ Return
       \/ /\ run.pc \in DOMAIN NextAfterError
          /\ run' = [run EXCEPT !.pc = NextAfterError[@],
                                !.mem = IF At("cleanupMigrator") THEN "Synced" ELSE @]
       \/ run.pc \in FatalOnError /\ Fail
       \/ /\ CanReconcile("Validating") \/ (CanReconcile("Syncing") /\ Stored # "Completed")
          /\ Begin("setFailed", NoPV)
    /\ UNCHANGED <<sts, backup, pod, mig, pvc, pv, acked, vr>>

UserDelete ==
    /\ Fault("userdelete")
    /\ vr.exists /\ ~ vr.deleting
    /\ vr' = IF vr.finalizer THEN [vr EXCEPT !.deleting = TRUE]
                             ELSE [vr EXCEPT !.exists = FALSE]
    /\ UNCHANGED <<sts, backup, pod, mig, pvc, pv, acked, run>>
-----------------------------------------------------------------------------
HandleSyncing ==
    \/ AdvanceCompleted \/ GetOriginalPVC \/ CreateTempPVC \/ SetRetainOnPV
    \/ BackupSTS \/ DeleteSTSOrphan \/ AnnotateSTSDeleted \/ RecordBackup
    \/ DeletePod \/ WaitForPodTermination
    \/ CreateMigratorPod \/ WaitForMigrationComplete \/ RecheckMigrator
    \/ CleanupMigratorPod
    \/ PersistCompleted \/ RecreateSTS \/ ClearAnnotation \/ CheckPodAndAdvance

ReplacePVC ==
    \/ RetainNewPV \/ DeleteTempPVC \/ WaitTempGone \/ ClearClaimRef
    \/ DeleteOrigPVC \/ WaitOrigGone \/ CreateOrigPVC

HandleDeletion ==
    BeginDeletion \/ DeleteTempPVCs \/ DeleteMigrators \/ RemoveFinalizer

Reconcile ==
    \/ AddFinalizer \/ HandlePending \/ HandleValidating \/ HandleReplacing
    \/ SetFailed \/ HandleSyncing \/ ReplacePVC \/ HandleDeletion

Next ==
    \/ Reconcile
    \/ Crash
    \/ ApiError
    \/ UserDelete
    \/ ClusterNext /\ UNCHANGED <<vr, run>>

Spec == Init /\ [][Next]_vars

(***************************************************************************)
(* The work queue calls Reconcile again after every requeue or error, and  *)
(* the cluster's controllers keep working: each step of theirs that stays  *)
(* possible is taken.  No fault, write of the application or delete of the *)
(* user has to happen.                                                     *)
(***************************************************************************)
Fairness ==
    /\ WF_vars(Reconcile)
    /\ \A r \in Ordinals :
          /\ WF_vars(StsReconcile(r) /\ UNCHANGED <<vr, run>>)
          /\ WF_vars(PodStart(r) /\ UNCHANGED <<vr, run>>)
          /\ WF_vars(PodGone(r) /\ UNCHANGED <<vr, run>>)
    /\ \A c \in Claims :
          /\ WF_vars((Provision(c) \/ BindAvailable(c) \/ BindNamed(c))
                     /\ UNCHANGED <<vr, run>>)
          /\ WF_vars(PvcGone(c) /\ UNCHANGED <<vr, run>>)
    /\ \A s \in Slots :
          /\ WF_vars(MigStart(s) /\ UNCHANGED <<vr, run>>)
          /\ WF_vars(MigSucceed(s) /\ UNCHANGED <<vr, run>>)
          /\ WF_vars(MigGone(s) /\ UNCHANGED <<vr, run>>)

FairSpec == Spec /\ Fairness
=============================================================================
