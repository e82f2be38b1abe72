----------------------------- MODULE BackupProofs -----------------------------
(***************************************************************************)
(* The StatefulSet is never away without its backup: proof of              *)
(* BackupBeforeDelete for every number of replicas, volumes and faults,    *)
(* as long as nobody deletes the backup.                                   *)
(***************************************************************************)
EXTENDS LifecycleProofs

(* Between the backup and the delete the backup is there. *)
BackupInv == BackupBeforeDelete /\ (run.pc = "deleteSTS" => backup)

(* No run is in handleSyncing at the start. *)
LEMMA BackupInit == Init => BackupInv
  BY DEF Init, ClusterInit, Idle, BackupInv, BackupBeforeDelete

(* Where a run goes. *)
LEMMA RunGoesTo ==
    ASSUME TypeInv
    PROVE  /\ \A pc : Goto(pc) => run'.pc = pc
           /\ Return => run'.pc = "idle"
           /\ Fail => run'.pc = "setFailed"
           /\ \A pc, old : Begin(pc, old) => run'.pc = pc
           /\ \A new, pc : WriteVR(new, pc) => run'.pc \in {pc, "idle"}
  <1>1. \A pc : Goto(pc) => run'.pc = pc
    BY ControllerTyped DEF Goto, RunRecords
  <1>2. Return => run'.pc = "idle"
    BY DEF Return, Idle
  <1>3. \A pc, old : Begin(pc, old) => run'.pc = pc
    BY DEF Begin
  <1> QED
    BY <1>1, <1>2, <1>3 DEF Fail, WriteVR

(* Only BackupSTS leads to the delete. *)
LEMMA DeleteAfterBackup ==
    ASSUME TypeInv, [Next]_vars, run'.pc = "deleteSTS", run.pc # "deleteSTS"
    PROVE  BackupSTS
  <1> USE RunGoesTo DEF At
  <1>1. run \in RunRecords
    BY ControllerTyped
  <1>2. CASE UNCHANGED run
    BY <1>2
  <1>3. CASE HandleSyncing
    <2>1. CASE AdvanceCompleted \/ GetOriginalPVC \/ CreateTempPVC
      BY <2>1 DEF AdvanceCompleted, GetOriginalPVC, CreateTempPVC
    <2>2. CASE SetRetainOnPV \/ AnnotateSTSDeleted \/ CleanupMigratorPod
      BY <1>1, <2>2 DEF SetRetainOnPV, AnnotateSTSDeleted, CleanupMigratorPod, RunRecords
    <2>3. CASE DeleteSTSOrphan \/ DeletePod \/ WaitForPodTermination
      BY <2>3 DEF DeleteSTSOrphan, DeletePod, WaitForPodTermination
    <2>4. CASE CreateMigratorPod \/ WaitForMigrationComplete \/ RecheckMigrator
      BY <2>4 DEF CreateMigratorPod, WaitForMigrationComplete, RecheckMigrator
    <2>5. CASE RecordBackup \/ PersistCompleted \/ ClearAnnotation
      BY <2>5 DEF RecordBackup, PersistCompleted, ClearAnnotation
    <2>6. CASE RecreateSTS \/ CheckPodAndAdvance
      BY <2>6 DEF RecreateSTS, CheckPodAndAdvance
    <2> QED
      BY <1>3, <2>1, <2>2, <2>3, <2>4, <2>5, <2>6 DEF HandleSyncing
  <1>4. CASE ReplacePVC
    <2>1. CASE RetainNewPV \/ CreateOrigPVC
      BY <1>1, <2>1 DEF RetainNewPV, CreateOrigPVC, RunRecords
    <2>2. CASE DeleteTempPVC \/ WaitTempGone \/ ClearClaimRef
      BY <2>2 DEF DeleteTempPVC, WaitTempGone, WaitClaimGone, ClearClaimRef
    <2>3. CASE DeleteOrigPVC \/ WaitOrigGone
      BY <2>3 DEF DeleteOrigPVC, WaitOrigGone, WaitClaimGone
    <2> QED
      BY <1>4, <2>1, <2>2, <2>3 DEF ReplacePVC
  <1>5. CASE \/ AddFinalizer \/ HandlePending \/ HandleValidating
             \/ HandleReplacing \/ SetFailed
    BY <1>5 DEF AddFinalizer, HandlePending, HandleValidating, HandleReplacing,
       SetFailed
  <1>6. CASE HandleDeletion
    BY <1>6 DEF HandleDeletion, BeginDeletion, DeleteTempPVCs, DeleteMigrators,
       RemoveFinalizer
  <1>7. CASE Crash \/ UserDelete
    BY <1>7 DEF Crash, UserDelete
  <1>8. CASE ApiError
    <2>1. CASE /\ run.pc \in DOMAIN NextAfterError
               /\ run' = [run EXCEPT !.pc = NextAfterError[@],
                                     !.mem = IF At("cleanupMigrator") THEN "Synced" ELSE @]
      <3>1. run'.pc = NextAfterError[run.pc]
        BY <1>1, <2>1 DEF RunRecords
      <3>2. NextAfterError[run.pc] # "deleteSTS"
        BY <2>1 DEF NextAfterError
      <3> QED
        BY <3>1, <3>2
    <2>2. CASE Return \/ Fail \/ Begin("setFailed", NoPV)
      BY <2>2
    <2> QED
      BY <1>8, <2>1, <2>2 DEF ApiError
  <1> QED
    BY <1>2, <1>3, <1>4, <1>5, <1>6, <1>7, <1>8 DEF Next, Reconcile, vars

(* Only backupSTSToConfigMap and the loss of the backup change it; only
   deleteSTSOrphan and recreateSTS change the StatefulSet. *)
LEMMA BackupWriters ==
    ASSUME ~ Fault("backuploss"), [Next]_vars
    PROVE  /\ backup => backup'
           /\ sts /\ ~ sts' => run.pc = "deleteSTS"
           /\ BackupSTS => backup'
  <1>1. CASE UNCHANGED <<sts, backup>>
    BY <1>1 DEF BackupSTS
  <1>2. CASE HandleSyncing
    <2>1. CASE BackupSTS
      BY <2>1 DEF BackupSTS
    <2>2. CASE DeleteSTSOrphan
      BY <2>2 DEF DeleteSTSOrphan, BackupSTS, At
    <2>3. CASE RecreateSTS
      BY <2>3 DEF RecreateSTS, BackupSTS, At
    <2> QED
      BY <1>1, <1>2, <2>1, <2>2, <2>3
      DEF HandleSyncing, AdvanceCompleted, GetOriginalPVC, CreateTempPVC,
          SetRetainOnPV, AnnotateSTSDeleted, RecordBackup, DeletePod,
          WaitForPodTermination, CreateMigratorPod, WaitForMigrationComplete,
          RecheckMigrator, CleanupMigratorPod, PersistCompleted, ClearAnnotation,
          CheckPodAndAdvance, clusterVars
  <1>3. CASE ReplacePVC
    BY <1>1, <1>3
    DEF ReplacePVC, RetainNewPV, DeleteTempPVC, WaitTempGone, WaitOrigGone,
        WaitClaimGone, ClearClaimRef, DeleteOrigPVC, CreateOrigPVC
  <1>4. CASE \/ AddFinalizer \/ HandlePending \/ HandleValidating
             \/ HandleReplacing \/ SetFailed \/ HandleDeletion
    BY <1>1, <1>4
    DEF AddFinalizer, HandlePending, HandleValidating, HandleReplacing, SetFailed,
        HandleDeletion, BeginDeletion, DeleteTempPVCs, DeleteMigrators,
        RemoveFinalizer, clusterVars
  <1>5. CASE Crash \/ ApiError \/ UserDelete \/ UNCHANGED vars
    BY <1>1, <1>5 DEF Crash, ApiError, UserDelete, vars
  <1>6. CASE ClusterNext
    BY <1>1, <1>6
    DEF ClusterNext, PodStep, StsReconcile, PodStart, PodGone, PodEvicted,
        VolumeStep, Provision, BindAvailable, BindNamed, PvcGone, ReclaimPV,
        AppWrite, MigStep, MigStart, MigSucceed, MigFail, MigLost, MigGone,
        CacheSync, BackupLost
  <1> QED
    BY <1>2, <1>3, <1>4, <1>5, <1>6 DEF Next, Reconcile

(* A step in which nobody deletes the ConfigMap keeps BackupInv. *)
LEMMA BackupStep ==
    ASSUME ~ Fault("backuploss"), TypeInv, BackupInv, [Next]_vars
    PROVE  BackupInv'
  <1>1. run'.pc = "deleteSTS" => backup'
    BY DeleteAfterBackup, BackupWriters DEF BackupInv
  <1>2. ~ sts' => backup'
    BY BackupWriters DEF BackupInv, BackupBeforeDelete
  <1> QED
    BY <1>1, <1>2 DEF BackupInv, BackupBeforeDelete

(* backupSTSToConfigMap comes before deleteSTSOrphan on every path: whatever
   else fails, crashes or is deleted, and however often, the spec needed to
   recreate the StatefulSet is in the ConfigMap while the StatefulSet is away. *)
THEOREM BackupAlwaysBefore ==
    ASSUME "backuploss" \notin Faults
    PROVE  Spec => []BackupBeforeDelete
  <1>1. Init => TypeInv /\ BackupInv
    BY TypeInit, BackupInit
  <1>2. TypeInv /\ BackupInv /\ [Next]_vars => (TypeInv /\ BackupInv)'
    <2>1. ~ Fault("backuploss")
      BY DEF Fault
    <2> QED
      BY <2>1, TypeStep, BackupStep
  <1>3. BackupInv => BackupBeforeDelete
    BY DEF BackupInv
  <1> QED
    BY <1>1, <1>2, <1>3, PTL DEF Spec

-----------------------------------------------------------------------------
(* Where the StatefulSet is, while no crash and no error cuts a run short. *)

(* No error of the API server and no crash. *)
NotCutShort == ~ Fault("api") /\ ~ Fault("crash")
LEMMA NeverCutShort ==
    ASSUME "api" \notin Faults, "crash" \notin Faults
    PROVE  NotCutShort
  BY DEF NotCutShort, Fault

(* The steps of a run that has taken the StatefulSet away. *)
Away == {"annotateSTS", "recordBackup", "deletePod", "waitPod", "createMigrator",
         "waitMigrator", "recheckMigrator", "cleanupMigrator"}
        \cup ReplaceSteps \cup {"persistCompleted", "recreateSTS"}
Present == {"backupSTS", "deleteSTS", "clearAnnotation", "checkPod"}

(* The annotation says that the StatefulSet is away, and a slot that is
   recorded as completed has it back, as soon as its run is over. *)
StsInv ==
    /\ run.pc \in Away => ~ sts
    /\ run.pc \in Present => sts
    /\ vr.exists /\ vr.phase \in {"Pending", "Validating", "Replacing", "Completed"} => sts
    /\ ~ vr.deleting /\ vr.phase = "Syncing" /\ run.pc = "idle" /\ Stored = "Completed" => sts
    /\ ~ vr.deleting /\ vr.stsDeleted => ~ sts \/ run.pc = "clearAnnotation"
    /\ vr.stsDeleted /\ sts /\ run.pc \in RunOfSyncing => run.pc = "clearAnnotation"

(* It holds at the start. *)
LEMMA StsInit == Init => StsInv
  <1> SUFFICES ASSUME Init PROVE StsInv
    OBVIOUS
  <1>1. run.pc = "idle" /\ sts
    BY DEF Init, Idle, ClusterInit
  <1>2. ~ vr.stsDeleted
    BY DEF Init
  <1> QED
    BY <1>1, <1>2 DEF StsInv, Away, ReplaceSteps, Present

(* How the StatefulSet goes and comes back. *)
LEMMA StsMoves ==
    ASSUME TypeInv, [Next]_vars
    PROVE  \/ sts' = sts
           \/ run.pc = "deleteSTS" /\ run'.pc = "annotateSTS" /\ ~ sts' /\ UNCHANGED vr
           \/ run.pc = "recreateSTS" /\ run'.pc = "clearAnnotation" /\ sts' /\ UNCHANGED vr
  BY StsChange, RunGoesTo DEF DeleteSTSOrphan, RecreateSTS, At

(* Every step keeps it. *)
LEMMA StsStep ==
    ASSUME NotCutShort,
           TypeInv, CycleInv, StsInv, [Next]_vars
    PROVE  StsInv'
  <1> USE DEF ReplaceSteps, Away, Present
  <1>1. ~ ApiError /\ ~ Crash
    BY DEF NotCutShort, ApiError, Crash
  <1>2. run \in RunRecords /\ vr \in VRRecords
    BY ControllerTyped
  <1>3. run'.pc \in Away => ~ sts'
    <2>1. CASE run'.pc = run.pc
      BY <2>1, StsMoves DEF StsInv
    <2>2. CASE run'.pc = "annotateSTS" /\ run'.pc # run.pc
      <3>1. run.pc = "deleteSTS"
        BY <2>2, RunPath DEF Path, Flow
      <3>2. DeleteSTSOrphan
        BY <1>1, <2>2, <3>1, RunFrom
      <3> QED
        BY <3>2 DEF DeleteSTSOrphan
    <2>3. CASE run'.pc = "deletePod" /\ run.pc = "setRetain"
      <3>1. SetRetainOnPV
        BY <1>1, <2>3, RunFrom
      <3>2. run'.pc = "deletePod" => vr.stsDeleted \/ ~ sts
        BY <1>2, <2>3, <3>1 DEF SetRetainOnPV, RunRecords, Fail, Goto
      <3>3. ~ sts
        BY <2>3, <3>2 DEF StsInv, RunOfSyncing, SyncSteps
      <3> QED
        BY <2>3, <3>3, StsMoves
    <2>4. CASE run.pc \in Away /\ run'.pc \in Away
      BY <2>4, StsMoves DEF StsInv
    <2> QED
      BY <2>1, <2>2, <2>3, <2>4, RunPath DEF Path, Flow
  <1>4. run'.pc \in Present => sts'
    <2>1. CASE run'.pc = run.pc
      BY <2>1, StsMoves DEF StsInv
    <2>2. CASE run.pc = "setRetain" /\ run'.pc = "backupSTS"
      <3>1. SetRetainOnPV
        BY <1>1, <2>2, RunFrom
      <3>2. sts
        BY <1>2, <2>2, <3>1 DEF SetRetainOnPV, RunRecords, Fail, Goto
      <3> QED
        BY <2>2, <3>2, StsMoves
    <2>3. CASE run.pc \in {"backupSTS", "clearAnnotation"}
      BY <2>3, StsMoves DEF StsInv
    <2>4. CASE run.pc = "recreateSTS" /\ run'.pc = "clearAnnotation"
      <3>1. RecreateSTS
        BY <1>1, <2>4, RunFrom
      <3> QED
        BY <1>2, <2>4, <3>1 DEF RecreateSTS, RunRecords, Fail, Goto
    <2> QED
      BY <2>1, <2>2, <2>3, <2>4, RunPath DEF Path, Flow
  <1>5. ASSUME vr'.exists, vr'.phase \in {"Pending", "Validating", "Replacing", "Completed"}
        PROVE  sts'
    <2>1. vr.exists
      BY <1>2, <1>5, MetaChange DEF RemoveFinalizer, UserDelete, VRRecords
    <2>2. CASE vr'.phase = vr.phase
      <3>1. sts /\ run.pc # "deleteSTS"
        BY <1>5, <2>1, <2>2, OnCursor DEF StsInv, RunOfSyncing, SyncSteps
      <3> QED
        BY <3>1, StsMoves
    <2>3. CASE HandlePending \/ HandleReplacing
      BY <2>1, <2>3, StsMoves DEF HandlePending, HandleReplacing, CanReconcile, At, StsInv
    <2>4. CASE HandleValidating /\ Valid
      BY <2>4, StsMoves DEF HandleValidating, CanReconcile, At, Valid
    <2>5. CASE AdvanceCompleted
      BY <2>5, StsMoves DEF AdvanceCompleted, CanReconcile, At, StsInv
    <2>6. CASE CheckPodAndAdvance
      BY <2>6, StsMoves DEF CheckPodAndAdvance, At, StsInv
    <2>7. SetFailed /\ vr'.phase = "Failed" => FALSE
      BY <1>5
    <2> QED
      BY <2>2, <2>3, <2>4, <2>5, <2>6, <2>7, MetaChange
  <1>6. ASSUME ~ vr'.deleting, vr'.phase = "Syncing", run'.pc = "idle", Stored' = "Completed"
        PROVE  sts'
    <2>1. ~ vr.deleting
      BY <1>2, <1>6, MetaChange DEF UserDelete, VRRecords
    <2>2. CASE UNCHANGED vr
      <3>1. vr.phase = "Syncing" /\ Stored = "Completed"
        BY <1>6, <2>2 DEF Stored
      <3>2. run.pc \notin SyncSteps \cup ReplaceSteps \cup {"persistCompleted"}
        BY <3>1 DEF CycleInv, MemInv
      <3>3. run.pc \notin {"recreateSTS", "clearAnnotation", "setFailed"}
        <4>1. CASE run.pc = "recreateSTS"
          <5>1. RecreateSTS
            BY <1>1, <1>6, <4>1, RunFrom
          <5> QED
            BY <1>2, <1>6, <5>1 DEF RecreateSTS, Goto, Fail, RunRecords
        <4>2. CASE run.pc = "clearAnnotation"
          <5>1. ClearAnnotation
            BY <1>1, <1>6, <4>2, RunFrom
          <5> QED
            BY <1>2, <1>6, <2>1, <5>1 DEF ClearAnnotation, WriteVR, Goto, RunRecords
        <4>3. CASE run.pc = "setFailed"
          <5>1. SetFailed
            BY <1>1, <1>6, <4>3, RunFrom
          <5>2. vr' = SetSlot([vr EXCEPT !.phase = "Failed"], vr.cur, run.mem)
            BY <2>1, <5>1 DEF SetFailed, WriteVR
          <5>3. [vr EXCEPT !.phase = "Failed"] \in VRRecords
                /\ [vr EXCEPT !.phase = "Failed"].phase = "Failed"
            BY <1>2 DEF VRRecords, Phases
          <5>4. vr'.phase = "Failed"
            BY <5>2, <5>3, SetSlotIs, ControllerTyped DEF SetSlot
          <5> QED
            BY <1>6, <5>4
        <4> QED
          BY <4>1, <4>2, <4>3
      <3>4. run.pc \notin DeletionSteps
        BY <2>1 DEF CycleInv, RunInv
      <3>5. run.pc \in {"idle", "checkPod"}
        BY <1>2, <3>2, <3>3, <3>4 DEF RunRecords, Steps, ReturnSteps
      <3> QED
        BY <2>1, <3>1, <3>5, StsMoves DEF StsInv
    <2>3. CASE AdvanceCompleted \/ CheckPodAndAdvance
      <3>1. CASE ~ Returns
        <4>1. /\ vr.phase = "Syncing" /\ vr.cur \in Slots /\ Replicas # 0 /\ vr' = Advanced
          BY <2>3, <3>1, AdvanceSteps
        <4>2. NextSlot(vr.cur) # NoSlot /\ vr'.cur = NextSlot(vr.cur) /\ vr'.vs = vr.vs
          BY <1>6, <4>1, AdvancedIs
        <4> QED
          BY <1>6, <4>1, <4>2, NextNotCompleted DEF Stored
      <3> QED
        BY <2>2, <3>1 DEF Returns
    <2>4. CASE HandleValidating /\ Valid
      BY <1>6, <2>4, ValidatedIs DEF HandleValidating
    <2>5. CASE AddFinalizer \/ UserDelete
      <3>1. Stored' = Stored /\ vr'.phase = vr.phase /\ run.pc = run'.pc
        BY <1>2, <2>5 DEF AddFinalizer, UserDelete, Stored, VRRecords
      <3> QED
        BY <1>6, <2>1, <3>1, StsMoves DEF StsInv
    <2>6. CASE AnnotateSTSDeleted
      BY <1>2, <1>6, <2>1, <2>6 DEF AnnotateSTSDeleted, RunRecords
    <2>7. CASE RecordBackup \/ PersistCompleted \/ ClearAnnotation
      BY <1>2, <1>6, <2>1, <2>7
      DEF RecordBackup, PersistCompleted, ClearAnnotation, WriteVR, Goto, RunRecords
    <2>8. CASE HandlePending \/ HandleReplacing
      BY <1>2, <1>6, <2>8 DEF HandlePending, HandleReplacing, VRRecords
    <2>9. CASE SetFailed
      BY <1>6, <2>2, <2>9, FailureWritten DEF Returns
    <2>10. CASE RemoveFinalizer
      BY <2>1, <2>10 DEF RemoveFinalizer, At, CycleInv, RunInv, DeletionSteps
    <2>11. RunStep => UNCHANGED vr
      BY DEF RunStep, GoesOn, Returns, GivesUp, Enters
    <2> QED
      BY <2>2, <2>3, <2>4, <2>5, <2>6, <2>7, <2>8, <2>9, <2>10, <2>11, ControlSteps
      DEF StatusWrite
  <1>7. ASSUME ~ vr'.deleting, vr'.stsDeleted
        PROVE  ~ sts' \/ run'.pc = "clearAnnotation"
    <2>1. ~ vr.deleting
      BY <1>2, <1>7, MetaChange DEF UserDelete, VRRecords
    <2>2. CASE vr.stsDeleted /\ run'.pc # "clearAnnotation"
      <3>1. CASE ~ sts
        BY <2>2, <3>1, StsMoves
      <3>2. CASE run.pc = "clearAnnotation"
        <4>1. ClearAnnotation
          BY <1>1, <2>2, <3>2, RunFrom
        <4> QED
          BY <1>2, <1>7, <2>1, <4>1 DEF ClearAnnotation, WriteVR, VRRecords
      <3> QED
        BY <2>1, <2>2, <3>1, <3>2 DEF StsInv
    <2>3. CASE AnnotateSTSDeleted
      BY <2>3, StsMoves DEF AnnotateSTSDeleted, At, StsInv
    <2>4. CASE ClearAnnotation
      BY <1>2, <1>7, <2>1, <2>4 DEF ClearAnnotation, WriteVR, VRRecords
    <2> QED
      BY <1>2, <1>7, <2>2, <2>3, <2>4, MetaChange DEF VRRecords
  <1>8. ASSUME vr'.stsDeleted, sts', run'.pc \in RunOfSyncing
        PROVE  run'.pc = "clearAnnotation"
    <2>1. CASE run.pc \in RunOfSyncing
      <3>1. vr.stsDeleted \/ AnnotateSTSDeleted
        BY <1>8, MetaChange, <1>2 DEF ClearAnnotation, At, VRRecords, RunOfSyncing, WriteVR,
           Return, Idle, Goto, RunRecords
      <3>2. CASE AnnotateSTSDeleted
        BY <1>8, <2>1, <3>2, StsMoves DEF AnnotateSTSDeleted, At, StsInv
      <3>3. CASE vr.stsDeleted /\ sts
        <4>1. run.pc = "clearAnnotation"
          BY <2>1, <3>3 DEF StsInv
        <4>2. CASE run' = run
          BY <4>1, <4>2
        <4>3. CASE run' # run
          <5>1. ClearAnnotation
            BY <1>1, <4>1, <4>3, RunFrom
          <5> QED
            BY <1>2, <1>8, <5>1 DEF ClearAnnotation, WriteVR, VRRecords, Return, Idle,
               RunOfSyncing, SyncSteps, ReturnSteps
        <4> QED
          BY <4>2, <4>3
      <3>4. CASE ~ sts
        BY <1>8, <3>4, StsMoves
      <3> QED
        BY <3>1, <3>2, <3>3, <3>4
    <2>2. CASE run.pc \notin RunOfSyncing
      <3>1. run.pc = "idle" /\ run'.pc = "createTempPVC" /\ run' # run
        BY <1>8, <2>2, RunPath DEF Path, Flow, RunOfSyncing, SyncSteps, ReturnSteps
      <3>2. GetOriginalPVC
        BY <1>1, <3>1, RunFrom DEF HandleValidating, BeginDeletion, Begin
      <3> QED
        BY <1>8, <3>1, <3>2, StsMoves DEF GetOriginalPVC, CanReconcile, StsInv
    <2> QED
      BY <2>1, <2>2
  <1> QED
    BY <1>3, <1>4, <1>5, <1>6, <1>7, <1>8 DEF StsInv

(* A migration that ends as Completed has brought the StatefulSet back, also
   when pods are lost, caches are stale, the backup is deleted or the user
   deletes the VolumeResize on the way; a crash or an error of the API server
   between the persisted Completed and recreateSTS breaks it (see the README). *)
THEOREM CompletedHasItsSts ==
    ASSUME "api" \notin Faults, "crash" \notin Faults
    PROVE  Spec => []CompletedHasSts
  <1>1. Init => TypeInv /\ CycleInv /\ StsInv
    BY TypeInit, CycleInit, StsInit
  <1>2. TypeInv /\ CycleInv /\ StsInv /\ [Next]_vars => (TypeInv /\ CycleInv /\ StsInv)'
    BY CycleStep, StsStep, NeverCutShort
  <1>3. StsInv => CompletedHasSts
    BY DEF StsInv, CompletedHasSts
  <1> QED
    BY <1>1, <1>2, <1>3, PTL DEF Spec

(* While the StatefulSet is away the status names the backup, but for the two
   writes after the delete, and for a VolumeResize whose deletion came before
   the name could be written; one like that does not fail any more. *)
NameInv ==
    ~ sts /\ vr.exists => \/ vr.backupName
                          \/ vr.deleting /\ vr.phase # "Failed"
                          \/ run.pc \in {"annotateSTS", "recordBackup"}

(* Every step keeps NameInv. *)
LEMMA NameStep ==
    ASSUME NotCutShort,
           TypeInv, CycleInv, NameInv, [Next]_vars
    PROVE  NameInv'
  <1> SUFFICES ASSUME ~ sts', vr'.exists
               PROVE  \/ vr'.backupName
                      \/ vr'.deleting /\ vr'.phase # "Failed"
                      \/ run'.pc \in {"annotateSTS", "recordBackup"}
    BY DEF NameInv
  <1>1. ~ ApiError /\ ~ Crash
    BY DEF NotCutShort, ApiError, Crash
  <1>2. run \in RunRecords /\ vr \in VRRecords
    BY ControllerTyped
  <1>3. vr.exists
    BY <1>2, MetaChange DEF RemoveFinalizer, UserDelete, VRRecords
  <1>4. CASE sts
    BY <1>4, StsMoves
  <1>5. CASE vr.backupName
    BY <1>5, MetaChange
  <1>6. CASE vr.deleting /\ vr.phase # "Failed"
    <2>1. vr'.deleting
      BY <1>2, <1>6, MetaChange DEF UserDelete, VRRecords
    <2>2. SetFailed => UNCHANGED vr
      BY <1>6, FailureWritten DEF Returns
    <2>3. vr'.phase = vr.phase
      BY <1>6, <2>2, MetaChange, AdvanceSteps
      DEF HandlePending, HandleValidating, HandleReplacing, CanReconcile, Returns
    <2> QED
      BY <1>6, <2>1, <2>3
  <1>7. CASE run.pc \in {"annotateSTS", "recordBackup"}
    <2>1. vr.phase = "Syncing"
      BY <1>7, OnCursor DEF RunOfSyncing, SyncSteps
    <2>2. CASE run' = run
      BY <1>7, <2>2
    <2>3. CASE run' # run /\ run.pc = "annotateSTS"
      <3>1. AnnotateSTSDeleted
        BY <1>1, <2>3, RunFrom
      <3> QED
        BY <1>2, <2>1, <3>1 DEF AnnotateSTSDeleted, RunRecords
    <2>4. CASE run' # run /\ run.pc = "recordBackup"
      <3>1. RecordBackup
        BY <1>1, <2>4, RunFrom
      <3>2. CASE vr.deleting
        BY <2>1, <3>1, <3>2 DEF RecordBackup, WriteVR
      <3>3. CASE ~ vr.deleting
        <4>1. [vr EXCEPT !.backupName = TRUE] \in VRRecords
              /\ [vr EXCEPT !.backupName = TRUE].backupName
          BY <1>2 DEF VRRecords
        <4>2. vr' = SetSlot([vr EXCEPT !.backupName = TRUE], vr.cur, run.mem)
          BY <3>1, <3>3 DEF RecordBackup, WriteVR
        <4> QED
          BY <4>1, <4>2, SetSlotIs, ControllerTyped DEF SetSlot
      <3> QED
        BY <3>2, <3>3
    <2> QED
      BY <1>7, <2>2, <2>3, <2>4
  <1> QED
    BY <1>3, <1>4, <1>5, <1>6, <1>7 DEF NameInv

(* A migration that failed while the StatefulSet is away names the backup that
   a recovery starts from. *)
THEOREM RecoveryIsNamed ==
    ASSUME "api" \notin Faults, "crash" \notin Faults
    PROVE  Spec => []RecoveryNamed
  <1>1. Init => TypeInv /\ CycleInv /\ NameInv
    <2>1. Init => NameInv
      BY DEF Init, ClusterInit, NameInv
    <2> QED
      BY <2>1, TypeInit, CycleInit
  <1>2. TypeInv /\ CycleInv /\ NameInv /\ [Next]_vars
          => (TypeInv /\ CycleInv /\ NameInv)'
    BY CycleStep, NameStep, NeverCutShort
  <1>3. TypeInv /\ NameInv => RecoveryNamed
    BY OnCursor DEF NameInv, RecoveryNamed, RunOfSyncing, SyncSteps
  <1> QED
    BY <1>1, <1>2, <1>3, PTL DEF Spec
===============================================================================
