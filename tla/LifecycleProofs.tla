---------------------------- MODULE LifecycleProofs ----------------------------
(***************************************************************************)
(* The operator implements the life cycle of module MigrationLifecycle,    *)
(* and a VolumeResize that is let go leaves nothing behind: proofs of      *)
(* FollowsLifecycle and CleanupOnDelete for every number of replicas,      *)
(* volumes and faults.                                                     *)
(***************************************************************************)
EXTENDS TypeProofs

-----------------------------------------------------------------------------
(* What a step does to the VolumeResize and to the run. *)

(* From one write of a run to the next, the errors that are logged and
   forgotten included. *)
Flow ==
    {<<"createTempPVC", "setRetain">>, <<"setRetain", "backupSTS">>,
     <<"setRetain", "deletePod">>, <<"backupSTS", "deleteSTS">>,
     <<"deleteSTS", "annotateSTS">>, <<"deletePod", "waitPod">>,
     <<"waitPod", "createMigrator">>, <<"createMigrator", "waitMigrator">>,
     <<"waitMigrator", "cleanupMigrator">>, <<"waitMigrator", "recheckMigrator">>,
     <<"recheckMigrator", "cleanupMigrator">>, <<"cleanupMigrator", "retainNewPV">>,
     <<"retainNewPV", "deleteTemp">>, <<"deleteTemp", "waitTemp">>,
     <<"waitTemp", "clearClaimRef">>, <<"clearClaimRef", "deleteOrig">>,
     <<"deleteOrig", "waitOrig">>, <<"waitOrig", "createOrig">>,
     <<"createOrig", "persistCompleted">>, <<"recreateSTS", "clearAnnotation">>,
     <<"deleteTempPVCs", "deleteMigrators">>, <<"deleteMigrators", "removeFinalizer">>}

(* The phase of the slot a run holds in memory after the step. *)
NextMem == IF run.pc = "setRetain" THEN "Syncing"
           ELSE IF run.pc = "cleanupMigrator" THEN "Synced"
           ELSE IF run.pc = "createOrig" THEN "Completed"
           ELSE run.mem

GoesOn   == /\ <<run.pc, run'.pc>> \in Flow
            /\ run'.mem = NextMem /\ run'.oldPV = run.oldPV
            /\ run'.newPV = IF run.pc = "retainNewPV" THEN pvc[CurTemp].pv ELSE run.newPV
            /\ UNCHANGED vr
Returns  == run' = Idle /\ UNCHANGED vr
GivesUp  == /\ run.pc \in SyncSteps \cup ReplaceSteps \cup {"recreateSTS"}
            /\ run' = [run EXCEPT !.pc = "setFailed"] /\ UNCHANGED vr
(* A run is begun, to fail, to migrate a slot, or to let the object go. *)
Enters(pc) ==
    /\ run.pc = "idle" /\ run'.pc = pc /\ run'.mem = Stored /\ run'.newPV = NoPV
    /\ vr.exists /\ UNCHANGED vr
    /\ \/ pc = "setFailed" /\ vr.finalizer
          /\ (vr.phase = "Validating" \/ (vr.phase = "Syncing" /\ Stored # "Completed"))
       \/ pc = "createTempPVC" /\ ~ vr.deleting /\ vr.finalizer
          /\ vr.phase = "Syncing" /\ Stored # "Completed"
          /\ run'.oldPV = pvc[CurOrig].pv /\ pvc[CurOrig].st # "absent"
       \/ pc = "deleteTempPVCs" /\ vr.deleting

(* The steps that write the VolumeResize. *)
StatusWrite ==
    \/ AddFinalizer \/ HandlePending \/ (HandleValidating /\ Valid) \/ HandleReplacing
    \/ SetFailed \/ AdvanceCompleted \/ AnnotateSTSDeleted \/ RecordBackup
    \/ PersistCompleted \/ ClearAnnotation \/ CheckPodAndAdvance
    \/ RemoveFinalizer \/ UserDelete

(* The steps that leave it alone. *)
RunStep ==
    \/ UNCHANGED <<vr, run>> \/ GoesOn \/ Returns \/ GivesUp
    \/ \E pc \in {"setFailed", "createTempPVC", "deleteTempPVCs"} : Enters(pc)

(* Every step is one or the other. *)
LEMMA ControlSteps ==
    ASSUME TypeInv, [Next]_vars
    PROVE  RunStep \/ StatusWrite
  <1> USE DEF At, RunStep
  <1>1. run \in RunRecords
    BY ControllerTyped
  <1>2. ASSUME NEW pc, Goto(pc), <<run.pc, pc>> \in Flow, UNCHANGED vr,
               run.pc \notin {"setRetain", "cleanupMigrator", "retainNewPV", "createOrig"}
        PROVE  GoesOn
    BY <1>1, <1>2 DEF Goto, GoesOn, RunRecords, NextMem
  <1>3. ASSUME Fail, run.pc \in SyncSteps \cup ReplaceSteps \cup {"recreateSTS"},
               UNCHANGED vr
        PROVE  GivesUp
    BY <1>3 DEF Fail, Goto, GivesUp
  <1>4. ASSUME Return, UNCHANGED vr
        PROVE  Returns
    BY <1>4 DEF Return, Returns
  <1>5. CASE HandleSyncing
    <2>1. CASE GetOriginalPVC
      BY <2>1 DEF GetOriginalPVC, Begin, Enters, CanReconcile
    <2>2. CASE CreateTempPVC
      BY <1>2, <1>4, <2>2 DEF CreateTempPVC, Flow
    <2>3. CASE SetRetainOnPV
      BY <1>1, <1>3, <2>3
      DEF SetRetainOnPV, Flow, GoesOn, NextMem, RunRecords, SyncSteps
    <2>4. CASE BackupSTS \/ DeleteSTSOrphan \/ DeletePod \/ WaitForPodTermination
      BY <1>2, <1>4, <2>4 DEF BackupSTS, DeleteSTSOrphan, DeletePod, Flow,
         WaitForPodTermination
    <2>5. CASE CreateMigratorPod \/ WaitForMigrationComplete
      BY <1>2, <1>3, <2>5
      DEF CreateMigratorPod, WaitForMigrationComplete, Flow, SyncSteps
    <2>6. CASE RecheckMigrator
      BY <1>2, <1>3, <1>4, <2>6 DEF RecheckMigrator, Flow, SyncSteps
    <2>7. CASE CleanupMigratorPod
      BY <1>1, <2>7 DEF CleanupMigratorPod, Flow, GoesOn, NextMem, RunRecords
    <2>8. CASE RecreateSTS
      BY <1>2, <1>3, <2>8 DEF RecreateSTS, Flow
    <2> QED
      BY <1>5, <2>1, <2>2, <2>3, <2>4, <2>5, <2>6, <2>7, <2>8 DEF HandleSyncing, StatusWrite
  <1>6. CASE ReplacePVC
    <2>1. CASE RetainNewPV
      BY <1>1, <1>3, <2>1
      DEF RetainNewPV, Flow, GoesOn, NextMem, RunRecords, ReplaceSteps
    <2>2. CASE DeleteTempPVC \/ WaitTempGone \/ DeleteOrigPVC \/ WaitOrigGone
      BY <1>2, <2>2 DEF DeleteTempPVC, WaitTempGone, DeleteOrigPVC, WaitOrigGone,
         WaitClaimGone, Flow
    <2>3. CASE ClearClaimRef
      BY <1>2, <1>3, <2>3 DEF ClearClaimRef, Flow, ReplaceSteps
    <2>4. CASE CreateOrigPVC
      BY <1>1, <1>3, <2>4
      DEF CreateOrigPVC, Flow, GoesOn, NextMem, RunRecords, ReplaceSteps
    <2> QED
      BY <1>6, <2>1, <2>2, <2>3, <2>4 DEF ReplacePVC
  <1>7. CASE HandleDeletion
    <2>1. CASE BeginDeletion
      BY <2>1 DEF BeginDeletion, Begin, Enters
    <2>2. CASE DeleteTempPVCs \/ DeleteMigrators
      BY <1>2, <2>2 DEF DeleteTempPVCs, DeleteMigrators, Flow
    <2> QED
      BY <1>7, <2>1, <2>2 DEF HandleDeletion, StatusWrite
  <1>8. CASE HandleValidating /\ ~ Valid
    BY <1>8 DEF HandleValidating, Begin, Enters, CanReconcile
  <1>9. CASE ApiError
    <2>1. CASE Return
      BY <1>4, <1>9, <2>1 DEF ApiError
    <2>2. CASE /\ run.pc \in DOMAIN NextAfterError
               /\ run' = [run EXCEPT !.pc = NextAfterError[@],
                                     !.mem = IF At("cleanupMigrator") THEN "Synced" ELSE @]
      <3>1. <<run.pc, NextAfterError[run.pc]>> \in Flow
            /\ run.pc \notin {"setRetain", "retainNewPV", "createOrig"}
        BY <2>2 DEF NextAfterError, Flow
      <3> QED
        BY <1>1, <1>9, <2>2, <3>1 DEF ApiError, GoesOn, NextMem, RunRecords
    <2>3. CASE run.pc \in FatalOnError /\ Fail
      <3>1. run.pc \in SyncSteps \cup ReplaceSteps \cup {"recreateSTS"}
        BY <1>1, <2>3 DEF FatalOnError, RunRecords, Steps, ReturnSteps, DeletionSteps,
           RetriedOnError, NextAfterError
      <3> QED
        BY <1>3, <1>9, <2>3, <3>1 DEF ApiError
    <2>4. CASE /\ \/ CanReconcile("Validating")
                  \/ CanReconcile("Syncing") /\ Stored # "Completed"
               /\ Begin("setFailed", NoPV)
      BY <1>9, <2>4 DEF ApiError, Begin, Enters, CanReconcile
    <2> QED
      BY <1>9, <2>1, <2>2, <2>3, <2>4 DEF ApiError
  <1>10. CASE Crash
    BY <1>4, <1>10 DEF Crash
  <1> QED
    BY <1>5, <1>6, <1>7, <1>8, <1>9, <1>10 DEF Next, Reconcile, StatusWrite, vars

-----------------------------------------------------------------------------
(* What a step does to the cluster, and who takes it. *)

(* A step of the operator, of the cluster, of the user, or none. *)
LEMMA WhoSteps ==
    ASSUME [Next]_vars
    PROVE  \/ HandleSyncing \/ ReplacePVC \/ HandleDeletion
           \/ AddFinalizer \/ HandlePending \/ HandleValidating \/ HandleReplacing
           \/ SetFailed \/ Crash \/ ApiError \/ UserDelete
           \/ ClusterNext /\ UNCHANGED <<vr, run>>
           \/ UNCHANGED vars
  BY DEF Next, Reconcile

(* Only the StatefulSet controller, the kubelets and DeletePod touch a pod. *)
LEMMA PodChange ==
    ASSUME TypeInv, [Next]_vars, NEW r \in Ordinals, pod'[r] # pod[r]
    PROVE  \/ PodStep(r) /\ UNCHANGED <<vr, run>>
           \/ DeletePod /\ r = vr.cur[1]
  <1>0. pod \in [Ordinals -> PodStates]
    BY DEF TypeInv, TypeOK, ClusterTypeOK
  <1>1. CASE HandleSyncing
    BY <1>0, <1>1
    DEF HandleSyncing, AdvanceCompleted, GetOriginalPVC, CreateTempPVC, SetRetainOnPV,
        BackupSTS, DeleteSTSOrphan, AnnotateSTSDeleted, RecordBackup, DeletePod,
        WaitForPodTermination, CreateMigratorPod, WaitForMigrationComplete,
        RecheckMigrator, CleanupMigratorPod, PersistCompleted, RecreateSTS,
        ClearAnnotation, CheckPodAndAdvance, clusterVars
  <1>2. CASE ReplacePVC
    BY <1>2
    DEF ReplacePVC, RetainNewPV, DeleteTempPVC, WaitTempGone, WaitOrigGone,
        WaitClaimGone, ClearClaimRef, DeleteOrigPVC, CreateOrigPVC
  <1>3. CASE \/ AddFinalizer \/ HandlePending \/ HandleValidating
             \/ HandleReplacing \/ SetFailed \/ HandleDeletion
    BY <1>3
    DEF AddFinalizer, HandlePending, HandleValidating, HandleReplacing, SetFailed,
        HandleDeletion, BeginDeletion, DeleteTempPVCs, DeleteMigrators,
        RemoveFinalizer, clusterVars
  <1>4. CASE Crash \/ ApiError \/ UserDelete \/ UNCHANGED vars
    BY <1>4 DEF Crash, ApiError, UserDelete, vars
  <1>5. CASE ClusterNext /\ UNCHANGED <<vr, run>>
    <2>1. CASE \E q \in Ordinals : PodStep(q)
      <3>1. PICK q \in Ordinals : PodStep(q)
        BY <2>1
      <3>2. q = r
        BY <1>0, <3>1 DEF PodStep, StsReconcile, PodStart, PodGone, PodEvicted
      <3> QED
        BY <1>5, <3>1, <3>2
    <2> QED
      BY <1>5, <2>1
      DEF ClusterNext, VolumeStep, Provision, BindAvailable, BindNamed, PvcGone,
          ReclaimPV, AppWrite, MigStep, MigStart, MigSucceed, MigFail, MigLost,
          MigGone, CacheSync, BackupLost
  <1> QED
    BY <1>1, <1>2, <1>3, <1>4, <1>5, WhoSteps

(* Only DeleteSTSOrphan and RecreateSTS touch the StatefulSet. *)
LEMMA StsChange ==
    ASSUME [Next]_vars, sts' # sts
    PROVE  DeleteSTSOrphan \/ RecreateSTS
  <1>1. CASE HandleSyncing
    BY <1>1
    DEF HandleSyncing, AdvanceCompleted, GetOriginalPVC, CreateTempPVC, SetRetainOnPV,
        BackupSTS, AnnotateSTSDeleted, RecordBackup, DeletePod,
        WaitForPodTermination, CreateMigratorPod, WaitForMigrationComplete,
        RecheckMigrator, CleanupMigratorPod, PersistCompleted,
        ClearAnnotation, CheckPodAndAdvance, clusterVars
  <1>2. CASE ReplacePVC
    BY <1>2
    DEF ReplacePVC, RetainNewPV, DeleteTempPVC, WaitTempGone, WaitOrigGone,
        WaitClaimGone, ClearClaimRef, DeleteOrigPVC, CreateOrigPVC
  <1>3. CASE \/ AddFinalizer \/ HandlePending \/ HandleValidating
             \/ HandleReplacing \/ SetFailed \/ HandleDeletion
    BY <1>3
    DEF AddFinalizer, HandlePending, HandleValidating, HandleReplacing, SetFailed,
        HandleDeletion, BeginDeletion, DeleteTempPVCs, DeleteMigrators,
        RemoveFinalizer, clusterVars
  <1>4. CASE Crash \/ ApiError \/ UserDelete \/ UNCHANGED vars
    BY <1>4 DEF Crash, ApiError, UserDelete, vars
  <1>5. CASE ClusterNext /\ UNCHANGED <<vr, run>>
    BY <1>5
    DEF ClusterNext, PodStep, StsReconcile, PodStart, PodGone, PodEvicted,
        VolumeStep, Provision, BindAvailable, BindNamed, PvcGone,
        ReclaimPV, AppWrite, MigStep, MigStart, MigSucceed, MigFail, MigLost,
        MigGone, CacheSync, BackupLost
  <1> QED
    BY <1>1, <1>2, <1>3, <1>4, <1>5, WhoSteps

(* A migrator pod is touched by its own life, by a run about its slot, by the
   deletion of the VolumeResize, and by a restart of the operator, which sees it. *)
LEMMA MigChange ==
    ASSUME TypeInv, [Next]_vars, NEW s \in Slots, mig'[s] # mig[s]
    PROVE  \/ MigStep(s) /\ UNCHANGED <<vr, run>>
           \/ (CreateMigratorPod \/ CleanupMigratorPod) /\ s = vr.cur
           \/ DeleteMigrators \/ Crash
  <1>0. mig \in [Slots -> MigRecords]
    BY DEF TypeInv, TypeOK, ClusterTypeOK
  <1>1. CASE HandleSyncing
    BY <1>0, <1>1
    DEF HandleSyncing, AdvanceCompleted, GetOriginalPVC, CreateTempPVC, SetRetainOnPV,
        BackupSTS, DeleteSTSOrphan, AnnotateSTSDeleted, RecordBackup, DeletePod,
        WaitForPodTermination, CreateMigratorPod, WaitForMigrationComplete,
        RecheckMigrator, CleanupMigratorPod, PersistCompleted, RecreateSTS,
        ClearAnnotation, CheckPodAndAdvance, clusterVars
  <1>2. CASE ReplacePVC
    BY <1>2
    DEF ReplacePVC, RetainNewPV, DeleteTempPVC, WaitTempGone, WaitOrigGone,
        WaitClaimGone, ClearClaimRef, DeleteOrigPVC, CreateOrigPVC
  <1>3. CASE \/ AddFinalizer \/ HandlePending \/ HandleValidating
             \/ HandleReplacing \/ SetFailed \/ HandleDeletion
    BY <1>3
    DEF AddFinalizer, HandlePending, HandleValidating, HandleReplacing, SetFailed,
        HandleDeletion, BeginDeletion, DeleteTempPVCs, RemoveFinalizer, clusterVars
  <1>4. CASE Crash \/ ApiError \/ UserDelete \/ UNCHANGED vars
    BY <1>4 DEF ApiError, UserDelete, vars
  <1>5. CASE ClusterNext /\ UNCHANGED <<vr, run>>
    <2>1. CASE \E t \in Slots : MigStep(t)
      <3>1. PICK t \in Slots : MigStep(t)
        BY <2>1
      <3>2. t = s
        BY <1>0, <3>1 DEF MigStep, MigStart, MigSucceed, MigFail, MigLost, MigGone,
           CacheSync
      <3> QED
        BY <1>5, <3>1, <3>2
    <2> QED
      BY <1>5, <2>1
      DEF ClusterNext, PodStep, StsReconcile, PodStart, PodGone, PodEvicted,
          VolumeStep, Provision, BindAvailable, BindNamed, PvcGone,
          ReclaimPV, AppWrite, BackupLost
  <1> QED
    BY <1>1, <1>2, <1>3, <1>4, <1>5, WhoSteps

(* A claim is made by the StatefulSet controller or by a run about its slot,
   bound and removed by the volume controllers, and told to go by a run. *)
LEMMA ClaimChange ==
    ASSUME TypeInv, [Next]_vars, NEW c \in Claims, pvc'[c] # pvc[c]
    PROVE  \/ VolumeStep(c) /\ UNCHANGED <<vr, run>>
           \/ StsReconcile(c[1][1]) /\ c[2] = "orig" /\ UNCHANGED <<vr, run>>
           \/ (CreateTempPVC \/ DeleteTempPVC) /\ c = CurTemp
           \/ (DeleteOrigPVC \/ CreateOrigPVC) /\ c = CurOrig
           \/ DeleteTempPVCs /\ c[2] = "temp"
  <1>0. pvc \in [Claims -> ClaimRecords]
    BY DEF TypeInv, TypeOK, ClusterTypeOK
  <1>1. CASE HandleSyncing
    BY <1>0, <1>1
    DEF HandleSyncing, AdvanceCompleted, GetOriginalPVC, CreateTempPVC, SetRetainOnPV,
        BackupSTS, DeleteSTSOrphan, AnnotateSTSDeleted, RecordBackup, DeletePod,
        WaitForPodTermination, CreateMigratorPod, WaitForMigrationComplete,
        RecheckMigrator, CleanupMigratorPod, PersistCompleted, RecreateSTS,
        ClearAnnotation, CheckPodAndAdvance, clusterVars
  <1>2. CASE ReplacePVC
    BY <1>0, <1>2
    DEF ReplacePVC, RetainNewPV, DeleteTempPVC, WaitTempGone, WaitOrigGone,
        WaitClaimGone, ClearClaimRef, DeleteOrigPVC, CreateOrigPVC, DeleteClaim
  <1>3. CASE \/ AddFinalizer \/ HandlePending \/ HandleValidating
             \/ HandleReplacing \/ SetFailed \/ HandleDeletion
    BY <1>0, <1>3
    DEF AddFinalizer, HandlePending, HandleValidating, HandleReplacing, SetFailed,
        HandleDeletion, BeginDeletion, DeleteTempPVCs, DeleteMigrators,
        RemoveFinalizer, clusterVars
  <1>4. CASE Crash \/ ApiError \/ UserDelete \/ UNCHANGED vars
    BY <1>4 DEF Crash, ApiError, UserDelete, vars
  <1>5. CASE ClusterNext /\ UNCHANGED <<vr, run>>
    <2>1. CASE \E d \in Claims : VolumeStep(d)
      <3>1. PICK d \in Claims : VolumeStep(d)
        BY <2>1
      <3>2. d = c
        BY <1>0, <3>1 DEF VolumeStep, Provision, BindAvailable, BindNamed, PvcGone, BindTo
      <3> QED
        BY <1>5, <3>1, <3>2
    <2>2. CASE \E r \in Ordinals : StsReconcile(r)
      <3>1. PICK r \in Ordinals : StsReconcile(r)
        BY <2>2
      <3>2. c[2] = "orig" /\ r = c[1][1]
        BY <1>0, <3>1 DEF StsReconcile
      <3> QED
        BY <1>5, <3>1, <3>2
    <2> QED
      BY <1>5, <2>1, <2>2
      DEF ClusterNext, PodStep, PodStart, PodGone, PodEvicted,
          ReclaimPV, AppWrite, MigStep, MigStart, MigSucceed, MigFail, MigLost,
          MigGone, CacheSync, BackupLost
  <1> QED
    BY <1>1, <1>2, <1>3, <1>4, <1>5, WhoSteps

(* Unless the process crashes or a call to the API server fails, a run moves
   from where it is by the one handler that is there. *)
LEMMA RunFrom ==
    ASSUME TypeInv, [Next]_vars, run' # run, ~ Crash, ~ ApiError
    PROVE  /\ run.pc = "idle" => \/ HandleValidating /\ ~ Valid
                                 \/ GetOriginalPVC \/ BeginDeletion
           /\ run.pc = "setFailed" => SetFailed
           /\ run.pc = "createTempPVC" => CreateTempPVC
           /\ run.pc = "setRetain" => SetRetainOnPV
           /\ run.pc = "backupSTS" => BackupSTS
           /\ run.pc = "deleteSTS" => DeleteSTSOrphan
           /\ run.pc = "annotateSTS" => AnnotateSTSDeleted
           /\ run.pc = "recordBackup" => RecordBackup
           /\ run.pc = "deletePod" => DeletePod
           /\ run.pc = "waitPod" => WaitForPodTermination
           /\ run.pc = "createMigrator" => CreateMigratorPod
           /\ run.pc = "waitMigrator" => WaitForMigrationComplete
           /\ run.pc = "recheckMigrator" => RecheckMigrator
           /\ run.pc = "cleanupMigrator" => CleanupMigratorPod
           /\ run.pc = "retainNewPV" => RetainNewPV
           /\ run.pc = "deleteTemp" => DeleteTempPVC
           /\ run.pc = "waitTemp" => WaitTempGone
           /\ run.pc = "clearClaimRef" => ClearClaimRef
           /\ run.pc = "deleteOrig" => DeleteOrigPVC
           /\ run.pc = "waitOrig" => WaitOrigGone
           /\ run.pc = "createOrig" => CreateOrigPVC
           /\ run.pc = "persistCompleted" => PersistCompleted
           /\ run.pc = "recreateSTS" => RecreateSTS
           /\ run.pc = "clearAnnotation" => ClearAnnotation
           /\ run.pc = "checkPod" => CheckPodAndAdvance
           /\ run.pc = "deleteTempPVCs" => DeleteTempPVCs
           /\ run.pc = "deleteMigrators" => DeleteMigrators
           /\ run.pc = "removeFinalizer" => RemoveFinalizer
  <1> USE DEF At
  <1>1. CASE HandleSyncing
    BY <1>1
    DEF HandleSyncing, AdvanceCompleted, GetOriginalPVC, CreateTempPVC, SetRetainOnPV,
        BackupSTS, DeleteSTSOrphan, AnnotateSTSDeleted, RecordBackup, DeletePod,
        WaitForPodTermination, CreateMigratorPod, WaitForMigrationComplete,
        RecheckMigrator, CleanupMigratorPod, PersistCompleted, RecreateSTS,
        ClearAnnotation, CheckPodAndAdvance, CanReconcile
  <1>2. CASE ReplacePVC
    BY <1>2
    DEF ReplacePVC, RetainNewPV, DeleteTempPVC, WaitTempGone, WaitOrigGone,
        WaitClaimGone, ClearClaimRef, DeleteOrigPVC, CreateOrigPVC
  <1>3. CASE \/ AddFinalizer \/ HandlePending \/ HandleValidating
             \/ HandleReplacing \/ SetFailed \/ HandleDeletion
    BY <1>3
    DEF AddFinalizer, HandlePending, HandleValidating, HandleReplacing, SetFailed,
        HandleDeletion, BeginDeletion, DeleteTempPVCs, DeleteMigrators,
        RemoveFinalizer, CanReconcile
  <1>4. CASE UserDelete \/ UNCHANGED vars
    BY <1>4 DEF UserDelete, vars
  <1>5. CASE ClusterNext /\ UNCHANGED <<vr, run>>
    BY <1>5
  <1> QED
    BY <1>1, <1>2, <1>3, <1>4, <1>5, WhoSteps

-----------------------------------------------------------------------------
(* The order of the slots. *)

Before(s, t) == s[1] < t[1] \/ (s[1] = t[1] /\ s[2] < t[2])

(* A slot is its replica and its volume. *)
LEMMA SlotParts ==
    ASSUME NEW s \in Slots
    PROVE  /\ s = <<s[1], s[2]>> /\ s[1] \in Nat /\ s[2] \in 1 .. NumVolumes
           /\ Replicas # 0 => s[1] < Replicas
  BY SizeAssumption DEF Slots, Ordinals

(* Two slots differ in the replica or in the volume. *)
LEMMA SlotsDiffer ==
    ASSUME NEW s \in Slots, NEW t \in Slots
    PROVE  s = t <=> s[1] = t[1] /\ s[2] = t[2]
  BY SlotParts

(* The slot after s is the next one in the order. *)
LEMMA NextInOrder ==
    ASSUME TypeInv, NEW s \in Slots, NextSlot(s) # NoSlot
    PROVE  /\ NextSlot(s) \in Slots
           /\ NextSlot(s)[1] * NumVolumes + NextSlot(s)[2]
                = s[1] * NumVolumes + s[2] + 1
           /\ Before(s, NextSlot(s))
           /\ \A u \in Slots : Before(u, NextSlot(s)) => u = s \/ Before(u, s)
  <1> DEFINE t == NextSlot(s)
  <1>1. t \in Slots
    BY NextSlotType DEF TypeInv
  <1>2. NumVolumes \in Nat \ {0} /\ s[1] \in Nat /\ s[2] \in 1 .. NumVolumes
    BY SlotParts, SizeAssumption
  <1>3. CASE s[2] < NumVolumes
    <2>1. t[1] = s[1] /\ t[2] = s[2] + 1
      BY <1>3 DEF NextSlot
    <2> HIDE DEF t
    <2>2. t[1] * NumVolumes + t[2] = s[1] * NumVolumes + s[2] + 1
      BY <1>2, <2>1
    <2>3. \A u \in Slots : Before(u, t) => u = s \/ Before(u, s)
      BY <1>2, <2>1, SlotParts, SlotsDiffer DEF Before
    <2> QED
      BY <1>1, <1>2, <2>1, <2>2, <2>3 DEF Before, t
  <1>4. CASE ~ (s[2] < NumVolumes)
    <2>1. t[1] = s[1] + 1 /\ t[2] = 1 /\ s[2] = NumVolumes
      BY <1>2, <1>4 DEF NextSlot
    <2> HIDE DEF t
    <2>2. t[1] * NumVolumes + t[2] = s[1] * NumVolumes + s[2] + 1
      BY <1>2, <2>1
    <2>3. \A u \in Slots : Before(u, t) => u = s \/ Before(u, s)
      BY <1>2, <2>1, SlotParts, SlotsDiffer DEF Before
    <2> QED
      BY <1>1, <1>2, <2>1, <2>2, <2>3 DEF Before, t
  <1> QED
    BY <1>3, <1>4

(* The cursor ends at the last slot. *)
LEMMA LastInOrder ==
    ASSUME TypeInv, NEW s \in Slots, NextSlot(s) = NoSlot,
           \A t \in Slots : vr.vs[t] # "none"
    PROVE  \A t \in Slots : t = s \/ Before(t, s)
  <1> TAKE t \in Slots
  <1>1. s[2] = NumVolumes /\ ~ HigherReplica(s)
    BY SlotParts, SizeAssumption DEF NextSlot, NoSlot
  <1>2. t[1] <= s[1]
    BY <1>1, SlotParts DEF HigherReplica
  <1> QED
    BY <1>1, <1>2, SlotParts, SlotsDiffer, SizeAssumption DEF Before

-----------------------------------------------------------------------------
(* What a run is about: only a VolumeResize that is there and carries the
   finalizer has one. *)
RunInv ==
    /\ run.pc # "idle" => vr.exists /\ vr.finalizer
    /\ vr.deleting => vr.finalizer
    /\ run.pc \in DeletionSteps => vr.deleting
    /\ run.pc = "setFailed" => vr.phase \in {"Validating", "Syncing"}

(* Before the first slot nothing is recorded. *)
StartInv ==
    vr.phase \in {"Pending", "Validating", "Replacing"} =>
        vr.cur = NoSlot /\ \A s \in Slots : vr.vs[s] = "none"

(* The completed slots are those before the cursor, and perhaps its own;
   without replicas there is no status to record that in. *)
OrderInv ==
    vr.phase = "Syncing" => \A s \in Slots :
        IF Replicas = 0 THEN vr.vs[s] = "none"
        ELSE /\ vr.vs[s] # "none"
             /\ Before(s, vr.cur) => vr.vs[s] = "Completed"
             /\ vr.vs[s] = "Completed" => s = vr.cur \/ Before(s, vr.cur)

(* The phase a run holds in memory is Completed from the swap on, and no other
   run is about a slot that is recorded as completed. *)
Persisted == {"recreateSTS", "clearAnnotation", "checkPod"}
MemInv ==
    /\ run.pc \in SyncSteps \cup ReplaceSteps =>
          /\ run.mem # "Completed" /\ Stored # "Completed"
          /\ Replicas # 0 => run.mem # "none"
    /\ run.pc = "persistCompleted" => run.mem = "Completed" /\ Stored # "Completed"
    /\ run.pc \in Persisted =>
          run.mem = "Completed" /\ (Replicas # 0 => Stored = "Completed")
    /\ run.pc = "setFailed" =>
          IF Replicas = 0 \/ vr.phase = "Validating" THEN Stored # "Completed"
          ELSE run.mem = "Completed" <=> Stored = "Completed"

(* A StatefulSet without replicas has no pods. *)
NoPods == \A r \in Ordinals : r >= Replicas => pod[r] = "absent"

(* The invariant about the cycle of a migration. *)
CycleInv == RunInv /\ StartInv /\ OrderInv /\ MemInv /\ NoPods

(* It holds at the start. *)
LEMMA CycleInit == Init => CycleInv
  <1> SUFFICES ASSUME Init PROVE CycleInv
    OBVIOUS
  <1>1. /\ run.pc = "idle" /\ vr.cur = NoSlot /\ vr.phase \in {"Pending", "Replacing"}
        /\ ~ vr.deleting
        /\ \A s \in Slots : vr.vs[s] = "none"
    BY ControllerAssumption DEF Init, Idle
  <1>2. NoPods
    BY SizeAssumption DEF Init, ClusterInit, NoPods, Ordinals
  <1> QED
    BY <1>1, <1>2, StepSets
    DEF CycleInv, RunInv, StartInv, OrderInv, MemInv, Persisted, RunOfSyncing,
        SyncSteps, ReplaceSteps, DeletionSteps

(* The pods of a StatefulSet without replicas stay away. *)
LEMMA NoPodsStep ==
    ASSUME TypeInv, NoPods, [Next]_vars
    PROVE  NoPods'
  <1> SUFFICES ASSUME NEW r \in Ordinals, r >= Replicas
               PROVE  pod'[r] = "absent"
    BY DEF NoPods
  <1>1. pod[r] = "absent" /\ pod \in [Ordinals -> PodStates]
    BY DEF NoPods, TypeInv, TypeOK, ClusterTypeOK
  <1>2. ~ (r < Replicas)
    BY SizeAssumption DEF Ordinals
  <1>3. CASE PodStep(r)
    BY <1>1, <1>2, <1>3 DEF PodStep, StsReconcile, PodStart, PodGone, PodEvicted
  <1>4. CASE DeletePod
    BY <1>1, <1>4 DEF DeletePod
  <1> QED
    BY <1>1, <1>3, <1>4, PodChange

(* Where the slot of the cursor stands. *)
LEMMA StoredIs ==
    ASSUME TypeInv, CycleInv
    PROVE  /\ vr.phase = "Validating" => Stored = "none"
           /\ vr.phase = "Syncing" =>
                 /\ vr.cur \in Slots /\ Stored = vr.vs[vr.cur]
                 /\ Replicas # 0 => Stored # "none"
                 /\ Replicas = 0 => Stored = "none"
  BY ControllerTyped DEF CycleInv, StartInv, OrderInv, Stored, TypeInv, CursorOK

(* Steps that leave the VolumeResize alone. *)
LEMMA CycleOfRun ==
    ASSUME TypeInv, CycleInv, RunStep
    PROVE  RunInv' /\ StartInv' /\ OrderInv' /\ MemInv'
  <1> USE DEF Persisted, SyncSteps, ReplaceSteps, DeletionSteps
  <1>1. UNCHANGED vr
    BY DEF RunStep, GoesOn, Returns, GivesUp, Enters
  <1>2. StartInv' /\ OrderInv'
    BY <1>1 DEF CycleInv, StartInv, OrderInv
  <1>3. Stored' = Stored /\ run \in RunRecords
    BY <1>1, ControllerTyped DEF Stored
  <1>4. CASE UNCHANGED run
    BY <1>1, <1>2, <1>3, <1>4 DEF CycleInv, RunInv, MemInv
  <1>5. CASE GoesOn
    <2>1. <<run.pc, run'.pc>> \in Flow /\ run'.mem = NextMem
      BY <1>5 DEF GoesOn
    <2>2. RunInv'
      BY <1>1, <2>1 DEF CycleInv, RunInv, Flow
    <2>3. MemInv'
      BY <1>3, <2>1, StoredIs DEF CycleInv, MemInv, Flow, NextMem
    <2> QED
      BY <1>2, <2>2, <2>3
  <1>6. CASE Returns
    BY <1>2, <1>6 DEF Returns, Idle, CycleInv, RunInv, MemInv
  <1>7. CASE GivesUp
    <2>1. run'.pc = "setFailed" /\ run'.mem = run.mem
      BY <1>3, <1>7 DEF GivesUp, RunRecords
    <2>2. vr.phase = "Syncing"
      BY <1>7, OnCursor DEF GivesUp, RunOfSyncing, ReturnSteps
    <2> QED
      BY <1>1, <1>2, <1>3, <1>7, <2>1, <2>2, StoredIs
      DEF GivesUp, CycleInv, RunInv, MemInv
  <1>8. ASSUME NEW pc \in {"setFailed", "createTempPVC", "deleteTempPVCs"}, Enters(pc)
        PROVE  RunInv' /\ MemInv'
    BY <1>3, <1>8, StoredIs DEF Enters, CycleInv, RunInv, MemInv
  <1>9. CASE \E pc \in {"setFailed", "createTempPVC", "deleteTempPVCs"} : Enters(pc)
    BY <1>2, <1>8, <1>9
  <1> QED
    BY <1>2, <1>4, <1>5, <1>6, <1>7, <1>9 DEF RunStep

(* What a write of the VolumeResize does, refused or not. *)
LEMMA WriteOutcome ==
    ASSUME NEW new, NEW next, WriteVR(new, next)
    PROVE  \/ Returns
           \/ ~ vr.deleting /\ vr' = new
              /\ run' = IF next = "idle" THEN Idle ELSE [run EXCEPT !.pc = next]
  BY DEF WriteVR, Returns, Return, Goto

(* What SetSlot does. *)
LEMMA SetSlotIs ==
    ASSUME NEW old \in VRRecords, NEW s \in Slots, NEW ph, NoSlot \notin Slots
    PROVE  LET new == SetSlot(old, s, ph)
           IN  /\ \A t \in Slots : new.vs[t] = IF t = s /\ old.vs[s] # "none"
                                                 THEN ph ELSE old.vs[t]
               /\ new.exists = old.exists /\ new.deleting = old.deleting
               /\ new.finalizer = old.finalizer /\ new.phase = old.phase
               /\ new.cur = old.cur /\ new.stsDeleted = old.stsDeleted
               /\ new.backupName = old.backupName /\ new.request = old.request
  BY DEF SetSlot, VRRecords

(* recordBackup and the persisted Completed write the phase the run holds in
   memory to the slot of the cursor, if that has a status. *)
LEMMA SlotWritten ==
    ASSUME TypeInv, NEW b \in BOOLEAN, NEW next,
           run.pc \in RunOfSyncing, next # "idle",
           WriteVR(SetSlot([vr EXCEPT !.backupName = b], vr.cur, run.mem), next)
    PROVE  \/ Returns
           \/ /\ ~ vr.deleting
              /\ \A t \in Slots : vr'.vs[t] = IF t = vr.cur /\ Stored # "none"
                                              THEN run.mem ELSE vr.vs[t]
              /\ vr'.exists = vr.exists /\ vr'.deleting = vr.deleting
              /\ vr'.finalizer = vr.finalizer /\ vr'.phase = vr.phase
              /\ vr'.cur = vr.cur /\ vr'.stsDeleted = vr.stsDeleted
              /\ vr'.backupName = b /\ vr'.request = vr.request
              /\ run' = [run EXCEPT !.pc = next] /\ run'.pc = next
              /\ run'.mem = run.mem
              /\ Stored' = IF Stored = "none" THEN "none" ELSE run.mem
  <1> DEFINE old == [vr EXCEPT !.backupName = b]
             new == SetSlot(old, vr.cur, run.mem)
  <1>1. /\ vr \in VRRecords /\ run \in RunRecords /\ NoSlot \notin Slots
        /\ vr.cur \in Slots /\ Stored = vr.vs[vr.cur] /\ vr.cur # NoSlot
    BY ControllerTyped, OnCursor DEF Stored
  <1>2. /\ old \in VRRecords /\ old.vs = vr.vs /\ old.exists = vr.exists
        /\ old.deleting = vr.deleting /\ old.finalizer = vr.finalizer
        /\ old.phase = vr.phase /\ old.cur = vr.cur
        /\ old.stsDeleted = vr.stsDeleted /\ old.backupName = b
        /\ old.request = vr.request
    BY <1>1 DEF VRRecords
  <1> HIDE DEF old
  <1>3. /\ \A t \in Slots : new.vs[t] = IF t = vr.cur /\ Stored # "none"
                                        THEN run.mem ELSE vr.vs[t]
        /\ new.exists = vr.exists /\ new.deleting = vr.deleting
        /\ new.finalizer = vr.finalizer /\ new.phase = vr.phase
        /\ new.cur = vr.cur /\ new.stsDeleted = vr.stsDeleted
        /\ new.backupName = b /\ new.request = vr.request
    BY <1>1, <1>2, SetSlotIs
  <1>4. WriteVR(new, next)
    BY DEF old
  <1> HIDE DEF new
  <1>5. Returns \/ (~ vr.deleting /\ vr' = new /\ run' = [run EXCEPT !.pc = next])
    BY <1>4, WriteOutcome
  <1>6. CASE ~ vr.deleting /\ vr' = new /\ run' = [run EXCEPT !.pc = next]
    <2>1. run'.pc = next /\ run'.mem = run.mem
      BY <1>1, <1>6 DEF RunRecords
    <2>2. Stored' = IF Stored = "none" THEN "none" ELSE run.mem
      BY <1>1, <1>3, <1>6 DEF Stored
    <2> QED
      BY <1>3, <1>6, <2>1, <2>2
  <1> QED
    BY <1>5, <1>6

(* The two writes of that kind. *)
LEMMA SlotWrites ==
    ASSUME TypeInv
    PROVE  /\ RecordBackup => run.pc = "recordBackup"
              /\ WriteVR(SetSlot([vr EXCEPT !.backupName = TRUE], vr.cur, run.mem), "deletePod")
           /\ PersistCompleted => run.pc = "persistCompleted"
              /\ WriteVR(SetSlot([vr EXCEPT !.backupName = vr.backupName],
                                 vr.cur, run.mem), "recreateSTS")
           /\ vr.backupName \in BOOLEAN
  <1>1. vr = [vr EXCEPT !.backupName = vr.backupName] /\ vr.backupName \in BOOLEAN
    BY ControllerTyped DEF VRRecords
  <1> QED
    BY <1>1 DEF RecordBackup, PersistCompleted, At

(* The cursor goes to the next slot or to the end. *)
LEMMA AdvancedIs ==
    ASSUME TypeInv
    PROVE  /\ Advanced.vs = vr.vs /\ Advanced.exists = vr.exists
           /\ Advanced.deleting = vr.deleting /\ Advanced.finalizer = vr.finalizer
           /\ Advanced.stsDeleted = vr.stsDeleted
           /\ Advanced.backupName = vr.backupName /\ Advanced.request = vr.request
           /\ NextSlot(vr.cur) = NoSlot =>
                 Advanced.phase = "Completed" /\ Advanced.cur = NoSlot
           /\ NextSlot(vr.cur) # NoSlot =>
                 Advanced.phase = vr.phase /\ Advanced.cur = NextSlot(vr.cur)
  BY ControllerTyped DEF Advanced, VRRecords

(* A valid request starts with the first slot, nothing completed. *)
LEMMA ValidatedIs ==
    ASSUME TypeInv, CycleInv, HandleValidating, Valid, UNCHANGED run
    PROVE  /\ vr'.phase = "Syncing" /\ vr'.cur = <<0, 1>>
           /\ \A s \in Slots : vr'.vs[s] = IF s[1] < Replicas THEN "Pending" ELSE "none"
           /\ vr'.exists = vr.exists /\ vr'.deleting = vr.deleting
           /\ vr'.finalizer = vr.finalizer /\ vr'.stsDeleted = vr.stsDeleted
           /\ vr'.backupName = vr.backupName /\ vr.phase = "Validating"
           /\ \A s \in Slots : vr.vs[s] = "none"
           /\ Stored' # "Completed"
  <1> DEFINE vs == [s \in Slots |-> IF s[1] < Replicas THEN "Pending" ELSE vr.vs[s]]
  <1>1. vr \in VRRecords /\ NoSlot \notin Slots
    BY ControllerTyped
  <1>2. vr.phase = "Validating" /\ \A s \in Slots : vr.vs[s] = "none"
    BY DEF HandleValidating, CanReconcile, CycleInv, StartInv
  <1>3. vr' = [vr EXCEPT !.phase = "Syncing", !.cur = <<0, 1>>, !.vs = vs]
    BY <1>1 DEF HandleValidating, VRRecords
  <1>4. \A s \in Slots : vs[s] = IF s[1] < Replicas THEN "Pending" ELSE "none"
    BY <1>2
  <1>5. <<0, 1>> \in Slots
    BY SizeAssumption DEF Slots, Ordinals
  <1> HIDE DEF vs
  <1> QED
    BY <1>1, <1>2, <1>3, <1>4, <1>5 DEF VRRecords, Stored, NoSlot

(* Advancing is for a slot that is completed, of a StatefulSet with replicas. *)
LEMMA AdvanceSteps ==
    ASSUME TypeInv, CycleInv, AdvanceCompleted \/ CheckPodAndAdvance
    PROVE  \/ Returns
           \/ /\ ~ vr.deleting /\ vr.exists /\ vr.phase = "Syncing" /\ vr.cur \in Slots
              /\ Stored = "Completed" /\ vr.vs[vr.cur] = "Completed" /\ Replicas # 0
              /\ vr' = Advanced /\ run'.pc = "idle"
  <1>1. CASE AdvanceCompleted
    <2>1. /\ vr.phase = "Syncing" /\ Stored = "Completed" /\ run'.pc = "idle"
          /\ vr.exists /\ ~ vr.deleting /\ vr' = Advanced
      BY <1>1 DEF AdvanceCompleted, CanReconcile, At
    <2> QED
      BY <2>1, StoredIs
  <1>2. CASE CheckPodAndAdvance
    <2>1. run.pc = "checkPod"
      BY <1>2 DEF CheckPodAndAdvance, At
    <2>2. vr.phase = "Syncing" /\ vr.cur \in Slots /\ vr.cur[1] \in Ordinals /\ vr.exists
      BY <2>1, OnCursor DEF RunOfSyncing, ReturnSteps, CycleInv, RunInv
    <2>3. CASE CurPod \in {"running", "terminating"} /\ WriteVR(Advanced, "idle")
      <3>1. Replicas # 0
        <4>1. CurPod # "absent"
          BY <2>3
        <4> QED
          BY <2>2, <4>1, SlotParts DEF CycleInv, NoPods, CurPod
      <3>2. Stored = "Completed"
        BY <2>1, <3>1 DEF CycleInv, MemInv, Persisted
      <3> QED
        BY <2>2, <2>3, <3>1, <3>2, StoredIs, WriteOutcome DEF Idle
    <2> QED
      BY <1>2, <2>3 DEF CheckPodAndAdvance, Return, Returns
  <1> QED
    BY <1>1, <1>2

(* A failure is written with the phase the run holds in memory. *)
LEMMA FailureWritten ==
    ASSUME TypeInv, SetFailed
    PROVE  \/ Returns
           \/ /\ ~ vr.deleting /\ vr'.phase = "Failed" /\ run' = Idle
              /\ \A t \in Slots : vr'.vs[t] = IF t = vr.cur /\ vr.vs[t] # "none"
                                              THEN run.mem ELSE vr.vs[t]
              /\ vr'.exists = vr.exists /\ vr'.deleting = vr.deleting
              /\ vr'.finalizer = vr.finalizer /\ vr'.cur = vr.cur
              /\ vr'.stsDeleted = vr.stsDeleted /\ vr'.backupName = vr.backupName
              /\ vr'.request = vr.request
  <1> DEFINE old == [vr EXCEPT !.phase = "Failed"]
             new == SetSlot(old, vr.cur, run.mem)
  <1>1. vr \in VRRecords /\ NoSlot \notin Slots /\ vr.cur \in Slots \cup {NoSlot}
    BY ControllerTyped
  <1>2. /\ old \in VRRecords /\ old.phase = "Failed" /\ old.exists = vr.exists
        /\ old.deleting = vr.deleting /\ old.finalizer = vr.finalizer
        /\ old.cur = vr.cur /\ old.vs = vr.vs
        /\ old.stsDeleted = vr.stsDeleted /\ old.backupName = vr.backupName
        /\ old.request = vr.request
    BY <1>1 DEF VRRecords, Phases
  <1> HIDE DEF old
  <1>3. /\ new.phase = "Failed" /\ new.exists = vr.exists /\ new.cur = vr.cur
        /\ new.deleting = vr.deleting /\ new.finalizer = vr.finalizer
        /\ new.stsDeleted = vr.stsDeleted /\ new.backupName = vr.backupName
        /\ new.request = vr.request
        /\ \A t \in Slots : new.vs[t] = IF t = vr.cur /\ vr.vs[t] # "none"
                                        THEN run.mem ELSE vr.vs[t]
    BY <1>1, <1>2, SetSlotIs DEF SetSlot
  <1>4. WriteVR(new, "idle")
    BY DEF SetFailed, old
  <1> HIDE DEF new
  <1> QED
    BY <1>3, <1>4, WriteOutcome

(* Steps that write the VolumeResize. *)
LEMMA CycleOfWrite ==
    ASSUME TypeInv, TypeInv', CycleInv, StatusWrite
    PROVE  RunInv' /\ StartInv' /\ OrderInv' /\ MemInv'
  <1> USE DEF Persisted, SyncSteps, ReplaceSteps, DeletionSteps, At
  <1>1. /\ vr \in VRRecords /\ run \in RunRecords /\ NoSlot \notin Slots
        /\ vr.vs \in [Slots -> SlotPhases]
    BY ControllerTyped DEF VRRecords
  <1>2. ASSUME Returns
        PROVE  RunInv' /\ StartInv' /\ OrderInv' /\ MemInv'
    BY <1>2, CycleOfRun DEF RunStep
  <1>3. ASSUME vr'.phase = vr.phase, vr'.cur = vr.cur, vr'.vs = vr.vs,
               vr'.exists = vr.exists, vr.finalizer => vr'.finalizer,
               vr.deleting => vr'.deleting, vr'.deleting => vr'.finalizer,
               UNCHANGED run
        PROVE  RunInv' /\ StartInv' /\ OrderInv' /\ MemInv'
    BY <1>3 DEF CycleInv, RunInv, StartInv, OrderInv, MemInv, Stored
  <1>4. ASSUME UNCHANGED run, run.pc = "idle", vr' \in VRRecords,
               vr'.deleting => vr'.finalizer, StartInv', OrderInv'
        PROVE  RunInv' /\ StartInv' /\ OrderInv' /\ MemInv'
    BY <1>4 DEF RunInv, MemInv
  <1>5. CASE AddFinalizer
    BY <1>1, <1>3, <1>5 DEF AddFinalizer, VRRecords, CycleInv, RunInv
  <1>6. CASE HandlePending
    <2>1. vr'.phase = "Validating" /\ vr'.cur = vr.cur
          /\ \A s \in Slots : vr'.vs[s] = "none"
      BY <1>1, <1>6 DEF HandlePending, VRRecords
    <2>2. StartInv' /\ OrderInv'
      BY <1>6, <2>1 DEF HandlePending, CanReconcile, CycleInv, StartInv, OrderInv
    <2>3. vr' \in VRRecords
      BY DEF TypeInv, TypeOK, ControllerTypeOK
    <2> QED
      BY <1>1, <1>4, <1>6, <2>2, <2>3 DEF HandlePending, CanReconcile, VRRecords
  <1>7. CASE HandleReplacing
    <2>1. StartInv' /\ OrderInv'
      BY <1>1, <1>7 DEF HandleReplacing, VRRecords, StartInv, OrderInv
    <2>2. vr' \in VRRecords
      BY DEF TypeInv, TypeOK, ControllerTypeOK
    <2> QED
      BY <1>1, <1>4, <1>7, <2>1, <2>2 DEF HandleReplacing, CanReconcile, VRRecords
  <1>8. CASE HandleValidating /\ Valid
    <2>2. /\ vr'.phase = "Syncing" /\ vr'.cur = <<0, 1>>
          /\ \A s \in Slots : vr'.vs[s] = IF s[1] < Replicas THEN "Pending" ELSE "none"
      BY <1>8, ValidatedIs DEF HandleValidating
    <2>3. StartInv'
      BY <2>2 DEF StartInv
    <2>4. OrderInv'
      BY <2>2, SlotParts DEF OrderInv, Before
    <2>5. vr' \in VRRecords
      BY DEF TypeInv, TypeOK, ControllerTypeOK
    <2> QED
      BY <1>1, <1>4, <1>8, <2>3, <2>4, <2>5 DEF HandleValidating, CanReconcile, VRRecords
  <1>9. CASE UserDelete
    <2>1. CASE vr.finalizer
      BY <1>1, <1>3, <1>9, <2>1 DEF UserDelete, VRRecords
    <2>2. CASE ~ vr.finalizer
      <3>1. run.pc = "idle" /\ vr' = [vr EXCEPT !.exists = FALSE]
        BY <1>9, <2>2 DEF UserDelete, CycleInv, RunInv
      <3>2. StartInv' /\ OrderInv'
        BY <1>1, <3>1 DEF VRRecords, CycleInv, StartInv, OrderInv
      <3> QED
        BY <1>1, <1>4, <1>9, <2>2, <3>1, <3>2
        DEF UserDelete, VRRecords, CycleInv, RunInv, TypeInv, TypeOK, ControllerTypeOK
    <2> QED
      BY <2>1, <2>2
  <1>10. ASSUME run'.pc = "idle", vr'.deleting => vr'.finalizer, StartInv', OrderInv'
         PROVE  RunInv' /\ StartInv' /\ OrderInv' /\ MemInv'
    BY <1>10 DEF RunInv, MemInv, Idle
  <1>11. CASE RemoveFinalizer
    <2>1. StartInv' /\ OrderInv'
      BY <1>1, <1>11 DEF RemoveFinalizer, VRRecords, CycleInv, StartInv, OrderInv
    <2> QED
      BY <1>1, <1>10, <1>11, <2>1
      DEF RemoveFinalizer, Return, Idle, VRRecords, CycleInv, RunInv
  <1>12. CASE SetFailed
    <2>1. CASE ~ Returns
      <3>1. /\ vr'.phase = "Failed" /\ run'.pc = "idle" /\ vr'.deleting = vr.deleting
            /\ vr'.finalizer = vr.finalizer
        BY <1>12, <2>1, FailureWritten DEF Idle
      <3>2. StartInv' /\ OrderInv'
        BY <3>1 DEF StartInv, OrderInv
      <3> QED
        BY <1>10, <3>1, <3>2 DEF CycleInv, RunInv
    <2> QED
      BY <1>2, <2>1
  <1>13. CASE AnnotateSTSDeleted
    <2>1. CASE vr.deleting
      BY <1>2, <1>13, <2>1 DEF AnnotateSTSDeleted, Return, Returns
    <2>2. CASE ~ vr.deleting
      <3>1. /\ vr'.phase = vr.phase /\ vr'.cur = vr.cur /\ vr'.vs = vr.vs
            /\ vr'.exists = vr.exists /\ vr'.finalizer = vr.finalizer
            /\ vr'.deleting = vr.deleting /\ run'.pc = "recordBackup"
            /\ run'.mem = Stored /\ run.pc = "annotateSTS" /\ vr.phase = "Syncing"
        BY <1>1, <1>13, <2>2, OnCursor DEF AnnotateSTSDeleted, VRRecords, RunRecords,
           RunOfSyncing
      <3>2. RunInv' /\ MemInv'
        BY <3>1, StoredIs DEF CycleInv, RunInv, MemInv, Stored
      <3>3. StartInv' /\ OrderInv'
        BY <3>1 DEF CycleInv, StartInv, OrderInv
      <3> QED
        BY <3>2, <3>3
    <2> QED
      BY <2>1, <2>2
  <1>14. CASE RecordBackup
    <2>1. /\ run.pc = "recordBackup" /\ vr.phase = "Syncing" /\ vr.cur \in Slots
          /\ Stored = vr.vs[vr.cur] /\ run.mem # "Completed" /\ Stored # "Completed"
          /\ Replicas # 0 => run.mem # "none" /\ Stored # "none"
          /\ Replicas = 0 => Stored = "none"
      BY <1>14, SlotWrites, OnCursor, StoredIs DEF RunOfSyncing, CycleInv, MemInv
    <2>2. CASE ~ Returns
      <3>1. /\ vr'.phase = vr.phase /\ vr'.cur = vr.cur
            /\ vr'.exists = vr.exists /\ vr'.finalizer = vr.finalizer
            /\ vr'.deleting = vr.deleting /\ run'.pc = "deletePod"
            /\ run'.mem = run.mem /\ Stored' = IF Stored = "none" THEN "none" ELSE run.mem
            /\ \A t \in Slots : vr'.vs[t] = IF t = vr.cur /\ Stored # "none"
                                            THEN run.mem ELSE vr.vs[t]
        BY <1>14, <2>1, <2>2, SlotWrites, SlotWritten DEF RunOfSyncing
      <3>2. RunInv'
        BY <2>1, <3>1 DEF CycleInv, RunInv
      <3>5. MemInv'
        BY <2>1, <3>1 DEF MemInv
      <3>3. OrderInv'
        BY <2>1, <3>1 DEF CycleInv, OrderInv
      <3>4. StartInv'
        BY <2>1, <3>1 DEF StartInv
      <3> QED
        BY <3>2, <3>3, <3>4, <3>5
    <2> QED
      BY <1>2, <2>2
  <1>15. CASE PersistCompleted
    <2>1. /\ run.pc = "persistCompleted" /\ vr.phase = "Syncing" /\ vr.cur \in Slots
          /\ Stored = vr.vs[vr.cur] /\ run.mem = "Completed"
          /\ Replicas # 0 => Stored # "none"
          /\ Replicas = 0 => Stored = "none"
      BY <1>15, SlotWrites, OnCursor, StoredIs DEF RunOfSyncing, ReturnSteps, CycleInv, MemInv
    <2>2. CASE ~ Returns
      <3>1. /\ vr'.phase = vr.phase /\ vr'.cur = vr.cur
            /\ vr'.exists = vr.exists /\ vr'.finalizer = vr.finalizer
            /\ vr'.deleting = vr.deleting /\ run'.pc = "recreateSTS"
            /\ run'.mem = run.mem /\ Stored' = IF Stored = "none" THEN "none" ELSE run.mem
            /\ \A t \in Slots : vr'.vs[t] = IF t = vr.cur /\ Stored # "none"
                                            THEN run.mem ELSE vr.vs[t]
        BY <1>15, <2>1, <2>2, SlotWrites, SlotWritten DEF RunOfSyncing, ReturnSteps
      <3>2. RunInv' /\ MemInv'
        BY <2>1, <3>1 DEF CycleInv, RunInv, MemInv
      <3>3. OrderInv'
        BY <2>1, <3>1 DEF CycleInv, OrderInv
      <3>4. StartInv'
        BY <2>1, <3>1 DEF StartInv
      <3> QED
        BY <3>2, <3>3, <3>4
    <2> QED
      BY <1>2, <2>2
  <1>16. CASE ClearAnnotation
    <2>1. run.pc = "clearAnnotation" /\ WriteVR([vr EXCEPT !.stsDeleted = FALSE], "checkPod")
      BY <1>16 DEF ClearAnnotation
    <2>2. CASE ~ Returns
      <3>1. /\ vr'.phase = vr.phase /\ vr'.cur = vr.cur /\ vr'.vs = vr.vs
            /\ vr'.exists = vr.exists /\ vr'.finalizer = vr.finalizer
            /\ vr'.deleting = vr.deleting /\ run'.pc = "checkPod"
            /\ run'.mem = run.mem /\ Stored' = Stored
        BY <1>1, <2>1, <2>2, WriteOutcome DEF VRRecords, RunRecords, Stored
      <3>2. RunInv' /\ MemInv'
        BY <2>1, <3>1 DEF CycleInv, RunInv, MemInv
      <3>3. StartInv' /\ OrderInv'
        BY <3>1 DEF CycleInv, StartInv, OrderInv
      <3> QED
        BY <3>2, <3>3
    <2> QED
      BY <1>2, <2>2
  <1>17. CASE AdvanceCompleted \/ CheckPodAndAdvance
    <2>1. CASE ~ Returns
      <3>1. /\ vr.phase = "Syncing" /\ vr.cur \in Slots /\ vr.vs[vr.cur] = "Completed"
            /\ Replicas # 0 /\ vr' = Advanced /\ run'.pc = "idle"
        BY <1>17, <2>1, AdvanceSteps
      <3>2. vr'.deleting => vr'.finalizer
        BY <3>1, AdvancedIs DEF CycleInv, RunInv
      <3>3. CASE NextSlot(vr.cur) = NoSlot
        <4>1. vr'.phase = "Completed"
          BY <3>1, <3>3, AdvancedIs
        <4>2. StartInv' /\ OrderInv'
          BY <4>1 DEF StartInv, OrderInv
        <4> QED
          BY <1>10, <3>1, <3>2, <4>2
      <3>4. CASE NextSlot(vr.cur) # NoSlot
        <4>1. vr'.phase = "Syncing" /\ vr'.cur = NextSlot(vr.cur) /\ vr'.vs = vr.vs
          BY <3>1, <3>4, AdvancedIs
        <4>2. StartInv'
          BY <4>1 DEF StartInv
        <4>3. /\ Before(vr.cur, vr'.cur)
              /\ \A u \in Slots : Before(u, vr'.cur) => u = vr.cur \/ Before(u, vr.cur)
          BY <3>1, <3>4, <4>1, NextInOrder
        <4>4. ASSUME NEW s \in Slots
              PROVE  /\ vr'.vs[s] # "none"
                     /\ Before(s, vr'.cur) => vr'.vs[s] = "Completed"
                     /\ vr'.vs[s] = "Completed" => s = vr'.cur \/ Before(s, vr'.cur)
          <5>1. /\ vr.vs[s] # "none"
                /\ Before(s, vr.cur) => vr.vs[s] = "Completed"
                /\ vr.vs[s] = "Completed" => s = vr.cur \/ Before(s, vr.cur)
            BY <3>1 DEF CycleInv, OrderInv
          <5>2. vr'.cur \in Slots
            BY <3>1, <3>4, <4>1, NextInOrder
          <5>3. Before(s, vr.cur) => Before(s, vr'.cur)
            BY <3>1, <4>3, <5>2, SlotParts DEF Before
          <5> QED
            BY <3>1, <4>1, <4>3, <5>1, <5>3
        <4>5. OrderInv'
          BY <3>1, <4>4 DEF OrderInv
        <4> QED
          BY <1>10, <3>1, <3>2, <4>2, <4>5
      <3> QED
        BY <3>3, <3>4
    <2> QED
      BY <1>2, <2>1
  <1> QED
    BY <1>5, <1>6, <1>7, <1>8, <1>9, <1>11, <1>12, <1>13, <1>14, <1>15, <1>16, <1>17
    DEF StatusWrite

(* Every step keeps the invariant of the cycle. *)
LEMMA CycleStep ==
    ASSUME TypeInv, CycleInv, [Next]_vars
    PROVE  TypeInv' /\ CycleInv'
  <1>1. TypeInv'
    BY TypeStep
  <1>2. NoPods'
    BY NoPodsStep DEF CycleInv
  <1> QED
    BY <1>1, <1>2, ControlSteps, CycleOfRun, CycleOfWrite DEF CycleInv

(* The invariant of the cycle always holds. *)
LEMMA CycleAlways == Spec => [](TypeInv /\ CycleInv)
  <1>1. Init => TypeInv /\ CycleInv
    BY TypeInit, CycleInit
  <1>2. TypeInv /\ CycleInv /\ [Next]_vars => (TypeInv /\ CycleInv)'
    BY CycleStep
  <1> QED
    BY <1>1, <1>2, PTL DEF Spec

-----------------------------------------------------------------------------
(* The refinement of MigrationLifecycle. *)

(* The slots the status records as completed. *)
Completed == {s \in Slots : vr.vs[s] = "Completed"}

(* The slots completed stay the same when none of them changes. *)
LEMMA SameCompleted ==
    ASSUME \A s \in Slots : vr'.vs[s] = "Completed" <=> vr.vs[s] = "Completed"
    PROVE  Completed' = Completed
  BY DEF Completed

(* A write that the life cycle does not see. *)
LEMMA Stutters ==
    ASSUME vr'.exists = vr.exists, vr'.phase = vr.phase, vr'.cur = vr.cur,
           \A s \in Slots : vr'.vs[s] = "Completed" <=> vr.vs[s] = "Completed"
    PROVE  UNCHANGED Lifecycle!lifecycle
  BY SameCompleted DEF Lifecycle!lifecycle, Completed

(* A VolumeResize starts where the life cycle does. *)
LEMMA LifecycleInits == Init => Lifecycle!LifecycleInit
  <1> SUFFICES ASSUME Init PROVE Lifecycle!LifecycleInit
    OBVIOUS
  <1>1. /\ vr.exists /\ vr.cur = NoSlot /\ vr.phase \in {"Pending", "Replacing"}
        /\ \A s \in Slots : vr.vs[s] = "none"
    BY ControllerAssumption DEF Init
  <1> QED
    BY <1>1 DEF Lifecycle!LifecycleInit, NoSlot, Lifecycle!NoCursor

(* Steps that leave the object alone change nothing the user sees. *)
LEMMA RunStutters ==
    ASSUME RunStep
    PROVE  UNCHANGED Lifecycle!lifecycle
  <1>1. UNCHANGED vr
    BY DEF RunStep, GoesOn, Returns, GivesUp, Enters
  <1> QED
    BY <1>1 DEF Lifecycle!lifecycle

(* No slot comes before the first volume of replica 0. *)
LEMMA FirstInOrder ==
    ASSUME NEW s \in Slots
    PROVE  /\ <<0, 1>> \in Slots
           /\ Lifecycle!rank(<<0, 1>>) <= Lifecycle!rank(s)
  <1>1. s[1] \in Nat /\ s[2] \in Nat /\ s[2] >= 1 /\ NumVolumes \in Nat
    BY SlotParts, SizeAssumption
  <1>2. s[1] * NumVolumes >= 0
    BY <1>1
  <1>3. <<0, 1>> \in Slots
    BY SizeAssumption DEF Slots, Ordinals
  <1> QED
    BY <1>1, <1>2, <1>3 DEF Lifecycle!rank

(* The slot the cursor goes to is not completed. *)
LEMMA NextNotCompleted ==
    ASSUME TypeInv, CycleInv, vr.phase = "Syncing", vr.cur \in Slots, Replicas # 0,
           NextSlot(vr.cur) # NoSlot
    PROVE  NextSlot(vr.cur) \in Slots /\ vr.vs[NextSlot(vr.cur)] # "Completed"
  <1> DEFINE t == NextSlot(vr.cur)
  <1>1. t \in Slots /\ Before(vr.cur, t)
    BY NextInOrder
  <1> HIDE DEF t
  <1>2. t # vr.cur /\ ~ Before(t, vr.cur)
    BY <1>1, SlotParts DEF Before
  <1>3. vr.vs[t] = "Completed" => t = vr.cur \/ Before(t, vr.cur)
    BY <1>1 DEF CycleInv, OrderInv
  <1> QED
    BY <1>1, <1>2, <1>3 DEF t

(* Every write of the VolumeResize is a step of the life cycle, or does not
   show. *)
LEMMA WritesFollow ==
    ASSUME TypeInv, CycleInv, StatusWrite
    PROVE  Lifecycle!LifecycleNext \/ UNCHANGED Lifecycle!lifecycle
  <1> USE DEF At, Lifecycle!LifecycleNext
  <1>1. /\ vr \in VRRecords /\ run \in RunRecords /\ NoSlot \notin Slots
        /\ vr.vs \in [Slots -> SlotPhases]
    BY ControllerTyped DEF VRRecords
  <1>2. ASSUME Returns
        PROVE  UNCHANGED Lifecycle!lifecycle
    BY <1>2, RunStutters DEF RunStep
  <1>3. CASE AddFinalizer
    BY <1>1, <1>3, Stutters DEF AddFinalizer, VRRecords
  <1>4. CASE HandlePending
    <2>1. /\ vr.exists /\ vr.phase = "Pending" /\ \A s \in Slots : vr.vs[s] = "none"
      BY <1>4 DEF HandlePending, CanReconcile, CycleInv, StartInv
    <2>2. /\ vr'.exists = vr.exists /\ vr'.phase = "Validating" /\ vr'.cur = vr.cur
          /\ \A s \in Slots : vr'.vs[s] = "none"
      BY <1>1, <1>4 DEF HandlePending, VRRecords
    <2>3. Lifecycle!Accept
      BY <2>1, <2>2, SameCompleted DEF Lifecycle!Accept, Completed
    <2> QED
      BY <2>3
  <1>5. CASE HandleValidating /\ Valid
    <2>1. /\ vr.exists /\ vr.phase = "Validating" /\ \A s \in Slots : vr.vs[s] = "none"
          /\ UNCHANGED run
      BY <1>5 DEF HandleValidating, CanReconcile, CycleInv, StartInv
    <2>2. /\ vr'.exists = vr.exists /\ vr'.phase = "Syncing" /\ vr'.cur = <<0, 1>>
          /\ \A s \in Slots : vr'.vs[s] # "Completed"
      BY <1>5, <2>1, ValidatedIs
    <2>3. \A s \in Slots : Lifecycle!rank(vr'.cur) <= Lifecycle!rank(s)
      BY <2>2, FirstInOrder
    <2>4. vr'.cur \in Slots
      BY <2>2, SizeAssumption DEF Slots, Ordinals
    <2>5. Completed' = Completed
      BY <2>1, <2>2, SameCompleted
    <2>6. Lifecycle!Start
      BY <2>1, <2>2, <2>3, <2>4, <2>5 DEF Lifecycle!Start, Completed
    <2> QED
      BY <2>6
  <1>6. CASE HandleReplacing
    <2>1. /\ vr.exists /\ vr.phase = "Replacing"
          /\ vr'.exists = vr.exists /\ vr'.phase = "Completed" /\ vr'.cur = vr.cur
          /\ vr'.vs = vr.vs
      BY <1>1, <1>6 DEF HandleReplacing, CanReconcile, VRRecords
    <2>2. Lifecycle!CloseLegacy
      BY <2>1, SameCompleted DEF Lifecycle!CloseLegacy, Completed
    <2> QED
      BY <2>2
  <1>7. CASE SetFailed
    <2>1. run.pc = "setFailed" /\ vr.exists /\ vr.phase \in {"Validating", "Syncing"}
      BY <1>7 DEF SetFailed, CycleInv, RunInv
    <2>2. CASE ~ Returns
      <3>1. /\ vr'.phase = "Failed" /\ vr'.exists = vr.exists /\ vr'.cur = vr.cur
            /\ \A t \in Slots : vr'.vs[t] = IF t = vr.cur /\ vr.vs[t] # "none"
                                            THEN run.mem ELSE vr.vs[t]
        BY <1>7, <2>2, FailureWritten
      <3>2. \A t \in Slots : vr'.vs[t] = "Completed" <=> vr.vs[t] = "Completed"
        BY <1>1, <2>1, <3>1, StoredIs DEF CycleInv, MemInv, Stored
      <3>3. Lifecycle!GiveUp
        BY <2>1, <3>1, <3>2, SameCompleted DEF Lifecycle!GiveUp, Completed
      <3> QED
        BY <3>3
    <2> QED
      BY <1>2, <2>2
  <1>8. CASE AdvanceCompleted \/ CheckPodAndAdvance
    <2>1. CASE ~ Returns
      <3>1. /\ vr.exists /\ vr.phase = "Syncing" /\ vr.cur \in Slots
            /\ vr.vs[vr.cur] = "Completed" /\ Replicas # 0
            /\ vr'.exists = vr.exists /\ vr'.vs = vr.vs
            /\ vr' = Advanced
        BY <1>8, <2>1, AdvanceSteps, AdvancedIs
      <3>2. \A s \in Slots :
               /\ vr.vs[s] # "none"
               /\ Before(s, vr.cur) => vr.vs[s] = "Completed"
               /\ vr.vs[s] = "Completed" => s = vr.cur \/ Before(s, vr.cur)
        BY <3>1 DEF CycleInv, OrderInv
      <3>3. Completed' = Completed
        BY <3>1, SameCompleted
      <3>4. CASE NextSlot(vr.cur) = NoSlot
        <4>1. vr'.phase = "Completed" /\ vr'.cur = NoSlot
          BY <3>1, <3>4, AdvancedIs
        <4>2. \A t \in Slots : t = vr.cur \/ Before(t, vr.cur)
          <5>1. \A t \in Slots : vr.vs[t] # "none"
            BY <3>2
          <5> QED
            BY <3>1, <3>4, <5>1, LastInOrder
        <4>4. \A t \in Slots : vr.vs[t] = "Completed"
          BY <3>1, <3>2, <4>2
        <4>3. Lifecycle!Complete
          BY <3>1, <3>3, <4>1, <4>4
          DEF Lifecycle!Complete, Completed, NoSlot, Lifecycle!NoCursor
        <4> QED
          BY <4>3
      <3>5. CASE NextSlot(vr.cur) # NoSlot
        <4>1. vr'.phase = "Syncing" /\ vr'.cur = NextSlot(vr.cur)
          BY <3>1, <3>5, AdvancedIs
        <4>2. /\ vr'.cur \in Slots /\ Before(vr.cur, vr'.cur)
              /\ vr'.cur[1] * NumVolumes + vr'.cur[2]
                    = vr.cur[1] * NumVolumes + vr.cur[2] + 1
          BY <3>1, <3>5, <4>1, NextInOrder
        <4>4. vr'.cur \notin Completed
          BY <3>1, <3>5, <4>1, NextNotCompleted DEF Completed
        <4>5. Lifecycle!rank(vr'.cur) = Lifecycle!rank(vr.cur) + 1
          BY <4>2 DEF Lifecycle!rank
        <4>6. Lifecycle!Advance
          BY <3>1, <3>3, <4>1, <4>2, <4>4, <4>5 DEF Lifecycle!Advance, Completed
        <4> QED
          BY <4>6
      <3> QED
        BY <3>4, <3>5
    <2> QED
      BY <1>2, <2>1
  <1>9. CASE AnnotateSTSDeleted
    <2>1. vr' = vr \/ vr' = [vr EXCEPT !.stsDeleted = TRUE]
      BY <1>9 DEF AnnotateSTSDeleted
    <2> QED
      BY <1>1, <2>1, Stutters DEF VRRecords
  <1>10. CASE RecordBackup
    <2>1. /\ run.pc = "recordBackup" /\ run.mem # "Completed"
          /\ Stored # "Completed" /\ Stored = vr.vs[vr.cur]
      BY <1>10, SlotWrites, OnCursor, StoredIs
      DEF RunOfSyncing, SyncSteps, CycleInv, MemInv
    <2>2. CASE ~ Returns
      <3>1. /\ vr'.exists = vr.exists /\ vr'.phase = vr.phase /\ vr'.cur = vr.cur
            /\ \A t \in Slots : vr'.vs[t] = IF t = vr.cur /\ Stored # "none"
                                            THEN run.mem ELSE vr.vs[t]
        BY <1>10, <2>1, <2>2, SlotWrites, SlotWritten DEF RunOfSyncing, SyncSteps
      <3> QED
        BY <2>1, <3>1, Stutters
    <2> QED
      BY <1>2, <2>2
  <1>11. CASE PersistCompleted
    <2>1. /\ run.pc = "persistCompleted" /\ run.mem = "Completed" /\ vr.exists
          /\ Stored # "Completed" /\ Stored = vr.vs[vr.cur]
          /\ vr.cur \in Slots /\ vr.phase = "Syncing"
      BY <1>11, SlotWrites, OnCursor, StoredIs
      DEF RunOfSyncing, ReturnSteps, CycleInv, MemInv, RunInv
    <2>2. CASE ~ Returns
      <3>1. /\ vr'.exists = vr.exists /\ vr'.phase = vr.phase /\ vr'.cur = vr.cur
            /\ \A t \in Slots : vr'.vs[t] = IF t = vr.cur /\ Stored # "none"
                                            THEN run.mem ELSE vr.vs[t]
        BY <1>11, <2>1, <2>2, SlotWrites, SlotWritten DEF RunOfSyncing, ReturnSteps
      <3>2. CASE Stored = "none"
        BY <3>1, <3>2, Stutters
      <3>3. CASE Stored # "none"
        <4>1. Completed' = Completed \cup {vr.cur} /\ vr.cur \notin Completed
          BY <2>1, <3>1, <3>3 DEF Completed
        <4>2. Lifecycle!CompleteVolume
          BY <2>1, <3>1, <4>1 DEF Lifecycle!CompleteVolume, Completed
        <4> QED
          BY <4>2
      <3> QED
        BY <3>2, <3>3
    <2> QED
      BY <1>2, <2>2
  <1>12. CASE ClearAnnotation
    <2>1. Returns \/ vr' = [vr EXCEPT !.stsDeleted = FALSE]
      BY <1>12, WriteOutcome DEF ClearAnnotation
    <2> QED
      BY <1>1, <1>2, <2>1, Stutters DEF VRRecords
  <1>13. CASE RemoveFinalizer \/ UserDelete
    <2>1. CASE vr.exists /\ vr' = [vr EXCEPT !.exists = FALSE]
      <3>1. /\ vr'.exists = FALSE /\ vr'.cur = vr.cur /\ vr'.vs = vr.vs
            /\ vr.phase # "Gone"
        BY <1>1, <2>1 DEF VRRecords, Phases
      <3>2. Lifecycle!Remove
        BY <2>1, <3>1, SameCompleted DEF Lifecycle!Remove, Completed
      <3> QED
        BY <3>2
    <2>2. CASE vr' = [vr EXCEPT !.deleting = TRUE]
      BY <1>1, <2>2, Stutters DEF VRRecords
    <2> QED
      BY <1>13, <2>1, <2>2 DEF RemoveFinalizer, UserDelete, CycleInv, RunInv
  <1> QED
    BY <1>3, <1>4, <1>5, <1>6, <1>7, <1>8, <1>9, <1>10, <1>11, <1>12, <1>13
    DEF StatusWrite

(* The operator implements the life cycle a user is promised: each slot is
   completed once, in the order of the spec, the migration is Completed only
   when all of them are, and a terminal phase is final; whatever faults happen,
   and for a StatefulSet without replicas too. *)
THEOREM LifecycleFollowed == Spec => FollowsLifecycle
  <1>1. Init => Lifecycle!LifecycleInit
    BY LifecycleInits
  <1>2. TypeInv /\ CycleInv /\ [Next]_vars
          => [Lifecycle!LifecycleNext]_(Lifecycle!lifecycle)
    BY ControlSteps, RunStutters, WritesFollow
  <1> QED
    BY <1>1, <1>2, CycleAlways, PTL DEF Spec, FollowsLifecycle, Lifecycle!LifecycleSpec

-----------------------------------------------------------------------------
(* Deletion. *)

(* Who changes the metadata of the VolumeResize. *)
LEMMA MetaChange ==
    ASSUME TypeInv, [Next]_vars
    PROVE  /\ vr'.exists = vr.exists \/ RemoveFinalizer \/ (UserDelete /\ ~ vr.finalizer)
           /\ vr'.finalizer = vr.finalizer \/ (AddFinalizer /\ vr'.finalizer)
           /\ vr'.deleting = vr.deleting \/ (UserDelete /\ vr.finalizer)
           /\ vr'.stsDeleted = vr.stsDeleted \/ AnnotateSTSDeleted \/ ClearAnnotation
           /\ vr'.backupName = vr.backupName \/ (RecordBackup /\ vr'.backupName)
           /\ vr'.request = vr.request
           /\ vr'.phase = vr.phase \/ HandlePending \/ (HandleValidating /\ Valid)
              \/ HandleReplacing \/ (SetFailed /\ vr'.phase = "Failed")
              \/ ((AdvanceCompleted \/ CheckPodAndAdvance) /\ vr' = Advanced)
  <1>1. vr \in VRRecords
    BY ControllerTyped
  <1>2. CASE UNCHANGED vr
    BY <1>2
  <1>3. CASE SetFailed
    BY <1>2, <1>3, FailureWritten DEF Returns
  <1>4. CASE RecordBackup \/ PersistCompleted
    <2>1. CASE ~ Returns /\ RecordBackup
      BY <2>1, SlotWrites, SlotWritten DEF RunOfSyncing, SyncSteps
    <2>2. CASE ~ Returns /\ PersistCompleted
      BY <2>2, SlotWrites, SlotWritten DEF RunOfSyncing, ReturnSteps
    <2> QED
      BY <1>2, <1>4, <2>1, <2>2 DEF Returns
  <1>5. CASE AdvanceCompleted \/ CheckPodAndAdvance
    <2>1. UNCHANGED vr \/ vr' = Advanced
      BY <1>5, WriteOutcome DEF AdvanceCompleted, CheckPodAndAdvance, Returns
    <2> QED
      BY <1>2, <1>5, <2>1, AdvancedIs
  <1>6. CASE ClearAnnotation
    <2>1. UNCHANGED vr \/ vr' = [vr EXCEPT !.stsDeleted = FALSE]
      BY <1>6, WriteOutcome DEF ClearAnnotation, Returns
    <2> QED
      BY <1>1, <1>2, <1>6, <2>1 DEF VRRecords
  <1>7. CASE AnnotateSTSDeleted
    BY <1>1, <1>7 DEF AnnotateSTSDeleted, VRRecords
  <1>8. CASE AddFinalizer \/ HandlePending \/ HandleReplacing
    BY <1>1, <1>8 DEF AddFinalizer, HandlePending, HandleReplacing, VRRecords
  <1>9. CASE HandleValidating /\ Valid
    BY <1>1, <1>9 DEF HandleValidating, VRRecords
  <1>10. CASE RemoveFinalizer \/ UserDelete
    BY <1>1, <1>10 DEF RemoveFinalizer, UserDelete, VRRecords
  <1>11. RunStep => UNCHANGED vr
    BY DEF RunStep, GoesOn, Returns, GivesUp, Enters
  <1> QED
    BY <1>2, <1>3, <1>4, <1>5, <1>6, <1>7, <1>8, <1>9, <1>10, <1>11, ControlSteps
    DEF StatusWrite

(* Where a run may go, other than to setFailed and to its end. *)
Path == Flow \cup {<<"annotateSTS", "recordBackup">>, <<"recordBackup", "deletePod">>,
                  <<"persistCompleted", "recreateSTS">>, <<"clearAnnotation", "checkPod">>,
                  <<"idle", "createTempPVC">>, <<"idle", "deleteTempPVCs">>}

(* A run stays where it is, ends, gives up, or goes on along the path. *)
LEMMA RunPath ==
    ASSUME TypeInv, [Next]_vars
    PROVE  \/ run'.pc = run.pc \/ run'.pc = "idle" \/ run'.pc = "setFailed"
           \/ <<run.pc, run'.pc>> \in Path
  <1>1. run \in RunRecords
    BY ControllerTyped
  <1>2. CASE RunStep
    <2>1. CASE \E pc \in {"setFailed", "createTempPVC", "deleteTempPVCs"} : Enters(pc)
      <3>1. PICK pc \in {"setFailed", "createTempPVC", "deleteTempPVCs"} : Enters(pc)
        BY <2>1
      <3> QED
        BY <3>1 DEF Enters, Path
    <2>2. CASE UNCHANGED <<vr, run>> \/ Returns \/ GivesUp
      BY <1>1, <2>2 DEF Returns, GivesUp, Idle, RunRecords
    <2>3. CASE GoesOn
      BY <2>3 DEF GoesOn, Path
    <2> QED
      BY <1>2, <2>1, <2>2, <2>3 DEF RunStep
  <1>3. CASE \/ AddFinalizer \/ HandlePending \/ (HandleValidating /\ Valid)
             \/ HandleReplacing \/ AdvanceCompleted \/ UserDelete
    BY <1>3 DEF AddFinalizer, HandlePending, HandleValidating, HandleReplacing,
       AdvanceCompleted, UserDelete
  <1>4. CASE RemoveFinalizer \/ SetFailed \/ CheckPodAndAdvance
    BY <1>4, FailureWritten, WriteOutcome
    DEF RemoveFinalizer, CheckPodAndAdvance, Return, Returns, Idle
  <1>5. CASE AnnotateSTSDeleted
    <2>1. /\ run.pc = "annotateSTS"
          /\ run' = Idle \/ run' = [run EXCEPT !.pc = "recordBackup", !.mem = Stored]
      BY <1>5 DEF AnnotateSTSDeleted, Return, At
    <2>2. run' = Idle => run'.pc = "idle"
      BY DEF Idle
    <2>3. run' = [run EXCEPT !.pc = "recordBackup", !.mem = Stored]
            => run'.pc = "recordBackup"
      BY <1>1 DEF RunRecords
    <2> QED
      BY <2>1, <2>2, <2>3 DEF Path
  <1>6. CASE RecordBackup \/ PersistCompleted
    <2>1. CASE Returns
      BY <2>1 DEF Returns, Idle
    <2>2. CASE RecordBackup /\ ~ Returns
      <3>1. run.pc = "recordBackup" /\ run'.pc = "deletePod"
        BY <2>2, SlotWrites, SlotWritten DEF RunOfSyncing, SyncSteps
      <3> QED
        BY <3>1 DEF Path
    <2>3. CASE PersistCompleted /\ ~ Returns
      <3>1. run.pc = "persistCompleted" /\ run'.pc = "recreateSTS"
        BY <2>3, SlotWrites, SlotWritten DEF RunOfSyncing, ReturnSteps
      <3> QED
        BY <3>1 DEF Path
    <2> QED
      BY <1>6, <2>1, <2>2, <2>3
  <1>7. CASE ClearAnnotation
    <2>1. run.pc = "clearAnnotation" /\ (Returns \/ run' = [run EXCEPT !.pc = "checkPod"])
      BY <1>7, WriteOutcome DEF ClearAnnotation, At
    <2> QED
      BY <1>1, <2>1 DEF Returns, Idle, Path, RunRecords
  <1> QED
    BY <1>2, <1>3, <1>4, <1>5, <1>6, <1>7, ControlSteps DEF StatusWrite

(* A run stays with its slot. *)
LEMMA SlotOfRun ==
    ASSUME TypeInv, CycleInv, [Next]_vars,
           run.pc \in RunOfSyncing, run'.pc \in RunOfSyncing
    PROVE  vr'.cur = vr.cur /\ vr'.phase = vr.phase
  <1> USE DEF RunOfSyncing, SyncSteps, ReplaceSteps, ReturnSteps
  <1>1. vr \in VRRecords
    BY ControllerTyped
  <1>2. RunStep => UNCHANGED vr
    BY DEF RunStep, GoesOn, Returns, GivesUp, Enters
  <1>3. Returns => UNCHANGED vr
    BY DEF Returns
  <1>4. CASE RecordBackup \/ PersistCompleted
    BY <1>3, <1>4, SlotWrites, SlotWritten
  <1>5. CASE AdvanceCompleted \/ CheckPodAndAdvance
    BY <1>3, <1>5, AdvanceSteps
  <1>6. CASE ClearAnnotation
    <2>1. UNCHANGED vr \/ vr' = [vr EXCEPT !.stsDeleted = FALSE]
      BY <1>6, WriteOutcome DEF ClearAnnotation, Returns
    <2> QED
      BY <1>1, <2>1 DEF VRRecords
  <1>7. CASE AnnotateSTSDeleted \/ UserDelete
    BY <1>1, <1>7 DEF AnnotateSTSDeleted, UserDelete, VRRecords
  <1>8. CASE AddFinalizer \/ HandlePending \/ HandleReplacing
             \/ HandleValidating \/ SetFailed \/ RemoveFinalizer
    BY <1>8 DEF AddFinalizer, HandlePending, HandleReplacing, HandleValidating,
       SetFailed, RemoveFinalizer, CanReconcile, At
  <1> QED
    BY <1>2, <1>4, <1>5, <1>6, <1>7, <1>8, ControlSteps DEF StatusWrite

(* The cursor is set by a valid request and moved on from a completed slot; a
   slot is recorded as completed by PersistCompleted and stays so. *)
LEMMA SlotChange ==
    ASSUME TypeInv, CycleInv, [Next]_vars
    PROVE  /\ \/ vr'.cur = vr.cur
              \/ HandleValidating /\ Valid /\ vr.cur = NoSlot
              \/ /\ AdvanceCompleted \/ CheckPodAndAdvance
                 /\ vr' = Advanced /\ ~ vr.deleting /\ vr.exists
                 /\ vr.phase = "Syncing" /\ vr.cur \in Slots
                 /\ vr.vs[vr.cur] = "Completed" /\ Replicas # 0
           /\ \A s \in Slots : vr'.vs[s] = "Completed"
                => vr.vs[s] = "Completed" \/ (PersistCompleted /\ s = vr.cur)
           /\ \A s \in Slots : vr.vs[s] = "Completed" => vr'.vs[s] = "Completed"
  <1> USE DEF At
  <1>1. /\ vr \in VRRecords /\ run \in RunRecords /\ vr.cur \in Slots \cup {NoSlot}
        /\ vr.vs \in [Slots -> SlotPhases]
    BY ControllerTyped DEF VRRecords
  <1>2. CASE UNCHANGED vr
    BY <1>2
  <1>3. CASE SetFailed /\ ~ Returns
    <2>1. /\ vr'.cur = vr.cur
          /\ \A t \in Slots : vr'.vs[t] = IF t = vr.cur /\ vr.vs[t] # "none"
                                          THEN run.mem ELSE vr.vs[t]
      BY <1>3, FailureWritten
    <2>2. vr.cur \in Slots => Stored = vr.vs[vr.cur]
      BY <1>1, ControllerTyped DEF Stored
    <2>3. vr.phase \in {"Validating", "Syncing"} /\ run.pc = "setFailed"
      BY <1>3 DEF SetFailed, CycleInv, RunInv
    <2>4. vr.cur \in Slots /\ vr.vs[vr.cur] # "none"
             => (run.mem = "Completed" <=> vr.vs[vr.cur] = "Completed")
      BY <2>2, <2>3, StoredIs DEF CycleInv, MemInv
    <2> QED
      BY <2>1, <2>4
  <1>4. CASE RecordBackup /\ ~ Returns
    <2>1. /\ vr'.cur = vr.cur /\ run.pc = "recordBackup" /\ vr.cur \in Slots
          /\ \A t \in Slots : vr'.vs[t] = IF t = vr.cur /\ Stored # "none"
                                          THEN run.mem ELSE vr.vs[t]
      BY <1>4, SlotWrites, SlotWritten, OnCursor DEF RunOfSyncing, SyncSteps
    <2>2. run.mem # "Completed" /\ vr.vs[vr.cur] # "Completed"
      BY <1>1, <2>1, ControllerTyped DEF CycleInv, MemInv, SyncSteps, Stored
    <2> QED
      BY <2>1, <2>2
  <1>5. CASE PersistCompleted /\ ~ Returns
    <2>1. /\ vr'.cur = vr.cur /\ run.pc = "persistCompleted" /\ vr.cur \in Slots
          /\ \A t \in Slots : vr'.vs[t] = IF t = vr.cur /\ Stored # "none"
                                          THEN run.mem ELSE vr.vs[t]
      BY <1>5, SlotWrites, SlotWritten, OnCursor DEF RunOfSyncing, ReturnSteps
    <2>2. vr.vs[vr.cur] # "Completed"
      BY <1>1, <2>1, ControllerTyped DEF CycleInv, MemInv, Stored
    <2> QED
      BY <1>5, <2>1, <2>2
  <1>6. CASE AdvanceCompleted \/ CheckPodAndAdvance
    BY <1>2, <1>6, AdvanceSteps, AdvancedIs DEF Returns
  <1>7. CASE HandleValidating /\ Valid
    BY <1>7, ValidatedIs DEF HandleValidating, CanReconcile, CycleInv, StartInv
  <1>8. CASE HandlePending
    <2>1. \A s \in Slots : vr.vs[s] = "none"
      BY <1>8 DEF HandlePending, CanReconcile, CycleInv, StartInv
    <2> QED
      BY <1>1, <1>8, <2>1 DEF HandlePending, VRRecords
  <1>9. CASE ClearAnnotation
    <2>1. UNCHANGED vr \/ vr' = [vr EXCEPT !.stsDeleted = FALSE]
      BY <1>9, WriteOutcome DEF ClearAnnotation, Returns
    <2> QED
      BY <1>1, <2>1 DEF VRRecords
  <1>10. CASE AddFinalizer \/ HandleReplacing \/ AnnotateSTSDeleted
    BY <1>1, <1>10 DEF AddFinalizer, HandleReplacing, AnnotateSTSDeleted, VRRecords
  <1>11. CASE RemoveFinalizer \/ UserDelete
    BY <1>1, <1>11 DEF RemoveFinalizer, UserDelete, VRRecords
  <1>12. RunStep => UNCHANGED vr
    BY DEF RunStep, GoesOn, Returns, GivesUp, Enters
  <1> QED
    BY <1>2, <1>3, <1>4, <1>5, <1>6, <1>7, <1>8, <1>9, <1>10, <1>11, <1>12, ControlSteps
    DEF StatusWrite, Returns

(* What handleDeletion leaves is on its way out: without the finalizer nothing
   was made; past a delete of handleDeletion nothing of that kind is left; and
   the only migrator pod its list may miss is one its own run waits for. *)
Waiting == {"waitMigrator", "recheckMigrator", "cleanupMigrator"}
TempsLeave(s) == pvc[temp(s)].st # "absent" => pvc[temp(s)].term
MigsLeave(s)  == mig[s].st # "absent" => mig[s].del
CleanInv ==
    \A s \in Slots :
        /\ ~ vr.finalizer => pvc[temp(s)].st = "absent" /\ mig[s].st = "absent"
        /\ run.pc \in {"deleteMigrators", "removeFinalizer"} \/ ~ vr.exists => TempsLeave(s)
        /\ run.pc = "removeFinalizer" \/ ~ vr.exists => MigsLeave(s)
        /\ mig[s].st # "absent" /\ ~ mig[s].del /\ ~ mig[s].seen
              => vr.cur = s /\ run.pc \in Waiting

(* It holds at the start. *)
LEMMA CleanInit == Init => CleanInv
  <1> SUFFICES ASSUME Init, NEW s \in Slots
               PROVE  /\ pvc[temp(s)].st = "absent" /\ mig[s].st = "absent"
    BY DEF CleanInv, TempsLeave, MigsLeave
  <1> QED
    BY SlotShape DEF Init, ClusterInit, NoClaim, NoMig, temp

(* A temporary claim that is absent or on its way out stays so, unless a run
   makes it. *)
LEMMA TempsStayGone ==
    ASSUME TypeInv, [Next]_vars, NEW s \in Slots, run.pc # "createTempPVC"
    PROVE  /\ TempsLeave(s) => TempsLeave(s)'
           /\ pvc[temp(s)].st = "absent" => pvc'[temp(s)].st = "absent"
  <1> DEFINE c == temp(s)
  <1>1. /\ c \in Claims /\ c[2] = "temp" /\ pvc[c] \in ClaimRecords
        /\ pvc \in [Claims -> ClaimRecords]
    BY SlotShape, ClaimTyped DEF temp, TypeInv, TypeOK, ClusterTypeOK
  <1> HIDE DEF c
  <1> SUFFICES /\ (pvc[c].st # "absent" => pvc[c].term)
                      => (pvc'[c].st # "absent" => pvc'[c].term)
               /\ pvc[c].st = "absent" => pvc'[c].st = "absent"
    BY DEF c, TempsLeave
  <1>2. CASE pvc'[c] = pvc[c]
    BY <1>2
  <1>3. CASE VolumeStep(c)
    <2>1. CASE PvcGone(c)
      BY <1>1, <2>1 DEF PvcGone, NoClaim
    <2>2. ASSUME NEW p, BindTo(c, p), pvc[c].st # "absent"
          PROVE  pvc'[c].term = pvc[c].term
      BY <1>1, <2>2 DEF BindTo, ClaimRecords
    <2> QED
      BY <1>3, <2>1, <2>2 DEF VolumeStep, Provision, BindAvailable, BindNamed, Unbound
  <1>4. CASE DeleteTempPVC /\ c = CurTemp
    BY <1>1, <1>4 DEF DeleteTempPVC, DeleteClaim, ClaimRecords
  <1>5. CASE DeleteTempPVCs
    BY <1>1, <1>5 DEF DeleteTempPVCs, ClaimRecords
  <1>6. c # CurOrig
    BY <1>1 DEF CurOrig, orig
  <1> QED
    BY <1>1, <1>2, <1>3, <1>4, <1>5, <1>6, ClaimChange DEF CreateTempPVC, At

(* So does a migrator pod. *)
LEMMA MigsStayGone ==
    ASSUME TypeInv, [Next]_vars, NEW s \in Slots, run.pc # "createMigrator"
    PROVE  /\ MigsLeave(s) => MigsLeave(s)'
           /\ mig[s].st = "absent" => mig'[s].st = "absent"
  <1>1. mig \in [Slots -> MigRecords] /\ mig[s] \in MigRecords
    BY DEF TypeInv, TypeOK, ClusterTypeOK
  <1> USE DEF MigsLeave
  <1>2. CASE mig'[s] = mig[s]
    BY <1>2
  <1>3. CASE MigStep(s)
    <2>1. CASE MigStart(s) \/ MigSucceed(s) \/ MigFail(s)
      BY <1>1, <2>1 DEF MigStart, MigSucceed, MigFail, MigRecords
    <2>2. CASE MigLost(s) \/ MigGone(s) \/ CacheSync(s)
      BY <1>1, <2>2 DEF MigLost, MigGone, CacheSync, NoMig, MigRecords
    <2> QED
      BY <1>3, <2>1, <2>2 DEF MigStep
  <1>4. CASE CleanupMigratorPod
    BY <1>1, <1>4 DEF CleanupMigratorPod, MigRecords
  <1>5. CASE DeleteMigrators \/ Crash
    BY <1>1, <1>5 DEF DeleteMigrators, Crash, MigRecords, Visible
  <1> QED
    BY <1>2, <1>3, <1>4, <1>5, MigChange DEF CreateMigratorPod, At

(* The deletes tell everything they name to go. *)
LEMMA TempsToldToGo ==
    ASSUME TypeInv, DeleteTempPVCs, NEW s \in Slots
    PROVE  TempsLeave(s)'
  <1> DEFINE c == temp(s)
  <1>1. c \in Claims /\ c[2] = "temp" /\ pvc[c] \in ClaimRecords
    BY SlotShape, ClaimTyped DEF temp
  <1> HIDE DEF c
  <1>2. pvc'[c] = [pvc[c] EXCEPT !.term = pvc[c].st # "absent"]
    BY <1>1 DEF DeleteTempPVCs
  <1>3. pvc'[c].st = pvc[c].st /\ (pvc[c].st # "absent" => pvc'[c].term)
    BY <1>1, <1>2 DEF ClaimRecords
  <1> QED
    BY <1>3 DEF c, TempsLeave

(* CleanupMigratorPod tells the migrator pod of the cursor to go, and no other. *)
LEMMA MigToldToGo ==
    ASSUME TypeInv, CleanupMigratorPod, vr.cur \in Slots
    PROVE  /\ mig'[vr.cur].st = mig[vr.cur].st
           /\ mig[vr.cur].st # "absent" => mig'[vr.cur].del
           /\ \A t \in Slots : t # vr.cur => mig'[t] = mig[t]
  <1>1. mig \in [Slots -> MigRecords] /\ mig[vr.cur] \in MigRecords
    BY DEF TypeInv, TypeOK, ClusterTypeOK
  <1>2. mig' = [mig EXCEPT ![vr.cur] =
                  [mig[vr.cur] EXCEPT !.del = mig[vr.cur].st # "absent"]]
    BY <1>1 DEF CleanupMigratorPod
  <1>3. mig'[vr.cur] = [mig[vr.cur] EXCEPT !.del = mig[vr.cur].st # "absent"]
    BY <1>1, <1>2
  <1> QED
    BY <1>1, <1>2, <1>3 DEF MigRecords

(* Every step keeps it, as long as no delete of handleDeletion fails. *)
LEMMA CleanStep ==
    ASSUME "api" \notin Faults, TypeInv, CycleInv, CleanInv, [Next]_vars
    PROVE  CleanInv'
  <1> SUFFICES ASSUME NEW s \in Slots
               PROVE  /\ ~ vr'.finalizer => pvc'[temp(s)].st = "absent" /\ mig'[s].st = "absent"
                      /\ run'.pc \in {"deleteMigrators", "removeFinalizer"} \/ ~ vr'.exists
                           => TempsLeave(s)'
                      /\ run'.pc = "removeFinalizer" \/ ~ vr'.exists => MigsLeave(s)'
                      /\ mig'[s].st # "absent" /\ ~ mig'[s].del /\ ~ mig'[s].seen
                           => vr'.cur = s /\ run'.pc \in Waiting
    BY DEF CleanInv
  <1>1. /\ ~ vr.finalizer => pvc[temp(s)].st = "absent" /\ mig[s].st = "absent"
        /\ run.pc \in {"deleteMigrators", "removeFinalizer"} \/ ~ vr.exists => TempsLeave(s)
        /\ run.pc = "removeFinalizer" \/ ~ vr.exists => MigsLeave(s)
        /\ mig[s].st # "absent" /\ ~ mig[s].del /\ ~ mig[s].seen
              => vr.cur = s /\ run.pc \in Waiting
        /\ run.pc # "idle" => vr.exists /\ vr.finalizer
    BY DEF CleanInv, CycleInv, RunInv
  <1>2. ~ ApiError
    BY DEF ApiError, Fault
  <1>3. Crash => run'.pc = "idle" /\ UNCHANGED vr
    BY DEF Crash, Return, Idle
  <1>4. mig \in [Slots -> MigRecords] /\ mig[s] \in MigRecords
        /\ pvc \in [Claims -> ClaimRecords] /\ run \in RunRecords
    BY ControllerTyped DEF TypeInv, TypeOK, ClusterTypeOK
  <1>5. ASSUME ~ vr'.finalizer
        PROVE  pvc'[temp(s)].st = "absent" /\ mig'[s].st = "absent"
    <2>1. ~ vr.finalizer
      BY <1>5, MetaChange
    <2> QED
      BY <1>1, <2>1, TempsStayGone, MigsStayGone
  <1>6. ASSUME ~ vr'.exists, vr.exists
        PROVE  TempsLeave(s) /\ MigsLeave(s)
    BY <1>1, <1>6, MetaChange DEF RemoveFinalizer, At, TempsLeave, MigsLeave
  <1>7. ASSUME run'.pc \in {"deleteMigrators", "removeFinalizer"} \/ ~ vr'.exists
        PROVE  TempsLeave(s)'
    <2>1. CASE run.pc \in {"deleteMigrators", "removeFinalizer"} \/ ~ vr.exists \/ ~ vr'.exists
      <3>1. TempsLeave(s)
        BY <1>1, <1>6, <2>1
      <3>2. ~ vr.exists \/ ~ vr.finalizer \/ run.pc \in DeletionSteps
        BY <2>1, MetaChange DEF RemoveFinalizer, At, DeletionSteps
      <3>3. run.pc # "createTempPVC"
        BY <1>1, <3>2 DEF DeletionSteps
      <3> QED
        BY <3>1, <3>3, TempsStayGone
    <2>2. CASE /\ run.pc \notin {"deleteMigrators", "removeFinalizer"}
               /\ run'.pc \in {"deleteMigrators", "removeFinalizer"}
      <3>1. run.pc = "deleteTempPVCs" /\ run' # run
        BY <2>2, RunPath DEF Path, Flow
      <3>2. DeleteTempPVCs
        BY <1>2, <1>3, <2>2, <3>1, RunFrom
      <3> QED
        BY <3>2, TempsToldToGo
    <2> QED
      BY <1>7, <2>1, <2>2
  <1>8. ASSUME run'.pc = "removeFinalizer" \/ ~ vr'.exists
        PROVE  MigsLeave(s)'
    <2>1. CASE run.pc = "removeFinalizer" \/ ~ vr.exists \/ ~ vr'.exists
      <3>1. MigsLeave(s)
        BY <1>1, <1>6, <2>1
      <3>2. run.pc # "createMigrator"
        BY <1>1, <2>1, MetaChange DEF RemoveFinalizer, At
      <3> QED
        BY <3>1, <3>2, MigsStayGone
    <2>2. CASE run.pc # "removeFinalizer" /\ run'.pc = "removeFinalizer"
      <3>1. run.pc = "deleteMigrators" /\ run' # run
        BY <2>2, RunPath DEF Path, Flow
      <3>2. DeleteMigrators
        BY <1>2, <1>3, <2>2, <3>1, RunFrom
      <3>3. mig[s].st # "absent" => mig[s].del \/ Visible(s)
        BY <1>1, <1>4, <3>1 DEF Waiting, Visible
      <3> QED
        BY <1>4, <3>2, <3>3 DEF DeleteMigrators, MigRecords, MigsLeave
    <2> QED
      BY <1>8, <2>1, <2>2
  <1>9. ASSUME mig'[s].st # "absent", ~ mig'[s].del, ~ mig'[s].seen
        PROVE  vr'.cur = s /\ run'.pc \in Waiting
    <2>1. ~ Crash
      BY <1>4, <1>9 DEF Crash, MigRecords
    <2>2. CASE mig[s].st # "absent" /\ ~ mig[s].del /\ ~ mig[s].seen
      <3>1. vr.cur = s /\ run.pc \in Waiting
        BY <1>1, <2>2
      <3>2. run'.pc \in Waiting
        <4>1. CASE run' = run
          BY <3>1, <4>1
        <4>2. CASE run' # run
          <5>1. ~ CleanupMigratorPod
            BY <1>4, <1>9, <2>2, <3>1, MigToldToGo
          <5>2. WaitForMigrationComplete \/ RecheckMigrator
            BY <1>2, <2>1, <3>1, <4>2, <5>1, RunFrom DEF Waiting
          <5>3. Goto("cleanupMigrator") \/ Goto("recheckMigrator")
            BY <2>2, <3>1, <5>2 DEF WaitForMigrationComplete, RecheckMigrator, Visible
          <5> QED
            BY <1>4, <5>3 DEF Goto, RunRecords, Waiting
        <4> QED
          BY <4>1, <4>2
      <3> QED
        BY <3>1, <3>2, SlotOfRun DEF Waiting, RunOfSyncing, SyncSteps
    <2>3. CASE ~ (mig[s].st # "absent" /\ ~ mig[s].del /\ ~ mig[s].seen)
      <3>1. mig'[s] # mig[s]
        BY <1>9, <2>3
      <3>2. ~ MigStep(s)
        <4>1. CASE MigStart(s) \/ MigSucceed(s) \/ MigFail(s)
          <5>1. CASE MigStart(s)
            BY <1>4, <1>9, <2>3, <5>1 DEF MigStart, MigRecords
          <5>2. CASE MigSucceed(s)
            BY <1>4, <1>9, <2>3, <5>2 DEF MigSucceed, MigRecords
          <5>3. CASE MigFail(s)
            BY <1>4, <1>9, <2>3, <5>3 DEF MigFail, MigRecords
          <5> QED
            BY <4>1, <5>1, <5>2, <5>3
        <4>2. CASE MigLost(s) \/ MigGone(s) \/ CacheSync(s)
          BY <1>4, <1>9, <4>2 DEF MigLost, MigGone, CacheSync, NoMig, MigRecords
        <4> QED
          BY <4>1, <4>2 DEF MigStep
      <3>3. ~ CleanupMigratorPod
        BY <1>4, <1>9, <3>1, MigChange, <2>3 DEF CleanupMigratorPod, MigRecords
      <3>4. ~ DeleteMigrators
        BY <1>4, <1>9, <2>3 DEF DeleteMigrators, MigRecords, Visible
      <3>5. CreateMigratorPod /\ s = vr.cur
        BY <2>1, <3>1, <3>2, <3>3, <3>4, MigChange
      <3>6. run.pc = "createMigrator" /\ UNCHANGED vr /\ run'.pc = "waitMigrator"
        BY <1>4, <3>1, <3>5 DEF CreateMigratorPod, At, Goto, RunRecords
      <3> QED
        BY <3>5, <3>6 DEF Waiting
    <2> QED
      BY <2>2, <2>3
  <1> QED
    BY <1>5, <1>7, <1>8, <1>9

(* Once a VolumeResize is let go, every temporary claim and migrator pod of it
   is gone or on its way out, whatever crashed and however stale the operator's
   view of the pods was; as long as the deletes of handleDeletion, whose errors
   it forgets, do not fail. *)
THEOREM NothingLeftBehind ==
    ASSUME "api" \notin Faults
    PROVE  Spec => []CleanupOnDelete
  <1>1. Init => TypeInv /\ CycleInv /\ CleanInv
    BY TypeInit, CycleInit, CleanInit
  <1>2. TypeInv /\ CycleInv /\ CleanInv /\ [Next]_vars
          => (TypeInv /\ CycleInv /\ CleanInv)'
    BY CycleStep, CleanStep
  <1>3. CleanInv => CleanupOnDelete
    BY DEF CleanInv, CleanupOnDelete, TempsLeave, MigsLeave
  <1> QED
    BY <1>1, <1>2, <1>3, PTL DEF Spec
=============================================================================
