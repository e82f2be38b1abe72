---------------------------- MODULE RetentionProofs ----------------------------
(***************************************************************************)
(* The volumes the migration starts from are never lost: proofs of         *)
(* OldPVRetained and OldPVNeverOverwritten for every number of replicas,   *)
(* volumes and faults.                                                     *)
(***************************************************************************)
EXTENDS TypeProofs

(* The volume of a slot, and what the invariant says of it. *)
LEMMA OldVolume ==
    ASSUME TypeInv, RetentionInv, NEW s \in Slots
    PROVE  /\ InitPV[s] \in PVs
           /\ pv[InitPV[s]] \in PVRecords
           /\ pv[InitPV[s]].st = "live" /\ pv[InitPV[s]].claim = orig(s)
           /\ pv[InitPV[s]].claim # Unclaimed
           /\ Retained(s) \/ OnOldPV(s)
           /\ \A t \in Slots : pvc[temp(t)].pv # InitPV[s]
           /\ run.newPV # InitPV[s]
  BY InitPVAssumption, PVTyped, SlotShape DEF RetentionInv

(* The claims and volumes of the initial state are as the invariant wants. *)
LEMMA RetentionInit == Init => RetentionInv
  <1> SUFFICES ASSUME Init, NEW s \in Slots
               PROVE  /\ pv[InitPV[s]].st = "live" /\ pv[InitPV[s]].claim = orig(s)
                      /\ OnOldPV(s)
                      /\ \A t \in Slots : pvc[temp(t)].pv # InitPV[s]
                      /\ run = Idle
    BY InitPVAssumption, StepSets DEF RetentionInv, Idle, NoPV, PVs, RunOfSyncing,
       SyncSteps, ReplaceSteps, ReturnSteps
  <1>1. InitPV[s] \in PVs /\ InitPV[s] # NoPV
    BY InitPVAssumption DEF PVs, NoPV
  <1>2. \A t \in Slots : InitPV[t] = InitPV[s] => t = s
    BY InitPVAssumption
  <1>3. (CHOOSE t \in Slots : InitPV[t] = InitPV[s]) = s
    BY <1>2
  <1>4. pv[InitPV[s]].st = "live" /\ pv[InitPV[s]].claim = orig(s)
    BY <1>1, <1>3 DEF Init, ClusterInit, InitialVolume
  <1>5. OnOldPV(s)
    BY SlotShape DEF Init, ClusterInit, OnOldPV, orig
  <1>6. \A t \in Slots : pvc[temp(t)].pv = NoPV
    BY SlotShape DEF Init, ClusterInit, NoClaim, temp
  <1> QED
    BY <1>1, <1>4, <1>5, <1>6 DEF Init

-----------------------------------------------------------------------------
(* No step touches the volume a slot had at the start, other than to retain it
   and to add the application's writes. *)
LEMMA VolumesKept ==
    ASSUME TypeInv, RetentionInv, [Next]_vars, NEW s \in Slots
    PROVE  /\ pv'[InitPV[s]].st = "live" /\ pv'[InitPV[s]].claim = orig(s)
           /\ Retained(s) => Retained(s)'
           /\ pv[InitPV[s]].data \subseteq pv'[InitPV[s]].data
  <1> DEFINE p == InitPV[s]
  <1>0. /\ p \in PVs /\ pv \in [PVs -> PVRecords] /\ pv[p] \in PVRecords
        /\ pv[p].st = "live" /\ pv[p].claim = orig(s) /\ pv[p].claim # Unclaimed
        /\ \A t \in Slots : pvc[temp(t)].pv # p
        /\ run.newPV # p
    BY OldVolume DEF TypeInv, TypeOK, ClusterTypeOK
  <1> HIDE DEF p
  <1> SUFFICES /\ pv'[p].st = "live" /\ pv'[p].claim = orig(s)
               /\ pv[p].policy = "Retain" => pv'[p].policy = "Retain"
               /\ pv[p].data \subseteq pv'[p].data
    BY DEF Retained, p
  <1>1. CASE pv'[p] = pv[p]
    BY <1>0, <1>1
  <1>2. CASE \E t \in Slots : AppWrite(t)
    <2>1. PICK t \in Slots : AppWrite(t)
      BY <1>2
    <2> DEFINE q == pvc[orig(t)].pv
    <2>2. pv' = [pv EXCEPT ![q].data = @ \cup {<<t, acked[t] + 1>>}]
      BY <2>1 DEF AppWrite
    <2>3. CASE q = p
      BY <1>0, <2>2, <2>3 DEF PVRecords
    <2>4. CASE q # p
      BY <1>0, <1>1, <2>2, <2>4
    <2> QED
      BY <2>3, <2>4
  <1>3. CASE \E c \in Claims : VolumeStep(c)
    <2>1. PICK c \in Claims : VolumeStep(c)
      BY <1>3
    <2>2. CASE Provision(c)
      BY <1>0, <1>1, <2>2 DEF Provision
    <2>3. CASE BindAvailable(c)
      BY <1>0, <1>1, <2>3 DEF BindAvailable
    <2>4. CASE BindNamed(c)
      BY <1>0, <1>1, <2>4 DEF BindNamed
    <2>5. CASE PvcGone(c)
      BY <1>1, <2>5 DEF PvcGone
    <2> QED
      BY <2>1, <2>2, <2>3, <2>4, <2>5 DEF VolumeStep
  <1>4. CASE \E q \in PVs : ReclaimPV(q)
    <2>1. PICK q \in PVs : ReclaimPV(q)
      BY <1>4
    <2>2. q # p
      BY <2>1, OldVolume DEF p, ReclaimPV, Released, Retained, OnOldPV
    <2> QED
      BY <1>0, <1>1, <2>1, <2>2 DEF ReclaimPV
  <1>5. CASE \E t \in Slots : MigStep(t)
    <2>1. PICK t \in Slots : MigStep(t)
      BY <1>5
    <2>2. CASE MigSucceed(t)
      BY <1>0, <1>1, <2>2 DEF MigSucceed, Target
    <2>3. CASE UNCHANGED pv
      BY <1>1, <2>3
    <2> QED
      BY <2>1, <2>2, <2>3 DEF MigStep, MigStart, MigFail, MigLost, MigGone, CacheSync
  <1>6. CASE ClusterNext
    <2>1. CASE \E r \in Ordinals : PodStep(r)
      BY <1>1, <2>1 DEF PodStep, StsReconcile, PodStart, PodGone, PodEvicted
    <2>2. CASE BackupLost
      BY <1>1, <2>2 DEF BackupLost
    <2> QED
      BY <1>2, <1>3, <1>4, <1>5, <1>6, <2>1, <2>2 DEF ClusterNext
  <1>7. ASSUME NEW q \in PVs, pv' = [pv EXCEPT ![q].policy = "Retain"]
        PROVE  /\ pv'[p].st = "live" /\ pv'[p].claim = orig(s)
               /\ pv[p].policy = "Retain" => pv'[p].policy = "Retain"
               /\ pv[p].data \subseteq pv'[p].data
    BY <1>0, <1>7 DEF PVRecords
  <1>8. CASE SetRetainOnPV
    <2>1. run.oldPV \in PVs \cup {NoPV}
      BY ControllerTyped DEF RunRecords
    <2> QED
      BY <1>1, <1>7, <1>8, <2>1 DEF SetRetainOnPV, Live
  <1>9. CASE RetainNewPV
    <2>1. pvc[CurTemp].pv \in PVs \cup {NoPV}
      BY <1>9, OnCursor, ClaimTyped
      DEF RetainNewPV, At, RunOfSyncing, ReplaceSteps
    <2> QED
      BY <1>1, <1>7, <1>9, <2>1 DEF RetainNewPV, Live
  <1>10. CASE ClearClaimRef
    BY <1>0, <1>1, <1>10 DEF ClearClaimRef
  <1>11. CASE UNCHANGED pv
    BY <1>1, <1>11
  <1>12. CASE HandleSyncing
    BY <1>8, <1>11, <1>12
    DEF HandleSyncing, AdvanceCompleted, GetOriginalPVC, CreateTempPVC, BackupSTS,
        DeleteSTSOrphan, AnnotateSTSDeleted, RecordBackup, DeletePod,
        WaitForPodTermination, CreateMigratorPod, WaitForMigrationComplete,
        RecheckMigrator, CleanupMigratorPod, PersistCompleted, RecreateSTS,
        ClearAnnotation, CheckPodAndAdvance, clusterVars
  <1>13. CASE ReplacePVC
    BY <1>9, <1>10, <1>11, <1>13
    DEF ReplacePVC, DeleteTempPVC, WaitTempGone, WaitOrigGone, WaitClaimGone,
        DeleteOrigPVC, CreateOrigPVC
  <1>14. CASE Crash \/ ApiError \/ UserDelete \/ UNCHANGED vars
    BY <1>11, <1>14 DEF Crash, ApiError, UserDelete, vars
  <1>15. CASE \/ AddFinalizer \/ HandlePending \/ HandleValidating
              \/ HandleReplacing \/ SetFailed \/ HandleDeletion
    BY <1>11, <1>15
    DEF AddFinalizer, HandlePending, HandleValidating, HandleReplacing, SetFailed,
        HandleDeletion, BeginDeletion, DeleteTempPVCs, DeleteMigrators,
        RemoveFinalizer, clusterVars
  <1> QED
    BY <1>6, <1>12, <1>13, <1>14, <1>15 DEF Next, Reconcile

-----------------------------------------------------------------------------
(* An original claim leaves its first volume only once that is retained, and no
   temporary claim ever gets the first volume of a slot. *)
LEMMA ClaimsKept ==
    ASSUME TypeInv, RetentionInv, [Next]_vars, NEW s \in Slots
    PROVE  /\ OnOldPV(s) => OnOldPV(s)' \/ Retained(s)
           /\ \A t \in Slots : pvc'[temp(t)].pv # InitPV[s]
  <1> DEFINE p == InitPV[s]
  <1>0. /\ p \in PVs /\ p # NoPV /\ pvc \in [Claims -> ClaimRecords]
        /\ pv[p].st = "live" /\ pv[p].claim # Unclaimed
        /\ \A t \in Slots : pvc[temp(t)].pv # p
        /\ orig(s) \in Claims /\ orig(s)[2] = "orig"
        /\ \A t \in Slots : temp(t) \in Claims /\ temp(t)[2] = "temp"
        /\ \A t \in Slots : orig(s) # temp(t)
    <2>1. p \in PVs /\ p # NoPV
      BY OldVolume DEF PVs, NoPV
    <2>2. orig(s)[2] = "orig" /\ \A t \in Slots : temp(t)[2] = "temp"
      BY DEF orig, temp
    <2>3. pvc \in [Claims -> ClaimRecords]
      BY DEF TypeInv, TypeOK, ClusterTypeOK
    <2> QED
      BY <2>1, <2>2, <2>3, OldVolume, SlotShape
  <1>1. ASSUME pvc'[orig(s)] = pvc[orig(s)],
               \A t \in Slots : pvc'[temp(t)].pv \in {pvc[temp(t)].pv, NoPV}
        PROVE  /\ OnOldPV(s) => OnOldPV(s)' \/ Retained(s)
               /\ \A t \in Slots : pvc'[temp(t)].pv # p
    BY <1>0, <1>1 DEF OnOldPV
  <1> HIDE DEF p
  <1> SUFFICES /\ OnOldPV(s) => OnOldPV(s)' \/ Retained(s)
               /\ \A t \in Slots : pvc'[temp(t)].pv # p
    BY DEF p
  <1>2. CASE UNCHANGED pvc
    BY <1>1, <1>2
  <1>3. CASE \E c \in Claims : VolumeStep(c)
    <2>1. PICK c \in Claims : VolumeStep(c)
      BY <1>3
    <2>2. ASSUME NEW q \in PVs, BindTo(c, q),
                 pvc[c].pv = NoPV \/ pvc[c].pv = q, pvc[c].st # "absent",
                 q # p \/ pvc[c].pv = q
          PROVE  /\ OnOldPV(s) => OnOldPV(s)' \/ Retained(s)
                 /\ \A t \in Slots : pvc'[temp(t)].pv # p
      <3>1. pvc' = [pvc EXCEPT ![c] = [pvc[c] EXCEPT !.st = "bound", !.pv = q]]
        BY <1>0, <2>2 DEF BindTo
      <3>2. /\ pvc'[c].pv = q /\ pvc'[c].st = "bound" /\ pvc'[c].term = pvc[c].term
            /\ \A d \in Claims : d # c => pvc'[d] = pvc[d]
        BY <1>0, <3>1 DEF ClaimRecords
      <3>3. OnOldPV(s) => OnOldPV(s)'
        BY <1>0, <2>2, <3>2 DEF OnOldPV, p
      <3>4. \A t \in Slots : pvc'[temp(t)].pv # p
        BY <1>0, <2>2, <3>2
      <3> QED
        BY <3>3, <3>4
    <2>3. CASE Provision(c)
      <3>1. PICK q \in PVs : pv[q].st = "unused" /\ BindTo(c, q)
        BY <2>3 DEF Provision
      <3> QED
        BY <1>0, <2>2, <2>3, <3>1 DEF Provision, Unbound
    <2>4. CASE BindAvailable(c)
      <3>1. PICK q \in PVs : pv[q].claim = Unclaimed /\ BindTo(c, q)
        BY <2>4 DEF BindAvailable
      <3> QED
        BY <1>0, <2>2, <2>4, <3>1 DEF BindAvailable, Unbound
    <2>5. CASE BindNamed(c)
      <3>1. pvc[c].pv \in PVs /\ BindTo(c, pvc[c].pv) /\ pvc[c].st # "absent"
        BY <2>5, ClaimTyped DEF BindNamed
      <3> QED
        BY <2>2, <3>1
    <2>6. CASE PvcGone(c)
      <3>1. pvc[c].term /\ pvc' = [pvc EXCEPT ![c] = NoClaim]
        BY <2>6 DEF PvcGone
      <3>2. \A t \in Slots : pvc'[temp(t)].pv \in {pvc[temp(t)].pv, NoPV}
        BY <1>0, <3>1 DEF NoClaim
      <3>3. OnOldPV(s) => OnOldPV(s)'
        BY <1>0, <3>1 DEF OnOldPV
      <3> QED
        BY <1>0, <3>2, <3>3
    <2> QED
      BY <2>1, <2>3, <2>4, <2>5, <2>6 DEF VolumeStep
  <1>4. CASE \E r \in Ordinals : StsReconcile(r)
    <2>1. PICK r \in Ordinals : StsReconcile(r)
      BY <1>4
    <2>2. \A t \in Slots : pvc'[temp(t)] = pvc[temp(t)]
      BY <1>0, <2>1 DEF StsReconcile
    <2>3. pvc[orig(s)].st # "absent" => pvc'[orig(s)] = pvc[orig(s)]
      BY <1>0, <2>1 DEF StsReconcile
    <2> QED
      BY <1>0, <2>2, <2>3 DEF OnOldPV
  <1>5. CASE ClusterNext
    BY <1>2, <1>3, <1>4, <1>5
    DEF ClusterNext, PodStep, PodStart, PodGone, PodEvicted, ReclaimPV, AppWrite,
        MigStep, MigStart, MigSucceed, MigFail, MigLost, MigGone, CacheSync,
        BackupLost
  <1>6. CASE CreateTempPVC
    <2>1. CurTemp \in Claims /\ \E t \in Slots : CurTemp = temp(t)
      BY <1>6, OnCursor
      DEF CreateTempPVC, At, RunOfSyncing, SyncSteps, CurTemp
    <2>2. CurTemp # orig(s)
      BY <1>0, <2>1
    <2>3. \A d \in Claims : pvc'[d].pv = pvc[d].pv
      BY <1>0, <1>6, <2>1 DEF CreateTempPVC, ClaimRecords
    <2>4. pvc'[orig(s)] = pvc[orig(s)]
      BY <1>0, <1>6, <2>2 DEF CreateTempPVC
    <2> QED
      BY <1>0, <1>1, <2>3, <2>4
  <1>7. CASE DeleteTempPVC
    <2>1. CurTemp # orig(s)
      BY <1>0, <1>7, OnCursor
      DEF DeleteTempPVC, At, RunOfSyncing, ReplaceSteps, CurTemp
    <2>2. \A d \in Claims : pvc'[d].pv = pvc[d].pv
      BY <1>0, <1>7 DEF DeleteTempPVC, DeleteClaim, ClaimRecords
    <2>3. pvc'[orig(s)] = pvc[orig(s)]
      BY <1>0, <1>7, <2>1 DEF DeleteTempPVC, DeleteClaim
    <2> QED
      BY <1>0, <1>1, <2>2, <2>3
  <1>8. CASE DeleteOrigPVC \/ CreateOrigPVC
    <2>1. /\ vr.cur \in Slots /\ run.pc \in RunOfSyncing \ {"createTempPVC", "setRetain"}
      BY <1>8, OnCursor DEF DeleteOrigPVC, CreateOrigPVC, At, RunOfSyncing, ReplaceSteps
    <2>2. vr.cur = s => Retained(s)
      BY <2>1 DEF RetentionInv
    <2>3. vr.cur # s => CurOrig # orig(s)
      BY <2>1, SlotShape DEF CurOrig
    <2>4. CurOrig # orig(s) => pvc'[orig(s)] = pvc[orig(s)]
      BY <1>0, <1>8 DEF DeleteOrigPVC, CreateOrigPVC, DeleteClaim
    <2>5. \A t \in Slots : CurOrig # temp(t)
      BY <2>1, SlotShape DEF CurOrig
    <2>6. \A t \in Slots : pvc'[temp(t)] = pvc[temp(t)]
      BY <1>0, <1>8, <2>5 DEF DeleteOrigPVC, CreateOrigPVC, DeleteClaim
    <2> QED
      BY <1>0, <2>2, <2>3, <2>4, <2>6 DEF OnOldPV
  <1>9. CASE DeleteTempPVCs
    <2>1. \A d \in Claims : pvc'[d].pv = pvc[d].pv
      BY <1>0, <1>9 DEF DeleteTempPVCs, ClaimRecords
    <2>2. pvc'[orig(s)] = pvc[orig(s)]
      BY <1>0, <1>9 DEF DeleteTempPVCs
    <2> QED
      BY <1>0, <1>1, <2>1, <2>2
  <1>10. CASE HandleSyncing
    BY <1>2, <1>6, <1>10
    DEF HandleSyncing, AdvanceCompleted, GetOriginalPVC, SetRetainOnPV, BackupSTS,
        DeleteSTSOrphan, AnnotateSTSDeleted, RecordBackup, DeletePod,
        WaitForPodTermination, CreateMigratorPod, WaitForMigrationComplete,
        RecheckMigrator, CleanupMigratorPod, PersistCompleted, RecreateSTS,
        ClearAnnotation, CheckPodAndAdvance, clusterVars
  <1>11. CASE ReplacePVC
    BY <1>2, <1>7, <1>8, <1>11
    DEF ReplacePVC, RetainNewPV, WaitTempGone, WaitOrigGone, WaitClaimGone,
        ClearClaimRef
  <1>12. CASE Crash \/ ApiError \/ UserDelete \/ UNCHANGED vars
    BY <1>2, <1>12 DEF Crash, ApiError, UserDelete, vars
  <1>13. CASE \/ AddFinalizer \/ HandlePending \/ HandleValidating
              \/ HandleReplacing \/ SetFailed \/ HandleDeletion
    BY <1>2, <1>9, <1>13
    DEF AddFinalizer, HandlePending, HandleValidating, HandleReplacing, SetFailed,
        HandleDeletion, BeginDeletion, DeleteMigrators, RemoveFinalizer, clusterVars
  <1> QED
    BY <1>5, <1>10, <1>11, <1>12, <1>13 DEF Next, Reconcile

-----------------------------------------------------------------------------
(* The steps of a run past setRetainOnPV. *)
Retaining == {"createTempPVC", "setRetain"}
PastRetain == RunOfSyncing \ Retaining

(* What the invariant says of a run, by where the run is. *)
RunKept(s) ==
    /\ run'.newPV # InitPV[s]
    /\ vr'.cur = s /\ run'.pc \in Retaining => Retained(s)' \/ run'.oldPV = InitPV[s]
    /\ vr'.cur = s /\ run'.pc \in PastRetain => Retained(s)'

(* A run that does not enter handleSyncing, or goes on within it, keeps it. *)
LEMMA RunGoesOn ==
    ASSUME TypeInv, RetentionInv, [Next]_vars, NEW s \in Slots,
           run'.newPV # InitPV[s], run'.oldPV = run.oldPV,
           run'.pc \in RunOfSyncing => vr'.cur = vr.cur,
           run'.pc \in PastRetain => run.pc \in PastRetain,
           run'.pc \in Retaining => run.pc \in Retaining
    PROVE  RunKept(s)
  <1>1. Retained(s) => Retained(s)'
    BY VolumesKept
  <1>2. ASSUME vr'.cur = s, run'.pc \in Retaining
        PROVE  Retained(s) \/ run.oldPV = InitPV[s]
    BY <1>2 DEF RetentionInv, Retaining, RunOfSyncing, SyncSteps
  <1>3. ASSUME vr'.cur = s, run'.pc \in PastRetain
        PROVE  Retained(s)
    BY <1>3 DEF RetentionInv, PastRetain, Retaining
  <1> QED
    BY <1>1, <1>2, <1>3 DEF RunKept

(* A run that is outside handleSyncing keeps it. *)
LEMMA RunLeaves ==
    ASSUME TypeInv, RetentionInv, NEW s \in Slots,
           run'.newPV # InitPV[s], run'.pc \notin RunOfSyncing
    PROVE  RunKept(s)
  BY DEF RunKept, PastRetain, Retaining, RunOfSyncing, SyncSteps

(* The three ways a run moves. *)
LEMMA GotoKept ==
    ASSUME TypeInv, RetentionInv, [Next]_vars, NEW s \in Slots, NEW pc,
           Goto(pc), run.pc \in PastRetain \cup DeletionSteps,
           pc \in RunOfSyncing => vr'.cur = vr.cur,
           pc \in PastRetain => run.pc \in PastRetain,
           pc \notin Retaining
    PROVE  RunKept(s)
  <1>1. run'.pc = pc /\ run'.newPV = run.newPV /\ run'.oldPV = run.oldPV
    BY ControllerTyped DEF Goto, RunRecords
  <1>2. run.newPV # InitPV[s]
    BY OldVolume
  <1> QED
    BY <1>1, <1>2, RunGoesOn

(* A run that gives up keeps it. *)
LEMMA FailKept ==
    ASSUME TypeInv, RetentionInv, NEW s \in Slots, Fail
    PROVE  RunKept(s)
  <1>1. run'.pc = "setFailed" /\ run'.newPV = run.newPV
    BY ControllerTyped DEF Fail, Goto, RunRecords
  <1> QED
    BY <1>1, OldVolume, RunLeaves, StepSets

(* A run that returns keeps it. *)
LEMMA ReturnKept ==
    ASSUME TypeInv, RetentionInv, NEW s \in Slots, Return
    PROVE  RunKept(s)
  <1>1. run'.pc = "idle" /\ run'.newPV = NoPV
    BY DEF Return, Idle
  <1>2. InitPV[s] # NoPV
    BY InitPVAssumption DEF PVs, NoPV
  <1> QED
    BY <1>1, <1>2, RunLeaves, StepSets

(* A write of the VolumeResize keeps it. *)
LEMMA WriteKept ==
    ASSUME TypeInv, RetentionInv, [Next]_vars, NEW s \in Slots, NEW new, NEW next,
           WriteVR(new, next), run.pc \in PastRetain \cup {"setFailed"},
           next \in RunOfSyncing => new.cur = vr.cur /\ run.pc \in PastRetain,
           next \notin Retaining
    PROVE  RunKept(s)
  <1>1. CASE Return
    BY <1>1, ReturnKept
  <1>2. CASE vr' = new /\ Goto(next)
    <2>1. run'.pc = next /\ run'.newPV = run.newPV /\ run'.oldPV = run.oldPV
      BY <1>2, ControllerTyped DEF Goto, RunRecords
    <2> QED
      BY <1>2, <2>1, OldVolume, RunGoesOn, RunLeaves DEF PastRetain
  <1> QED
    BY <1>1, <1>2 DEF WriteVR

(* Every step keeps what the invariant says of the run. *)
LEMMA RunStepKept ==
    ASSUME TypeInv, RetentionInv, [Next]_vars, NEW s \in Slots
    PROVE  RunKept(s)
  <1> USE DEF At, RunOfSyncing, SyncSteps, ReplaceSteps, ReturnSteps,
              PastRetain, Retaining, DeletionSteps
  <1>0. /\ run.newPV # InitPV[s] /\ run \in RunRecords
        /\ InitPV[s] \in PVs /\ InitPV[s] # NoPV
    BY OldVolume, ControllerTyped DEF PVs, NoPV
  <1>1. CASE UNCHANGED run /\ vr'.cur = vr.cur
    BY <1>0, <1>1, RunGoesOn
  <1>2. CASE UNCHANGED run /\ run.pc = "idle"
    BY <1>0, <1>2, RunLeaves
  <1>3. CASE Return
    BY <1>3, ReturnKept
  <1>4. CASE Fail
    BY <1>4, FailKept
  <1>5. ASSUME NEW pc, NEW old, Begin(pc, old), pc \notin RunOfSyncing
        PROVE  RunKept(s)
    BY <1>0, <1>5, RunLeaves DEF Begin
  <1>6. CASE GetOriginalPVC
    <2>1. CASE Begin("setFailed", NoPV)
      BY <1>5, <2>1
    <2>2. CASE pvc[CurOrig].st # "absent" /\ Begin("createTempPVC", pvc[CurOrig].pv)
      <3>1. /\ run'.newPV = NoPV /\ run'.oldPV = pvc[CurOrig].pv
            /\ run'.pc = "createTempPVC" /\ vr' = vr
        BY <1>6, <2>2 DEF GetOriginalPVC, Begin
      <3>2. vr.cur = s => Retained(s)' \/ run'.oldPV = InitPV[s]
        BY <3>1, OldVolume, VolumesKept DEF OnOldPV, CurOrig
      <3> QED
        BY <1>0, <3>1, <3>2 DEF RunKept
    <2> QED
      BY <1>6, <2>1, <2>2 DEF GetOriginalPVC
  <1>7. CASE CreateTempPVC
    <2>1. CASE Goto("setRetain")
      <3>1. /\ run'.newPV = run.newPV /\ run'.oldPV = run.oldPV
            /\ run'.pc = "setRetain" /\ run.pc = "createTempPVC" /\ vr' = vr
        BY <1>0, <1>7, <2>1 DEF CreateTempPVC, Goto, RunRecords
      <3> QED
        BY <1>0, <3>1, RunGoesOn
    <2> QED
      BY <1>3, <1>7, <2>1 DEF CreateTempPVC
  <1>8. CASE SetRetainOnPV
    <2>1. CASE /\ Live(run.oldPV)
               /\ pv' = [pv EXCEPT ![run.oldPV].policy = "Retain"]
               /\ run' = [run EXCEPT !.mem = "Syncing",
                                     !.pc = IF ~ vr.stsDeleted /\ sts
                                            THEN "backupSTS" ELSE "deletePod"]
      <3>1. /\ run'.newPV = run.newPV /\ run'.pc \in PastRetain
            /\ run.pc = "setRetain" /\ vr' = vr
        BY <1>0, <1>8, <2>1 DEF SetRetainOnPV, RunRecords
      <3>2. vr.cur = s => Retained(s) \/ run.oldPV = InitPV[s]
        BY <3>1 DEF RetentionInv
      <3>3. run.oldPV = InitPV[s] => pv'[InitPV[s]].policy = "Retain"
        <4>1. InitPV[s] \in PVs /\ pv \in [PVs -> PVRecords]
          BY <1>0, OldVolume DEF TypeInv, TypeOK, ClusterTypeOK
        <4> SUFFICES ASSUME run.oldPV = InitPV[s]
                     PROVE  pv'[InitPV[s]].policy = "Retain"
          OBVIOUS
        <4>2. pv' = [pv EXCEPT ![InitPV[s]] = [@ EXCEPT !.policy = "Retain"]]
          BY <2>1
        <4>3. pv'[InitPV[s]] = [pv[InitPV[s]] EXCEPT !.policy = "Retain"]
          BY <4>1, <4>2
        <4>4. pv[InitPV[s]] \in PVRecords
          BY <4>1
        <4> QED
          BY <4>3, <4>4 DEF PVRecords
      <3>4. Retained(s) => Retained(s)'
        BY VolumesKept
      <3>5. vr.cur = s => Retained(s)'
        BY <3>2, <3>3, <3>4 DEF Retained
      <3> QED
        BY <1>0, <3>1, <3>5 DEF RunKept
    <2> QED
      BY <1>4, <1>8, <2>1 DEF SetRetainOnPV
  <1>9. CASE AnnotateSTSDeleted
    <2>1. CASE ~ vr.deleting
      <3>1. /\ run'.newPV = run.newPV /\ run'.oldPV = run.oldPV
            /\ run'.pc = "recordBackup" /\ run.pc = "annotateSTS" /\ vr'.cur = vr.cur
        BY <1>0, <1>9, <2>1, ControllerTyped DEF AnnotateSTSDeleted, RunRecords, VRRecords
      <3> QED
        BY <1>0, <3>1, RunGoesOn
    <2> QED
      BY <1>3, <1>9, <2>1 DEF AnnotateSTSDeleted
  <1>10. CASE RecordBackup
    <2> DEFINE old == [vr EXCEPT !.backupName = TRUE]
    <2>1. old \in VRRecords /\ old.cur = vr.cur
      BY ControllerTyped DEF VRRecords
    <2>2. SetSlot(old, vr.cur, run.mem).cur = vr.cur
      BY <1>0, <2>1, ControllerTyped, SetSlotType DEF RunRecords
    <2> QED
      BY <1>10, <2>2, WriteKept DEF RecordBackup
  <1>11. CASE CleanupMigratorPod
    <2>1. /\ run'.newPV = run.newPV /\ run'.oldPV = run.oldPV
          /\ run'.pc = "retainNewPV" /\ run.pc = "cleanupMigrator" /\ vr' = vr
      BY <1>0, <1>11 DEF CleanupMigratorPod, RunRecords
    <2> QED
      BY <1>0, <2>1, RunGoesOn
  <1>12. CASE RetainNewPV
    <2>1. CASE run' = [run EXCEPT !.pc = "deleteTemp", !.newPV = pvc[CurTemp].pv]
      <3>1. vr.cur \in Slots /\ pvc[CurTemp].pv # InitPV[s]
        BY <1>12, OnCursor, OldVolume DEF RetainNewPV, CurTemp
      <3>2. /\ run'.newPV # InitPV[s] /\ run'.oldPV = run.oldPV
            /\ run'.pc = "deleteTemp" /\ run.pc = "retainNewPV" /\ vr' = vr
        BY <1>0, <1>12, <2>1, <3>1 DEF RetainNewPV, RunRecords
      <3> QED
        BY <3>2, RunGoesOn
    <2> QED
      BY <1>4, <1>12, <2>1 DEF RetainNewPV
  <1>13. CASE CreateOrigPVC
    <2>1. CASE run' = [run EXCEPT !.pc = "persistCompleted", !.mem = "Completed"]
      <3>1. /\ run'.newPV = run.newPV /\ run'.oldPV = run.oldPV
            /\ run'.pc = "persistCompleted" /\ run.pc = "createOrig" /\ vr' = vr
        BY <1>0, <1>13, <2>1 DEF CreateOrigPVC, RunRecords
      <3> QED
        BY <1>0, <3>1, RunGoesOn
    <2> QED
      BY <1>4, <1>13, <2>1 DEF CreateOrigPVC
  <1>14. CASE PersistCompleted
    <2>1. SetSlot(vr, vr.cur, run.mem).cur = vr.cur
      BY <1>0, ControllerTyped, SetSlotType DEF RunRecords
    <2> QED
      BY <1>14, <2>1, WriteKept DEF PersistCompleted
  <1>15. CASE ClearAnnotation
    <2> DEFINE new == [vr EXCEPT !.stsDeleted = FALSE]
    <2>1. new.cur = vr.cur
      BY ControllerTyped DEF VRRecords
    <2>2. WriteVR(new, "checkPod") /\ run.pc = "clearAnnotation"
      BY <1>15 DEF ClearAnnotation
    <2> HIDE DEF new
    <2> QED
      BY <2>1, <2>2, WriteKept
  <1>16. CASE CheckPodAndAdvance
    BY <1>3, <1>16, WriteKept DEF CheckPodAndAdvance
  <1>17. CASE SetFailed
    BY <1>17, WriteKept DEF SetFailed
  <1>18. CASE HandleSyncing
    <2>1. CASE AdvanceCompleted
      BY <1>2, <2>1 DEF AdvanceCompleted, CanReconcile
    <2>2. CASE \/ BackupSTS \/ DeleteSTSOrphan \/ DeletePod
               \/ WaitForPodTermination \/ CreateMigratorPod
               \/ WaitForMigrationComplete \/ RecheckMigrator \/ RecreateSTS
      BY <1>3, <1>4, <2>2, GotoKept
      DEF BackupSTS, DeleteSTSOrphan, DeletePod, WaitForPodTermination,
          CreateMigratorPod, WaitForMigrationComplete, RecheckMigrator, RecreateSTS
    <2> QED
      BY <1>6, <1>7, <1>8, <1>9, <1>10, <1>11, <1>14, <1>15, <1>16, <1>18, <2>1, <2>2
      DEF HandleSyncing
  <1>19. CASE ReplacePVC
    <2>1. CASE \/ DeleteTempPVC \/ WaitTempGone \/ ClearClaimRef
               \/ DeleteOrigPVC \/ WaitOrigGone
      BY <1>4, <2>1, GotoKept
      DEF DeleteTempPVC, WaitTempGone, ClearClaimRef, DeleteOrigPVC, WaitOrigGone,
          WaitClaimGone
    <2> QED
      BY <1>12, <1>13, <1>19, <2>1 DEF ReplacePVC
  <1>20. CASE HandleDeletion
    <2>1. CASE BeginDeletion
      BY <1>5, <2>1 DEF BeginDeletion
    <2>2. CASE DeleteTempPVCs \/ DeleteMigrators
      BY <2>2, GotoKept DEF DeleteTempPVCs, DeleteMigrators
    <2>3. CASE RemoveFinalizer
      BY <1>3, <2>3 DEF RemoveFinalizer
    <2> QED
      BY <1>20, <2>1, <2>2, <2>3 DEF HandleDeletion
  <1>21. CASE AddFinalizer \/ HandlePending \/ HandleValidating \/ HandleReplacing
    BY <1>2, <1>5, <1>21
    DEF AddFinalizer, HandlePending, HandleValidating, HandleReplacing, CanReconcile
  <1>22. CASE Crash
    BY <1>3, <1>22 DEF Crash
  <1>23. CASE ApiError
    <2>1. CASE /\ run.pc \in DOMAIN NextAfterError
               /\ run' = [run EXCEPT !.pc = NextAfterError[@],
                                     !.mem = IF At("cleanupMigrator") THEN "Synced" ELSE @]
      <3>1. /\ run'.newPV = run.newPV /\ run'.oldPV = run.oldPV
            /\ run'.pc = NextAfterError[run.pc] /\ vr' = vr
        BY <1>0, <1>23, <2>1 DEF ApiError, RunRecords
      <3>2. /\ NextAfterError[run.pc] \in PastRetain => run.pc \in PastRetain
            /\ NextAfterError[run.pc] \notin Retaining
        BY <2>1 DEF NextAfterError
      <3> QED
        BY <1>0, <3>1, <3>2, RunGoesOn
    <2> QED
      <3>1. CASE Return
        BY <1>3, <3>1
      <3>2. CASE run.pc \in FatalOnError /\ Fail
        BY <1>4, <3>2
      <3>3. CASE Begin("setFailed", NoPV)
        BY <1>5, <3>3
      <3> QED
        BY <1>23, <2>1, <3>1, <3>2, <3>3 DEF ApiError
  <1>24. CASE UserDelete
    <2>1. vr'.cur = vr.cur
      BY <1>24, ControllerTyped DEF UserDelete, VRRecords
    <2> QED
      BY <1>1, <1>24, <2>1 DEF UserDelete
  <1>25. CASE (ClusterNext /\ UNCHANGED <<vr, run>>) \/ UNCHANGED vars
    BY <1>1, <1>25 DEF vars
  <1> QED
    BY <1>17, <1>18, <1>19, <1>20, <1>21, <1>22, <1>23, <1>24, <1>25
    DEF Next, Reconcile

-----------------------------------------------------------------------------
(* The invariant is inductive. *)
LEMMA RetentionStep == TypeInv /\ RetentionInv /\ [Next]_vars => RetentionInv'
  <1> SUFFICES ASSUME TypeInv, RetentionInv, [Next]_vars, NEW s \in Slots
               PROVE  /\ (pv[InitPV[s]].st = "live" /\ pv[InitPV[s]].claim = orig(s))'
                      /\ (Retained(s) \/ OnOldPV(s))'
                      /\ \A t \in Slots : pvc'[temp(t)].pv # InitPV[s]
                      /\ RunKept(s)
    BY DEF RetentionInv, RunKept, PastRetain, Retaining
  <1>1. Retained(s) \/ OnOldPV(s)
    BY OldVolume
  <1> QED
    BY <1>1, VolumesKept, ClaimsKept, RunStepKept

(* The invariant holds in every reachable state. *)
LEMMA RetentionAlways == Spec => [](TypeInv /\ RetentionInv)
  <1>1. Init => TypeInv /\ RetentionInv
    BY TypeInit, RetentionInit
  <1>2. TypeInv /\ RetentionInv /\ [Next]_vars => (TypeInv /\ RetentionInv)'
    BY TypeStep, RetentionStep
  <1> QED
    BY <1>1, <1>2, PTL DEF Spec

(* The volume of a slot at the start stays live and meant for its claim, on that
   claim or retained; no temporary claim and no swap names it, so no migrator
   copies onto it; and no run gets past setRetainOnPV without retaining it. *)
THEOREM RetentionHolds == Spec => []RetentionInv
  BY RetentionAlways, PTL

(* The volume a slot had at the start is never reclaimed or deleted: until
   setRetainOnPV has set its policy, its original claim is on it.  So the data
   can be brought back by hand after any sequence of crashes, errors, lost pods
   and deletes, of any length. *)
THEOREM OldPVAlwaysRetained == Spec => []OldPVRetained
  <1>1. RetentionInv => OldPVRetained
    BY DEF RetentionInv, OldPVRetained
  <1> QED
    BY <1>1, RetentionAlways, PTL

(* No step takes anything off the volume a slot had at the start: no migrator
   copies onto it and no provisioner reuses it. *)
THEOREM OldPVOnlyGrows == Spec => OldPVNeverOverwritten
  <1>1. ASSUME TypeInv, RetentionInv, [Next]_vars
        PROVE  [\A s \in Slots : pv[InitPV[s]].data \subseteq pv'[InitPV[s]].data]_vars
    BY <1>1, VolumesKept
  <1>2. TypeInv /\ RetentionInv /\ [Next]_vars =>
          [\A s \in Slots : pv[InitPV[s]].data \subseteq pv'[InitPV[s]].data]_vars
    BY <1>1
  <1> QED
    BY <1>2, RetentionAlways, PTL DEF Spec, OldPVNeverOverwritten
==============================================================================
