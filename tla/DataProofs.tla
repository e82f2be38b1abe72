------------------------------ MODULE DataProofs ------------------------------
(***************************************************************************)
(* No acknowledged write is lost: proofs of AppSeesItsWrites and           *)
(* CompletedSlotMoved, as long as no crash and no error of the API server  *)
(* cuts a run short, nobody removes a migrator pod and the operator sees   *)
(* the pods it made.  And no migration fails without a cause: the proof of *)
(* FailsOnlyForCause.                                                      *)
(***************************************************************************)
EXTENDS QuiesceProofs, FiniteSetTheorems

-----------------------------------------------------------------------------
(* What a step does to the content of a volume. *)

(* Who changes a volume. *)
LEMMA VolumeWriters ==
    ASSUME [Next]_vars
    PROVE  \/ UNCHANGED pv
           \/ \E s \in Slots : AppWrite(s) \/ MigSucceed(s)
           \/ \E c \in Claims : Provision(c) \/ BindAvailable(c) \/ BindNamed(c)
           \/ \E p \in PVs : ReclaimPV(p)
           \/ SetRetainOnPV \/ RetainNewPV \/ ClearClaimRef
  <1>1. CASE ClusterNext
    <2>1. CASE \E r \in Ordinals : PodStep(r)
      BY <2>1 DEF PodStep, StsReconcile, PodStart, PodGone, PodEvicted
    <2>2. CASE \E c \in Claims : VolumeStep(c)
      BY <2>2 DEF VolumeStep, PvcGone
    <2>3. CASE \E s \in Slots : MigStep(s)
      BY <2>3 DEF MigStep, MigStart, MigFail, MigLost, MigGone, CacheSync
    <2>4. CASE BackupLost
      BY <2>4 DEF BackupLost
    <2> QED
      BY <1>1, <2>1, <2>2, <2>3, <2>4 DEF ClusterNext
  <1>2. CASE HandleSyncing
    BY <1>2
    DEF HandleSyncing, AdvanceCompleted, GetOriginalPVC, CreateTempPVC, BackupSTS,
        DeleteSTSOrphan, AnnotateSTSDeleted, RecordBackup, DeletePod,
        WaitForPodTermination, CreateMigratorPod, WaitForMigrationComplete,
        RecheckMigrator, CleanupMigratorPod, PersistCompleted, RecreateSTS,
        ClearAnnotation, CheckPodAndAdvance, clusterVars
  <1>3. CASE ReplacePVC
    BY <1>3
    DEF ReplacePVC, DeleteTempPVC, WaitTempGone, WaitOrigGone, WaitClaimGone,
        DeleteOrigPVC, CreateOrigPVC
  <1>4. CASE Crash \/ ApiError \/ UserDelete \/ UNCHANGED vars
    BY <1>4 DEF Crash, ApiError, UserDelete, vars
  <1>5. CASE \/ AddFinalizer \/ HandlePending \/ HandleValidating
             \/ HandleReplacing \/ SetFailed \/ HandleDeletion
    BY <1>5
    DEF AddFinalizer, HandlePending, HandleValidating, HandleReplacing, SetFailed,
        HandleDeletion, BeginDeletion, DeleteTempPVCs, DeleteMigrators,
        RemoveFinalizer, clusterVars
  <1> QED
    BY <1>1, <1>2, <1>3, <1>4, <1>5, WhoSteps

(* A volume that is in use stays in use; if no migrator copies to it, it loses
   nothing; and what the application writes to its claim arrives on it. *)
Copied(p) == \E t \in Slots : mig[t].st = "running" /\ pvc[temp(t)].pv = p
(* What a step does to a volume in use. *)
LEMMA VolumeKept ==
    ASSUME TypeInv, [Next]_vars, NEW p \in PVs, pv[p].st # "unused"
    PROVE  /\ pv'[p].st # "unused"
           /\ pv[p].data \subseteq pv'[p].data \/ Copied(p)
           /\ \A s \in Slots : AppWrite(s) /\ pvc[orig(s)].pv = p
                                  => <<s, acked[s] + 1>> \in pv'[p].data
  <1>0. p \in PVs /\ pv \in [PVs -> PVRecords] /\ pv[p] \in PVRecords
    BY DEF TypeInv, TypeOK, ClusterTypeOK
  <1> DEFINE Kept == /\ pv'[p].st # "unused"
                     /\ pv[p].data \subseteq pv'[p].data \/ Copied(p)
  <1>1. pv'[p] = pv[p] => Kept
    OBVIOUS
  <1>2. ASSUME NEW t \in Slots, AppWrite(t)
        PROVE  /\ Kept
               /\ pvc[orig(t)].pv = p => <<t, acked[t] + 1>> \in pv'[p].data
    <2> DEFINE q == pvc[orig(t)].pv
    <2>2. pv' = [pv EXCEPT ![q].data = @ \cup {<<t, acked[t] + 1>>}]
      BY <1>2 DEF AppWrite
    <2>3. CASE q = p
      BY <1>0, <2>2, <2>3 DEF PVRecords
    <2>4. CASE q # p
      BY <1>0, <1>1, <2>2, <2>4
    <2> QED
      BY <2>3, <2>4
  <1> SUFFICES Kept
    BY <1>2
  <1>3. ASSUME NEW c \in Claims, Provision(c) \/ BindAvailable(c) \/ BindNamed(c)
        PROVE  Kept
    <2>1. CASE Provision(c)
      BY <1>0, <1>1, <2>1 DEF Provision
    <2>2. CASE BindAvailable(c)
      <3>1. PICK q \in PVs : pv' = [pv EXCEPT ![q].claim = c]
        BY <2>2 DEF BindAvailable
      <3> QED
        BY <1>0, <3>1 DEF PVRecords
    <2>3. CASE BindNamed(c)
      BY <1>0, <1>1, <2>3 DEF BindNamed, PVRecords
    <2> QED
      BY <1>3, <2>1, <2>2, <2>3
  <1>4. CASE \E q \in PVs : ReclaimPV(q)
    BY <1>0, <1>4 DEF ReclaimPV, PVRecords
  <1>5. ASSUME NEW t \in Slots, MigSucceed(t)
        PROVE  Kept
    <2>1. pvc[temp(t)].pv = p => Copied(p)
      BY <1>5 DEF MigSucceed, Copied
    <2>2. PICK copied : pv' = [pv EXCEPT ![pvc[temp(t)].pv].data = copied]
      BY <1>5 DEF MigSucceed, Target
    <2> QED
      BY <1>0, <1>1, <2>1, <2>2 DEF PVRecords
  <1>6. ASSUME NEW q, pv' = [pv EXCEPT ![q].policy = "Retain"]
        PROVE  Kept
    BY <1>0, <1>6 DEF PVRecords
  <1>7. CASE SetRetainOnPV
    BY <1>1, <1>6, <1>7 DEF SetRetainOnPV
  <1>8. CASE RetainNewPV
    BY <1>1, <1>6, <1>8 DEF RetainNewPV
  <1>9. CASE ClearClaimRef
    BY <1>0, <1>1, <1>9 DEF ClearClaimRef, PVRecords
  <1> QED
    BY <1>1, <1>2, <1>3, <1>4, <1>5, <1>7, <1>8, <1>9, VolumeWriters

(* A live volume stays so, with its claimRef and its policy, unless the policy is
   set to Retain, its claim lets it go, the swap frees it, or it was free. *)
LEMMA VolumeStays ==
    ASSUME TypeInv, [Next]_vars, NEW p \in PVs, pv[p].st = "live"
    PROVE  \/ ReclaimPV(p)
           \/ /\ pv'[p].st = "live"
              /\ pv[p].policy = "Retain" => pv'[p].policy = "Retain"
              /\ \/ pv'[p].claim = pv[p].claim
                 \/ pv[p].claim = Unclaimed
                 \/ ClearClaimRef /\ p = run.newPV
  <1>0. p \in PVs /\ pv \in [PVs -> PVRecords] /\ pv[p] \in PVRecords
    BY DEF TypeInv, TypeOK, ClusterTypeOK
  <1> DEFINE Same == /\ pv'[p].st = "live" /\ pv'[p].claim = pv[p].claim
                     /\ pv[p].policy = "Retain" => pv'[p].policy = "Retain"
  <1>1. pv'[p] = pv[p] => Same
    OBVIOUS
  <1>2. ASSUME NEW s \in Slots, AppWrite(s) \/ MigSucceed(s)
        PROVE  Same
    <2>1. PICK q, d : pv' = [pv EXCEPT ![q].data = d]
      BY <1>2 DEF AppWrite, MigSucceed
    <2> QED
      BY <1>0, <2>1 DEF PVRecords
  <1>3. ASSUME NEW c \in Claims, Provision(c) \/ BindAvailable(c) \/ BindNamed(c)
        PROVE  \/ Same
               \/ /\ pv'[p].st = "live" /\ pv[p].claim = Unclaimed
                  /\ pv'[p].policy = pv[p].policy
    <2>1. CASE Provision(c)
      BY <1>0, <1>1, <2>1 DEF Provision
    <2>2. CASE BindAvailable(c)
      <3>1. PICK q \in PVs : pv[q].claim = Unclaimed /\ pv' = [pv EXCEPT ![q].claim = c]
        BY <2>2 DEF BindAvailable
      <3> QED
        BY <1>0, <3>1 DEF PVRecords
    <2>3. CASE BindNamed(c)
      BY <1>0, <1>1, <2>3 DEF BindNamed, PVRecords
    <2> QED
      BY <1>3, <2>1, <2>2, <2>3
  <1>4. ASSUME NEW q \in PVs, ReclaimPV(q)
        PROVE  ReclaimPV(p) \/ Same
    BY <1>0, <1>1, <1>4 DEF ReclaimPV
  <1>5. ASSUME NEW q, pv' = [pv EXCEPT ![q].policy = "Retain"]
        PROVE  Same
    BY <1>0, <1>5 DEF PVRecords
  <1>6. SetRetainOnPV \/ RetainNewPV => Same
    BY <1>1, <1>5 DEF SetRetainOnPV, RetainNewPV
  <1>7. ClearClaimRef => \/ Same
                         \/ /\ p = run.newPV /\ pv'[p].st = "live"
                            /\ pv'[p].policy = pv[p].policy
    BY <1>0, <1>1 DEF ClearClaimRef, PVRecords
  <1> QED
    BY <1>1, <1>2, <1>3, <1>4, <1>6, <1>7, VolumeWriters

(* Only a write of the application is acknowledged. *)
LEMMA AckedChange ==
    ASSUME TypeInv, [Next]_vars, NEW s \in Slots
    PROVE  \/ acked'[s] = acked[s]
           \/ AppWrite(s) /\ acked'[s] = acked[s] + 1
  <1>0. acked \in [Slots -> 0 .. MaxWrites]
    BY DEF TypeInv, TypeOK, ClusterTypeOK
  <1>1. CASE UNCHANGED acked
    BY <1>1
  <1>2. CASE \E t \in Slots : AppWrite(t)
    BY <1>0, <1>2 DEF AppWrite
  <1>3. CASE HandleSyncing
    BY <1>1, <1>3
    DEF HandleSyncing, AdvanceCompleted, GetOriginalPVC, CreateTempPVC, SetRetainOnPV,
        BackupSTS, DeleteSTSOrphan, AnnotateSTSDeleted, RecordBackup, DeletePod,
        WaitForPodTermination, CreateMigratorPod, WaitForMigrationComplete,
        RecheckMigrator, CleanupMigratorPod, PersistCompleted, RecreateSTS,
        ClearAnnotation, CheckPodAndAdvance, clusterVars
  <1>4. CASE ReplacePVC
    BY <1>1, <1>4
    DEF ReplacePVC, RetainNewPV, DeleteTempPVC, WaitTempGone, WaitOrigGone,
        WaitClaimGone, ClearClaimRef, DeleteOrigPVC, CreateOrigPVC
  <1>5. CASE \/ AddFinalizer \/ HandlePending \/ HandleValidating
             \/ HandleReplacing \/ SetFailed \/ HandleDeletion
    BY <1>1, <1>5
    DEF AddFinalizer, HandlePending, HandleValidating, HandleReplacing, SetFailed,
        HandleDeletion, BeginDeletion, DeleteTempPVCs, DeleteMigrators,
        RemoveFinalizer, clusterVars
  <1>6. CASE Crash \/ ApiError \/ UserDelete \/ UNCHANGED vars
    BY <1>1, <1>6 DEF Crash, ApiError, UserDelete, vars
  <1>7. CASE ClusterNext
    BY <1>1, <1>2, <1>7
    DEF ClusterNext, PodStep, StsReconcile, PodStart, PodGone, PodEvicted,
        VolumeStep, Provision, BindAvailable, BindNamed, PvcGone, ReclaimPV,
        MigStep, MigStart, MigSucceed, MigFail, MigLost, MigGone, CacheSync,
        BackupLost
  <1> QED
    BY <1>1, <1>3, <1>4, <1>5, <1>6, <1>7, WhoSteps

(* A volume that holds every acknowledged write goes on doing so, if no
   migrator copies to it and the pod of the application, if it is there, writes
   to it. *)
LEMMA WholeKept ==
    ASSUME TypeInv, [Next]_vars, NEW s \in Slots, NEW p \in PVs, WholeOn(s, p),
           pv[p].st # "unused", ~ Copied(p),
           pod[s[1]] \in {"running", "terminating"} => pvc[orig(s)].pv = p
    PROVE  WholeOn(s, p)' /\ pv'[p].st # "unused"
  <1>1. acked[s] \in Nat
    BY SizeAssumption DEF TypeInv, TypeOK, ClusterTypeOK
  <1>2. /\ pv'[p].st # "unused" /\ pv[p].data \subseteq pv'[p].data
        /\ AppWrite(s) => <<s, acked[s] + 1>> \in pv'[p].data
    BY VolumeKept DEF AppWrite
  <1>3. \A n \in 1 .. acked[s] : <<s, n>> \in pv'[p].data
    BY <1>2 DEF WholeOn, Acked
  <1>4. \A n \in 1 .. acked'[s] : <<s, n>> \in pv'[p].data
    <2>1. CASE acked'[s] = acked[s]
      BY <1>3, <2>1
    <2>2. CASE AppWrite(s) /\ acked'[s] = acked[s] + 1
      <3>1. \A n \in 1 .. acked'[s] : n \in 1 .. acked[s] \/ n = acked[s] + 1
        BY <1>1, <2>2
      <3> QED
        BY <1>2, <1>3, <2>2, <3>1
    <2> QED
      BY <2>1, <2>2, AckedChange
  <1>5. ({s} \X (1 .. acked'[s])) \subseteq pv'[p].data
    BY <1>4
  <1> QED
    BY <1>2, <1>5 DEF WholeOn, Acked

-----------------------------------------------------------------------------
(* The life of a migrator pod. *)

(* A step that is none of the faults that break the data: a crash, an error of
   the API server, the loss of a pod, a stale cache (see the README). *)
Undisturbed ==
    /\ Replicas # 0
    /\ NotCutShort /\ ~ Fault("podloss") /\ ~ Fault("lag")

(* The migrator pod of a slot is made, copies, ends, and is told to go only by
   the operator. *)
MigStays(s)  == mig'[s].st = mig[s].st /\ mig'[s].del = mig[s].del
                /\ mig'[s].snap = mig[s].snap
MigStarts(s) == /\ MigStart(s) /\ mig[s].st = "pending" /\ ~ mig[s].del
                /\ mig'[s].st = "running" /\ ~ mig'[s].del /\ UNCHANGED <<vr, run>>
                /\ mig'[s].snap = pv[pvc[orig(s)].pv].data
MigEnds(s)   == /\ mig[s].st = "running" /\ mig'[s].st \in {"succeeded", "failed"}
                /\ mig'[s].del = mig[s].del /\ UNCHANGED <<vr, run>>
                /\ mig'[s].st = "succeeded" => MigSucceed(s)
MigLeaves(s) == mig[s].del /\ mig'[s] = NoMig /\ UNCHANGED <<vr, run>>
MigMade(s)   == /\ CreateMigratorPod /\ s = vr.cur /\ mig[s].st = "absent"
                /\ mig'[s].st = "pending" /\ ~ mig'[s].del /\ run'.pc = "waitMigrator"
MigTold(s)   == /\ (CleanupMigratorPod /\ s = vr.cur) \/ DeleteMigrators
                /\ mig'[s].st = mig[s].st /\ mig'[s].snap = mig[s].snap
                /\ mig[s].st # "absent" => mig'[s].del

(* A step about a migrator pod the operator sees is one of these. *)
LEMMA CopySteps ==
    ASSUME Undisturbed, TypeInv, [Next]_vars, NEW s \in Slots, mig[s].seen
    PROVE  /\ mig'[s].seen
           /\ \/ MigStays(s) \/ MigStarts(s) \/ MigEnds(s) \/ MigLeaves(s)
              \/ MigMade(s) \/ MigTold(s)
  <1>1. mig \in [Slots -> MigRecords] /\ mig[s] \in MigRecords /\ run \in RunRecords
    BY ControllerTyped DEF TypeInv, TypeOK, ClusterTypeOK
  <1>2. CASE mig'[s] = mig[s]
    BY <1>2 DEF MigStays
  <1>3. CASE MigStep(s) /\ UNCHANGED <<vr, run>>
    <2>1. CASE MigStart(s)
      BY <1>1, <1>3, <2>1 DEF MigStart, MigRecords, MigStarts, Source
    <2>2. CASE MigSucceed(s)
      BY <1>1, <1>3, <2>2 DEF MigSucceed, MigRecords, MigEnds
    <2>3. CASE MigFail(s)
      BY <1>1, <1>3, <2>3 DEF MigFail, MigRecords, MigEnds
    <2>4. CASE MigGone(s)
      BY <1>1, <1>3, <2>4 DEF MigGone, MigLeaves, NoMig
    <2>5. ~ MigLost(s) /\ ~ CacheSync(s)
      BY DEF MigLost, Undisturbed, CacheSync
    <2> QED
      BY <1>3, <2>1, <2>2, <2>3, <2>4, <2>5 DEF MigStep
  <1>4. CASE CreateMigratorPod /\ s = vr.cur
    <2>1. CASE mig'[s] # mig[s]
      <3>1. PICK seen \in BOOLEAN :
               /\ mig' = [mig EXCEPT ![vr.cur] =
                            [NoMig EXCEPT !.st = "pending", !.seen = seen]]
               /\ IF seen THEN UNCHANGED faults ELSE Fault("lag")
               /\ mig[vr.cur].st = "absent" /\ Goto("waitMigrator")
        BY <1>4, <2>1 DEF CreateMigratorPod
      <3>2. seen = TRUE
        BY <3>1 DEF Undisturbed
      <3>3. mig'[s] = [NoMig EXCEPT !.st = "pending", !.seen = seen]
        BY <1>1, <1>4, <3>1
      <3>4. mig'[s].st = "pending" /\ ~ mig'[s].del /\ mig'[s].seen
        BY <3>2, <3>3 DEF NoMig
      <3>5. run'.pc = "waitMigrator"
        BY <1>1, <3>1 DEF Goto, RunRecords
      <3> QED
        BY <1>4, <3>1, <3>4, <3>5 DEF MigMade
    <2> QED
      BY <1>2, <2>1
  <1>5. CASE CleanupMigratorPod /\ s = vr.cur
    <2>1. mig' = [mig EXCEPT ![s] = [mig[s] EXCEPT !.del = mig[s].st # "absent"]]
      BY <1>1, <1>5 DEF CleanupMigratorPod
    <2> QED
      BY <1>1, <1>5, <2>1 DEF MigTold, MigRecords
  <1>6. CASE DeleteMigrators
    BY <1>1, <1>2, <1>6 DEF DeleteMigrators, MigTold, MigRecords, Visible
  <1>7. ~ Crash
    BY DEF Crash, NotCutShort, Undisturbed
  <1> QED
    BY <1>2, <1>3, <1>4, <1>5, <1>6, <1>7, MigChange

(* A swap under way goes on, is done, or has failed for good. *)
AtSlot(s, pcs) == vr.cur = s /\ run.pc \in pcs

(* What becomes of a swap in one step. *)
LEMMA SwapGoesOn ==
    ASSUME Undisturbed, TypeInv, CycleInv, [Next]_vars, NEW s \in Slots,
           AtSlot(s, ReplaceSteps)
    PROVE  /\ AtSlot(s, ReplaceSteps)' \/ (Done(s)' /\ run.pc = "createOrig") \/ Over'
           /\ run'.pc \in ReplaceSteps
                 => run'.pc = run.pc \/ <<run.pc, run'.pc>> \in Flow
  <1>1. ~ ApiError /\ ~ Crash
    BY DEF ApiError, Crash, NotCutShort, Undisturbed
  <1>2. run'.pc \in ReplaceSteps => run'.pc = run.pc \/ <<run.pc, run'.pc>> \in Flow
    BY RunPath DEF Path, ReplaceSteps, AtSlot
  <1>3. run'.pc \in ReplaceSteps => AtSlot(s, ReplaceSteps)'
    BY SlotOfRun DEF RunOfSyncing, AtSlot
  <1>4. run'.pc = "persistCompleted" => Done(s)' /\ run.pc = "createOrig"
    BY SlotOfRun, RunPath DEF Path, Flow, RunOfSyncing, ReplaceSteps, ReturnSteps,
       AtSlot, Done
  <1>5. run'.pc \in ReplaceSteps \cup {"persistCompleted", "setFailed"}
    <2>1. CASE run' = run
      BY <2>1 DEF AtSlot
    <2>2. CASE run' # run
      <3>1. \/ RetainNewPV \/ DeleteTempPVC \/ WaitTempGone \/ ClearClaimRef
            \/ DeleteOrigPVC \/ WaitOrigGone \/ CreateOrigPVC
        BY <1>1, <2>2, RunFrom DEF AtSlot, ReplaceSteps
      <3> QED
        BY <3>1, ControllerTyped
        DEF RetainNewPV, DeleteTempPVC, WaitTempGone, ClearClaimRef, DeleteOrigPVC,
            WaitOrigGone, CreateOrigPVC, WaitClaimGone, Goto, Fail, RunRecords, ReplaceSteps
    <2> QED
      BY <2>1, <2>2
  <1> QED
    BY <1>2, <1>3, <1>4, <1>5 DEF Over

(* The claim of a slot names its new volume when CreateOrigPVC makes it, and
   keeps naming it. *)
LEMMA MovedSteps ==
    ASSUME TypeInv, RetentionInv, ClaimInv, [Next]_vars, NEW s \in Slots
    PROVE  /\ Moved(s)' => \/ Moved(s)
                           \/ /\ CreateOrigPVC /\ s = vr.cur /\ pvc[orig(s)].st = "absent"
                              /\ pvc'[orig(s)].pv = run.newPV
           /\ Moved(s) => Moved(s)'
  <1> DEFINE old == pvc[orig(s)]
             new == pvc'[orig(s)]
  <1>1. /\ Moved(s) <=> old.st # "absent" /\ old.pv # InitPV[s]
        /\ Moved(s)' <=> new.st # "absent" /\ new.pv # InitPV[s]
        /\ Moved(s) => ~ old.term
        /\ old.st = "absent" => ~ sts
        /\ Moved(s) => vr.vs[s] = "Completed" \/ run.pc = "persistCompleted" \/ Over
    BY DEF Moved, Lost, orig, ClaimInv, Done
  <1> HIDE DEF old, new
  <1> QED
    BY <1>1, OrigChange DEF old, new, NoClaim

-----------------------------------------------------------------------------
(* The temporary claim of a slot. *)

(* What happens to it; a step that is not named keeps whether it is there and on
   its way out. *)
LEMMA TempChange ==
    ASSUME TypeInv, [Next]_vars, NEW s \in Slots
    PROVE  LET old == pvc[temp(s)]
               new == pvc'[temp(s)]
           IN  \/ (new.st = "absent" <=> old.st = "absent") /\ new.term = old.term
               \/ old.term /\ new = NoClaim
               \/ /\ CreateTempPVC /\ s = vr.cur /\ old.st = "absent"
                  /\ new.st # "absent" /\ new.term = old.term
               \/ /\ DeleteTempPVC /\ s = vr.cur /\ new.st = old.st
                  /\ new.term = (old.st # "absent")
               \/ /\ DeleteTempPVCs /\ new.st = old.st
                  /\ new.term = (old.st # "absent")
  <1> DEFINE c == temp(s)
  <1>1. /\ c \in Claims /\ c[1] = s /\ c[2] = "temp" /\ pvc[c] \in ClaimRecords
        /\ pvc \in [Claims -> ClaimRecords]
        /\ CurTemp = c => s = vr.cur
    BY SlotShape, ClaimTyped DEF temp, CurTemp, TypeInv, TypeOK, ClusterTypeOK
  <1>2. c # CurOrig \/ ~ (DeleteOrigPVC \/ CreateOrigPVC)
    BY SlotShape, OnCursor
    DEF CurOrig, DeleteOrigPVC, CreateOrigPVC, At, RunOfSyncing, ReplaceSteps
  <1> DEFINE Goal ==
           \/ (pvc'[c].st = "absent" <=> pvc[c].st = "absent") /\ pvc'[c].term = pvc[c].term
           \/ pvc[c].term /\ pvc'[c] = NoClaim
           \/ /\ CreateTempPVC /\ s = vr.cur /\ pvc[c].st = "absent"
              /\ pvc'[c].st # "absent" /\ pvc'[c].term = pvc[c].term
           \/ /\ DeleteTempPVC /\ s = vr.cur /\ pvc'[c].st = pvc[c].st
              /\ pvc'[c].term = (pvc[c].st # "absent")
           \/ /\ DeleteTempPVCs /\ pvc'[c].st = pvc[c].st
              /\ pvc'[c].term = (pvc[c].st # "absent")
  <1> SUFFICES Goal
    OBVIOUS
  <1> HIDE DEF c
  <1>3. CASE pvc'[c] = pvc[c]
    BY <1>3
  <1>4. CASE VolumeStep(c)
    <2>1. CASE PvcGone(c)
      BY <1>1, <2>1 DEF PvcGone
    <2>2. ASSUME NEW p, BindTo(c, p), pvc[c].st # "absent"
          PROVE  Goal
      BY <1>1, <2>2 DEF BindTo, ClaimRecords
    <2> QED
      BY <1>4, <2>1, <2>2
      DEF VolumeStep, Provision, BindAvailable, BindNamed, Unbound
  <1>5. CASE CreateTempPVC /\ c = CurTemp
    BY <1>1, <1>5 DEF CreateTempPVC, ClaimRecords
  <1>6. CASE DeleteTempPVC /\ c = CurTemp
    BY <1>1, <1>6 DEF DeleteTempPVC, DeleteClaim, ClaimRecords
  <1>7. CASE DeleteTempPVCs
    BY <1>1, <1>7 DEF DeleteTempPVCs, ClaimRecords
  <1> QED
    BY <1>1, <1>2, <1>3, <1>4, <1>5, <1>6, <1>7, ClaimChange

(* A temporary claim belongs to the slot under migration or is on its way out;
   it is told to go by the swap, never before, and never made again. *)
Past == ReplaceSteps \ {"retainNewPV", "deleteTemp"}
TempInv ==
    \A s \in Slots :
        /\ pvc[temp(s)].st # "absent" => vr.cur = s \/ pvc[temp(s)].term \/ Over
        /\ pvc[temp(s)].term => Over \/ Done(s) \/ AtSlot(s, Past)
        /\ AtSlot(s, Past) \/ Done(s) => TempsLeave(s)

(* Every step keeps TempInv. *)
LEMMA TempStep ==
    ASSUME Undisturbed, TypeInv, CycleInv, TempInv, [Next]_vars
    PROVE  TempInv'
  <1> SUFFICES ASSUME NEW s \in Slots
               PROVE  /\ pvc'[temp(s)].st # "absent"
                             => vr'.cur = s \/ pvc'[temp(s)].term \/ Over'
                      /\ pvc'[temp(s)].term => Over' \/ Done(s)' \/ AtSlot(s, Past)'
                      /\ AtSlot(s, Past)' \/ Done(s)' => TempsLeave(s)'
    BY DEF TempInv, temp
  <1> DEFINE old == pvc[temp(s)]
             new == pvc'[temp(s)]
  <1> USE DEF RunOfSyncing, SyncSteps, ReplaceSteps, ReturnSteps
  <1>1. /\ NotCutShort /\ Replicas # 0
        /\ ~ ApiError /\ ~ Crash
    BY DEF Undisturbed, NotCutShort, ApiError, Crash
  <1>2. /\ old.st # "absent" => vr.cur = s \/ old.term \/ Over
        /\ old.term => Over \/ Done(s) \/ AtSlot(s, Past)
        /\ AtSlot(s, Past) \/ Done(s) => (old.st # "absent" => old.term)
        /\ TempsLeave(s)' <=> (new.st # "absent" => new.term)
    BY DEF TempInv, TempsLeave, temp
  <1>3. \/ (new.st = "absent" <=> old.st = "absent") /\ new.term = old.term
        \/ old.term /\ new = NoClaim
        \/ CreateTempPVC /\ s = vr.cur /\ old.st = "absent" /\ new.st # "absent"
           /\ new.term = old.term
        \/ DeleteTempPVC /\ s = vr.cur /\ new.st = old.st /\ new.term = (old.st # "absent")
        \/ DeleteTempPVCs /\ new.st = old.st /\ new.term = (old.st # "absent")
    BY TempChange
  <1> HIDE DEF old, new
  <1>4. NoClaim.st = "absent" /\ ~ NoClaim.term
    BY DEF NoClaim
  <1>5. CreateTempPVC => /\ run.pc = "createTempPVC" /\ vr' = vr
                         /\ s = vr.cur => ~ Done(s)
    BY NotOver, ControllerTyped DEF CreateTempPVC, At, Done, CycleInv, MemInv, Stored
  <1>6. DeleteTempPVC => run.pc = "deleteTemp" /\ run'.pc = "waitTemp" /\ vr' = vr
    BY RunGoesTo DEF DeleteTempPVC, At
  <1>7. DeleteTempPVCs => Over
    BY DEF DeleteTempPVCs, At, CycleInv, RunInv, Over, DeletionSteps
  <1>8. Over => Over'
    BY <1>1, OverForGood
  <1>9. new.st # "absent" => vr'.cur = s \/ new.term \/ Over'
    <2>1. vr'.cur # s /\ vr.cur = s => Done(s)
      BY SlotChange, ControllerTyped DEF Done
    <2> QED
      BY <1>2, <1>3, <1>4, <1>5, <1>7, <1>8, <2>1
  <1>10. new.term => Over' \/ Done(s)' \/ AtSlot(s, Past)'
    <2>1. old.term => Over' \/ Done(s)' \/ AtSlot(s, Past)'
      <3>1. CASE AtSlot(s, Past)
        <4>1. AtSlot(s, ReplaceSteps)
          BY <3>1 DEF AtSlot, Past
        <4> QED
          BY <3>1, <4>1, SwapGoesOn DEF AtSlot, Past, Flow
      <3> QED
        BY <1>1, <1>2, <1>8, <3>1, DoneSteps
    <2>2. DeleteTempPVC /\ s = vr.cur => AtSlot(s, Past)'
      BY <1>6 DEF AtSlot, Past
    <2> QED
      BY <1>3, <1>4, <1>7, <1>8, <2>1, <2>2
  <1>11. ASSUME AtSlot(s, Past)' \/ Done(s)'
         PROVE  new.st # "absent" => new.term
    <2>1. CASE AtSlot(s, Past) \/ Done(s)
      <3>1. ~ (CreateTempPVC /\ s = vr.cur)
        BY <1>5, <2>1 DEF AtSlot, Past
      <3> QED
        BY <1>2, <1>3, <1>4, <2>1, <3>1
    <2>2. CASE ~ (AtSlot(s, Past) \/ Done(s))
      <3>1. CASE Done(s)'
        <4>1. CreateOrigPVC /\ s = vr.cur
          BY <1>1, <2>2, <3>1, DoneSteps
        <4> QED
          BY <2>2, <4>1 DEF CreateOrigPVC, At, AtSlot, Past
      <3>2. CASE AtSlot(s, Past)'
        <4>1. run.pc \in Past \cup {"deleteTemp"}
          BY <3>2, RunPath DEF AtSlot, Past, Path, Flow
        <4>2. vr.cur = s
          BY <3>2, <4>1, SlotOfRun DEF AtSlot, Past
        <4>3. run.pc = "deleteTemp" /\ run' # run
          BY <2>2, <3>2, <4>1, <4>2 DEF AtSlot, Past
        <4>4. DeleteTempPVC
          BY <1>1, <4>3, RunFrom
        <4>5. new.term = (old.st # "absent") /\ new.st = old.st
          <5>1. pvc' = [pvc EXCEPT ![temp(s)].term = pvc[temp(s)].st # "absent"]
            BY <4>2, <4>4 DEF DeleteTempPVC, DeleteClaim, CurTemp
          <5> QED
            BY <5>1, SlotShape DEF old, new, TypeInv, TypeOK, ClusterTypeOK, ClaimRecords
        <4> QED
          BY <4>5
      <3> QED
        BY <1>11, <3>1, <3>2
    <2> QED
      BY <2>1, <2>2
  <1> QED
    BY <1>2, <1>9, <1>10, <1>11 DEF new

-----------------------------------------------------------------------------
(* The migrator pod of a slot: seen by the operator; unless told to go it
   belongs to the slot under migration, whose StatefulSet and pod are away and
   whose claim is not swapped; it is told to go by the swap, after it succeeded,
   or when the migration is over. *)
Stays(s) == mig[s].st # "absent" /\ ~ mig[s].del
BusyInv ==
    \A s \in Slots :
        /\ mig[s].seen
        /\ Stays(s) =>
              /\ ~ sts /\ pod[s[1]] = "absent" /\ vr.cur = s
              /\ Over \/ (vr.phase = "Syncing" /\ vr.vs[s] # "Completed")
              /\ run.pc \notin ReplaceSteps \cup ReturnSteps
        /\ mig[s].del => Over \/ Done(s) \/ AtSlot(s, ReplaceSteps)
        /\ Moved(s) => mig[s].st # "running" /\ MigsLeave(s)
        /\ AtSlot(s, Waiting) => Stays(s)
        /\ AtSlot(s, {"cleanupMigrator"}) => mig[s].st = "succeeded"
        /\ AtSlot(s, ReplaceSteps) => mig[s].st \in {"absent", "succeeded"}

(* A migrator pod that nobody told to go. *)
LEMMA StaysStep ==
    ASSUME Undisturbed, TypeInv, CycleInv, StsInv, PodInv, BusyInv, [Next]_vars,
           NEW s \in Slots, Stays(s)'
    PROVE  /\ ~ sts' /\ pod'[s[1]] = "absent" /\ vr'.cur = s
           /\ Over' \/ (vr'.phase = "Syncing" /\ vr'.vs[s] # "Completed")
           /\ run'.pc \notin ReplaceSteps \cup ReturnSteps
  <1> USE DEF ReplaceSteps, ReturnSteps
  <1>1. /\ NotCutShort /\ Replicas # 0
        /\ ~ ApiError /\ ~ Crash
    BY DEF Undisturbed, NotCutShort, ApiError, Crash
  <1>2. /\ pod \in [Ordinals -> PodStates] /\ s[1] \in Ordinals
        /\ run \in RunRecords /\ NoSlot \notin Slots /\ mig[s].seen
    BY ControllerTyped, SlotShape DEF TypeInv, TypeOK, ClusterTypeOK, BusyInv
  <1>3. \/ Stays(s) /\ ~ (CleanupMigratorPod /\ s = vr.cur)
        \/ MigMade(s)
    BY <1>2, CopySteps, MigToldToGo
    DEF Stays, MigStays, MigStarts, MigEnds, MigLeaves, MigTold, NoMig
  <1>4. CASE MigMade(s)
    <2>1. /\ run.pc = "createMigrator" /\ UNCHANGED <<vr, sts, pod>> /\ s = vr.cur
          /\ run'.pc = "waitMigrator"
      BY <1>4 DEF MigMade, CreateMigratorPod, At
    <2>2. ~ sts /\ pod[s[1]] = "absent"
      BY <2>1 DEF StsInv, Away, PodInv, Copying
    <2>3. vr.vs[s] # "Completed" /\ vr.phase = "Syncing"
      BY <1>2, <2>1, OnCursor DEF CycleInv, MemInv, SyncSteps, Stored, RunOfSyncing
    <2> QED
      BY <2>1, <2>2, <2>3
  <1>5. CASE Stays(s) /\ ~ (CleanupMigratorPod /\ s = vr.cur)
    <2>1. /\ ~ sts /\ pod[s[1]] = "absent" /\ vr.cur = s
          /\ Over \/ (vr.phase = "Syncing" /\ vr.vs[s] # "Completed")
          /\ run.pc \notin ReplaceSteps \cup ReturnSteps
      BY <1>5 DEF BusyInv
    <2>2. ~ sts'
      BY <2>1, StsMoves
    <2>3. pod'[s[1]] = "absent"
      <3>1. CASE PodStep(s[1])
        BY <1>2, <2>1, <3>1 DEF PodStep, StsReconcile, PodStart, PodGone, PodEvicted
      <3>2. CASE DeletePod /\ s[1] = vr.cur[1]
        BY <1>2, <2>1, <3>2 DEF DeletePod
      <3> QED
        BY <1>2, <2>1, <3>1, <3>2, PodChange
    <2>4. ~ (AdvanceCompleted \/ CheckPodAndAdvance) \/ ~ Over \/ vr.deleting
      BY NotOver DEF AdvanceCompleted, CheckPodAndAdvance, CanReconcile, At, Over,
         RunOfSyncing
    <2>5. vr'.cur = s
      BY <1>2, <2>1, <2>4, SlotChange
    <2>6. Over' \/ (vr'.phase = "Syncing" /\ vr'.vs[s] # "Completed")
      <3>1. CASE Over
        BY <1>1, <3>1, OverForGood
      <3>2. CASE vr.phase = "Syncing" /\ vr.vs[s] # "Completed"
        <4>1. vr'.vs[s] # "Completed"
          BY <2>1, <3>2, SlotChange DEF PersistCompleted, At
        <4>2. vr'.phase = "Syncing" \/ vr'.phase = "Failed"
          BY <1>2, <2>1, <3>2, MetaChange, AdvanceSteps
          DEF HandlePending, HandleValidating, HandleReplacing, CanReconcile, Returns
        <4> QED
          BY <4>1, <4>2 DEF Over
      <3> QED
        BY <2>1, <3>1, <3>2
    <2>7. run'.pc \notin ReplaceSteps \cup ReturnSteps
      <3>1. run.pc = "cleanupMigrator" /\ run'.pc = "retainNewPV" => CleanupMigratorPod
        BY <1>1, RunFrom
      <3> QED
        BY <1>5, <2>1, <3>1, RunPath DEF Path, Flow
    <2> QED
      BY <2>2, <2>3, <2>5, <2>6, <2>7
  <1> QED
    BY <1>3, <1>4, <1>5

(* A run that waits for a migrator pod finds it, and goes on when it has
   succeeded. *)
LEMMA WaitStep ==
    ASSUME Undisturbed, TypeInv, CycleInv, BusyInv, [Next]_vars, NEW s \in Slots
    PROVE  /\ AtSlot(s, Waiting)' => Stays(s)'
           /\ AtSlot(s, {"cleanupMigrator"})' => mig'[s].st = "succeeded"
           /\ AtSlot(s, ReplaceSteps)' => mig'[s].st \in {"absent", "succeeded"}
  <1> USE DEF RunOfSyncing, SyncSteps, ReplaceSteps, Waiting
  <1>1. /\ ~ ApiError /\ ~ Crash
        /\ mig \in [Slots -> MigRecords] /\ mig[s] \in MigRecords /\ run \in RunRecords
        /\ mig[s].seen
    BY ControllerTyped
    DEF Undisturbed, NotCutShort, ApiError, Crash, TypeInv, TypeOK, ClusterTypeOK, BusyInv
  <1>2. /\ AtSlot(s, Waiting) => Stays(s)
        /\ AtSlot(s, {"cleanupMigrator"}) => mig[s].st = "succeeded"
        /\ AtSlot(s, ReplaceSteps) => mig[s].st \in {"absent", "succeeded"}
        /\ mig[s].del => Over \/ Done(s) \/ AtSlot(s, ReplaceSteps)
    BY DEF BusyInv
  <1>3. /\ CreateMigratorPod => run.pc = "createMigrator" /\ run'.pc # run.pc
        /\ CleanupMigratorPod => run.pc = "cleanupMigrator" /\ run'.pc = "retainNewPV"
        /\ DeleteMigrators => run.pc = "deleteMigrators" /\ run'.pc # run.pc
    <2>1. CASE CreateMigratorPod
      BY <2>1, RunGoesTo DEF CreateMigratorPod, At, CleanupMigratorPod, DeleteMigrators
    <2>2. CASE CleanupMigratorPod
      <3>1. run' = [run EXCEPT !.pc = "retainNewPV", !.mem = "Synced"]
            /\ run.pc = "cleanupMigrator"
        BY <2>2 DEF CleanupMigratorPod, At
      <3> QED
        BY <1>1, <3>1 DEF RunRecords, CreateMigratorPod, DeleteMigrators, At
    <2>3. CASE DeleteMigrators
      BY <2>3, RunGoesTo DEF CreateMigratorPod, At, CleanupMigratorPod, DeleteMigrators
    <2> QED
      BY <2>1, <2>2, <2>3
  <1>4. ASSUME AtSlot(s, Waiting)'
        PROVE  Stays(s)' /\ (run'.pc = "cleanupMigrator" => mig'[s].st = "succeeded")
    <2>1. run.pc \in Waiting \cup {"createMigrator"} /\ vr.cur = s
      BY <1>4, RunPath, SlotOfRun DEF AtSlot, Path, Flow
    <2>2. CASE run' = run
      <3>1. ~ CreateMigratorPod /\ ~ CleanupMigratorPod /\ ~ DeleteMigrators
        BY <1>3, <2>2
      <3>2. Stays(s) /\ (run.pc = "cleanupMigrator" => mig[s].st = "succeeded")
        BY <1>2, <1>4, <2>1, <2>2 DEF AtSlot
      <3> QED
        BY <1>1, <2>2, <3>1, <3>2, CopySteps
        DEF Stays, MigStays, MigStarts, MigEnds, MigLeaves, MigMade, MigTold
    <2>3. CASE run' # run /\ run.pc = "createMigrator"
      <3>1. CreateMigratorPod /\ run'.pc = "waitMigrator"
        BY <1>1, <1>4, <2>3, RunFrom, RunGoesTo DEF CreateMigratorPod, AtSlot
      <3>2. CASE mig[s].st = "absent"
        <4>1. PICK seen \in BOOLEAN :
                 mig' = [mig EXCEPT ![s] = [NoMig EXCEPT !.st = "pending", !.seen = seen]]
          BY <2>1, <3>1, <3>2 DEF CreateMigratorPod, Visible
        <4> QED
          BY <1>1, <3>1, <4>1 DEF Stays, NoMig
      <3>3. CASE mig[s].st # "absent"
        <4>1. mig' = mig
          BY <2>1, <3>1, <3>3 DEF CreateMigratorPod
        <4>2. ~ mig[s].del
          BY <1>2, <2>1, <2>3, NotOver, ControllerTyped
          DEF Done, AtSlot, CycleInv, MemInv, Stored
        <4> QED
          BY <3>1, <3>3, <4>1, <4>2 DEF Stays
      <3> QED
        BY <3>2, <3>3
    <2>4. CASE run' # run /\ run.pc \in Waiting
      <3>1. WaitForMigrationComplete \/ RecheckMigrator \/ CleanupMigratorPod
        BY <1>1, <2>4, RunFrom
      <3>2. ~ CleanupMigratorPod
        BY <1>4, <1>3 DEF AtSlot
      <3>3. Stays(s)
        BY <1>2, <2>1, <2>4 DEF AtSlot
      <3>4. mig' = mig
        BY <3>1, <3>2 DEF WaitForMigrationComplete, RecheckMigrator, clusterVars
      <3>5. run'.pc = "cleanupMigrator" => mig[s].st = "succeeded"
        BY <1>1, <2>1, <3>1, <3>2, <3>3, RunGoesTo
        DEF WaitForMigrationComplete, RecheckMigrator, Visible, Stays
      <3> QED
        BY <3>3, <3>4, <3>5 DEF Stays
    <2> QED
      BY <2>1, <2>2, <2>3, <2>4
  <1>5. ASSUME AtSlot(s, ReplaceSteps)'
        PROVE  mig'[s].st \in {"absent", "succeeded"}
    <2>1. run.pc \in ReplaceSteps \cup {"cleanupMigrator"} /\ vr.cur = s
      BY <1>5, RunPath, SlotOfRun DEF AtSlot, Path, Flow
    <2>2. mig[s].st \in {"absent", "succeeded"}
      BY <1>2, <2>1 DEF AtSlot
    <2>3. ~ MigMade(s) /\ NoMig.st = "absent"
      BY <1>3, <2>1 DEF MigMade, NoMig
    <2> QED
      BY <1>1, <2>2, <2>3, CopySteps
      DEF MigStays, MigStarts, MigEnds, MigLeaves, MigTold
  <1> QED
    BY <1>4, <1>5 DEF AtSlot

(* Every step keeps BusyInv. *)
LEMMA BusyStep ==
    ASSUME Undisturbed, TypeInv, RetentionInv, CycleInv, StsInv, PodInv, ClaimInv,
           BusyInv, [Next]_vars
    PROVE  BusyInv'
  <1> SUFFICES ASSUME NEW s \in Slots
               PROVE  /\ mig'[s].seen
                      /\ Stays(s)' =>
                            /\ ~ sts' /\ pod'[s[1]] = "absent" /\ vr'.cur = s
                            /\ Over' \/ (vr'.phase = "Syncing" /\ vr'.vs[s] # "Completed")
                            /\ run'.pc \notin ReplaceSteps \cup ReturnSteps
                      /\ mig'[s].del => Over' \/ Done(s)' \/ AtSlot(s, ReplaceSteps)'
                      /\ Moved(s)' => mig'[s].st # "running" /\ MigsLeave(s)'
                      /\ AtSlot(s, Waiting)' => Stays(s)'
                      /\ AtSlot(s, {"cleanupMigrator"})' => mig'[s].st = "succeeded"
                      /\ AtSlot(s, ReplaceSteps)' => mig'[s].st \in {"absent", "succeeded"}
    BY DEF BusyInv
  <1>1. /\ NotCutShort /\ Replicas # 0
        /\ mig \in [Slots -> MigRecords] /\ mig[s] \in MigRecords /\ run \in RunRecords
    BY ControllerTyped DEF Undisturbed, TypeInv, TypeOK, ClusterTypeOK
  <1>2. /\ mig[s].seen
        /\ Stays(s) => run.pc \notin ReplaceSteps \cup ReturnSteps
        /\ mig[s].del => Over \/ Done(s) \/ AtSlot(s, ReplaceSteps)
        /\ Moved(s) => mig[s].st # "running" /\ MigsLeave(s)
        /\ AtSlot(s, ReplaceSteps) => mig[s].st \in {"absent", "succeeded"}
    BY DEF BusyInv
  <1>3. /\ mig'[s].seen
        /\ \/ MigStays(s) \/ MigStarts(s) \/ MigEnds(s) \/ MigLeaves(s)
           \/ MigMade(s) \/ MigTold(s)
    BY <1>2, CopySteps
  <1>4. mig'[s].del => Over' \/ Done(s)' \/ AtSlot(s, ReplaceSteps)'
    <2>1. mig[s].del => Over' \/ Done(s)' \/ AtSlot(s, ReplaceSteps)'
      BY <1>1, <1>2, OverForGood, DoneSteps, SwapGoesOn
    <2>2. DeleteMigrators => Over'
      <3>1. DeleteMigrators => Over
        BY DEF DeleteMigrators, At, CycleInv, RunInv, Over, DeletionSteps
      <3> QED
        BY <1>1, <3>1, OverForGood
    <2>3. CleanupMigratorPod /\ s = vr.cur => AtSlot(s, ReplaceSteps)'
      BY <1>1 DEF CleanupMigratorPod, RunRecords, AtSlot, ReplaceSteps
    <2> QED
      BY <1>3, <2>1, <2>2, <2>3
      DEF MigStays, MigStarts, MigEnds, MigLeaves, MigMade, MigTold, NoMig
  <1>5. ASSUME Moved(s)'
        PROVE  mig'[s].st # "running" /\ MigsLeave(s)'
    <2>1. CASE Moved(s)
      <3>1. ~ MigMade(s)
        <4>1. Over \/ Done(s)
          BY <2>1 DEF ClaimInv
        <4> QED
          BY <4>1, NotOver, ControllerTyped
          DEF MigMade, CreateMigratorPod, At, Done, CycleInv, MemInv, Stored,
              RunOfSyncing, SyncSteps
      <3>2. mig[s].st # "running" /\ (mig[s].st # "absent" => mig[s].del)
        BY <1>2, <2>1 DEF MigsLeave
      <3> QED
        BY <1>3, <3>1, <3>2
        DEF MigStays, MigStarts, MigEnds, MigLeaves, MigTold, MigsLeave, NoMig
    <2>2. CASE CreateOrigPVC /\ s = vr.cur
      <3>1. AtSlot(s, ReplaceSteps) /\ mig' = mig
        BY <2>2 DEF CreateOrigPVC, At, AtSlot, ReplaceSteps
      <3>2. mig[s].st # "running" /\ (mig[s].st # "absent" => mig[s].del)
        BY <1>2, <3>1 DEF Stays, AtSlot
      <3> QED
        BY <3>1, <3>2 DEF MigsLeave
    <2> QED
      BY <1>5, <2>1, <2>2, MovedSteps
  <1> QED
    BY <1>3, <1>4, <1>5, StaysStep, WaitStep

-----------------------------------------------------------------------------
(* Which claims name which volumes. *)

(* How a claim comes to name a volume: it is bound to one that was never used, or
   that no claim names, or the operator makes it so. *)
Keeps(c) == pvc'[c].pv = pvc[c].pv /\ (pvc[c].st # "absent" => pvc'[c].st # "absent")
Goes(c)  == pvc[c].term /\ pvc'[c] = NoClaim
Comes(c) == sts /\ c[2] = "orig" /\ pvc[c].st = "absent" /\ pvc'[c].pv = NoPV
Binds(c) == /\ Unbound(c) /\ pvc'[c].st # "absent"
            /\ \A d \in Claims : d # c => pvc'[d] = pvc[d]
            /\ \E p \in PVs : /\ pvc'[c].pv = p /\ pv'[p].st # "unused"
                              /\ pv[p].st = "unused" \/ ~ Named(p)
Swaps(c) == /\ CreateOrigPVC /\ c = CurOrig /\ pvc[c].st = "absent"
            /\ pvc'[c].st # "absent" /\ pvc'[c].pv = run.newPV
            /\ \A d \in Claims : d # c => pvc'[d] = pvc[d]

(* A step about the volume of a claim is one of these. *)
LEMMA NameChange ==
    ASSUME TypeInv, [Next]_vars, NEW c \in Claims
    PROVE  Keeps(c) \/ Goes(c) \/ Comes(c) \/ Binds(c) \/ Swaps(c)
  <1>1. /\ pvc[c] \in ClaimRecords /\ pvc \in [Claims -> ClaimRecords]
        /\ pv \in [PVs -> PVRecords]
    BY ClaimTyped DEF TypeInv, TypeOK, ClusterTypeOK
  <1>2. CASE pvc'[c] = pvc[c]
    BY <1>2 DEF Keeps
  <1>3. CASE VolumeStep(c)
    <2>1. CASE PvcGone(c)
      BY <1>1, <2>1 DEF PvcGone, Goes
    <2>2. CASE BindNamed(c)
      BY <1>1, <2>2 DEF BindNamed, BindTo, ClaimRecords, Keeps
    <2>3. CASE Provision(c)
      <3>1. PICK p \in PVs :
               /\ pv[p].st = "unused" /\ BindTo(c, p)
               /\ pv' = [pv EXCEPT ![p] = [st |-> "live", policy |-> "Delete",
                                           claim |-> c, data |-> {}]]
        BY <2>3 DEF Provision
      <3>2. pvc'[c].pv = p /\ pvc'[c].st # "absent" /\ pv'[p].st # "unused"
            /\ \A d \in Claims : d # c => pvc'[d] = pvc[d]
        BY <1>1, <3>1 DEF BindTo, ClaimRecords
      <3> QED
        BY <2>3, <3>1, <3>2 DEF Provision, Binds
    <2>4. CASE BindAvailable(c)
      <3>1. PICK p \in PVs :
               /\ pv[p].st = "live" /\ ~ Named(p) /\ BindTo(c, p)
               /\ pv' = [pv EXCEPT ![p].claim = c]
        BY <2>4 DEF BindAvailable
      <3>2. pvc'[c].pv = p /\ pvc'[c].st # "absent" /\ pv'[p].st # "unused"
            /\ \A d \in Claims : d # c => pvc'[d] = pvc[d]
        BY <1>1, <3>1 DEF BindTo, ClaimRecords, PVRecords
      <3> QED
        BY <2>4, <3>1, <3>2 DEF BindAvailable, Binds
    <2> QED
      BY <1>3, <2>1, <2>2, <2>3, <2>4 DEF VolumeStep
  <1>4. CASE StsReconcile(c[1][1]) /\ c[2] = "orig"
    BY <1>1, <1>2, <1>4 DEF StsReconcile, Comes
  <1>5. CASE (CreateTempPVC \/ DeleteTempPVC) /\ c = CurTemp
    BY <1>1, <1>5 DEF CreateTempPVC, DeleteTempPVC, DeleteClaim, ClaimRecords, Keeps
  <1>6. CASE (DeleteOrigPVC \/ CreateOrigPVC) /\ c = CurOrig
    BY <1>1, <1>2, <1>6
    DEF DeleteOrigPVC, CreateOrigPVC, DeleteClaim, ClaimRecords, Keeps, Swaps
  <1>7. CASE DeleteTempPVCs
    BY <1>1, <1>7 DEF DeleteTempPVCs, ClaimRecords, Keeps
  <1> QED
    BY <1>2, <1>3, <1>4, <1>5, <1>6, <1>7, ClaimChange

(* The swap knows its new volume from RetainNewPV on. *)
Swapping == ReplaceSteps \ {"retainNewPV"}
(* The new volume is set by RetainNewPV and kept until the end of the swap. *)
LEMMA NewVolume ==
    ASSUME Undisturbed, TypeInv, CycleInv, [Next]_vars, run'.pc \in Swapping
    PROVE  /\ vr'.cur = vr.cur
           /\ \/ run.pc \in Swapping /\ run'.newPV = run.newPV
              \/ /\ RetainNewPV /\ run.pc = "retainNewPV"
                 /\ Live(pvc[CurTemp].pv) /\ run'.newPV = pvc[CurTemp].pv
  <1> USE DEF Swapping, ReplaceSteps
  <1>1. ~ ApiError /\ ~ Crash /\ run \in RunRecords
    BY ControllerTyped DEF Undisturbed, NotCutShort, ApiError, Crash
  <1>2. run.pc \in ReplaceSteps
    BY RunPath DEF Path, Flow
  <1>3. vr'.cur = vr.cur
    BY <1>2, SlotOfRun DEF RunOfSyncing
  <1>4. CASE run' = run
    BY <1>3, <1>4
  <1>5. CASE run' # run
    <2>1. \/ RetainNewPV \/ DeleteTempPVC \/ WaitTempGone \/ ClearClaimRef
          \/ DeleteOrigPVC \/ WaitOrigGone \/ CreateOrigPVC
      BY <1>1, <1>2, <1>5, RunFrom
    <2>2. CASE RetainNewPV
      BY <1>1, <1>3, <2>2 DEF RetainNewPV, At, Fail, Goto, RunRecords
    <2>3. CASE CreateOrigPVC
      BY <1>1, <2>3 DEF CreateOrigPVC, Fail, Goto, RunRecords
    <2>4. CASE DeleteTempPVC \/ WaitTempGone \/ ClearClaimRef \/ DeleteOrigPVC \/ WaitOrigGone
      BY <1>1, <1>3, <2>4
      DEF DeleteTempPVC, WaitTempGone, ClearClaimRef, DeleteOrigPVC, WaitOrigGone,
          WaitClaimGone, Fail, Goto, At, RunRecords
    <2> QED
      BY <2>1, <2>2, <2>3, <2>4
  <1> QED
    BY <1>4, <1>5

(* A claim that names a volume names one in use, and an original claim that is
   there does name one; a temporary claim shares its volume with no claim of
   another slot, and nor does the new volume of a swap. *)
Used(p) == p # NoPV /\ pv[p].st # "unused"
SepInv ==
    /\ \A c \in Claims : pvc[c].pv # NoPV => pvc[c].st # "absent" /\ Used(pvc[c].pv)
    /\ \A s \in Slots : pvc[orig(s)].st # "absent" => pvc[orig(s)].pv # NoPV
    /\ \A s \in Slots, t \in Slots :
          pvc[temp(t)].pv # NoPV /\ s # t
             => pvc[temp(t)].pv # pvc[temp(s)].pv /\ pvc[temp(t)].pv # pvc[orig(s)].pv
    /\ run.pc \in Swapping =>
          /\ Used(run.newPV)
          /\ \A t \in Slots : pvc[temp(t)].pv = run.newPV => t = vr.cur

(* A volume in use stays in use. *)
LEMMA StaysUsed ==
    ASSUME TypeInv, [Next]_vars, NEW p \in PVs \cup {NoPV}, Used(p)
    PROVE  Used(p)'
  BY VolumeKept DEF Used

(* A claim that is bound takes a volume that no claim names. *)
LEMMA BoundApart ==
    ASSUME SepInv, NEW p \in PVs, pv[p].st = "unused" \/ ~ Named(p),
           NEW d \in Claims
    PROVE  pvc[d].pv # p
  BY InitPVAssumption DEF SepInv, Named, Used, NoPV, PVs

(* Every step keeps SepInv. *)
LEMMA SepStep ==
    ASSUME Undisturbed, TypeInv, RetentionInv, CycleInv, ClaimInv, TempInv, SepInv,
           [Next]_vars
    PROVE  SepInv'
  <1> USE DEF Swapping, ReplaceSteps
  <1>1. TypeInv' /\ NoPV \notin PVs
    BY TypeStep DEF NoPV, PVs
  <1>2. ASSUME NEW c \in Claims
        PROVE  /\ pvc[c].pv \in PVs \cup {NoPV} /\ pvc'[c].pv \in PVs \cup {NoPV}
               /\ pvc[c].pv # NoPV => pvc[c].st # "absent" /\ Used(pvc[c].pv)
    <2>1. pvc[c] \in ClaimRecords /\ pvc'[c] \in ClaimRecords
      BY <1>1 DEF TypeInv, TypeOK, ClusterTypeOK
    <2> QED
      BY <2>1 DEF SepInv, ClaimRecords
  <1>3. /\ NoClaim.st = "absent" /\ NoClaim.pv = NoPV
        /\ run.newPV \in PVs \cup {NoPV}
    BY ControllerTyped DEF NoClaim, RunRecords
  <1>4. CreateOrigPVC => /\ Used(run.newPV) /\ run.pc = "createOrig"
                         /\ \A t \in Slots : pvc[temp(t)].pv = run.newPV => t = vr.cur
    BY DEF SepInv, CreateOrigPVC, At
  <1>5. \A p \in PVs \cup {NoPV} : Used(p) => Used(p)'
    BY StaysUsed
  <1>6. ASSUME NEW c \in Claims, pvc'[c].pv # NoPV
        PROVE  pvc'[c].st # "absent" /\ Used(pvc[c].pv)'
    <2>1. CASE Keeps(c)
      BY <1>2, <1>5, <1>6, <2>1 DEF Keeps
    <2>2. CASE Goes(c) \/ Comes(c)
      BY <1>3, <1>6, <2>2 DEF Goes, Comes
    <2>3. CASE Binds(c)
      BY <1>6, <2>3 DEF Binds, Used
    <2>4. CASE Swaps(c)
      BY <1>3, <1>4, <1>5, <2>4 DEF Swaps
    <2> QED
      BY <2>1, <2>2, <2>3, <2>4, NameChange
  <1>7. ASSUME NEW s \in Slots, pvc'[orig(s)].st # "absent"
        PROVE  pvc'[orig(s)].pv # NoPV
    <2>1. /\ orig(s) \in Claims
          /\ pvc[orig(s)].st # "absent" => pvc[orig(s)].pv # NoPV
          /\ pvc[orig(s)].st = "absent" => ~ sts /\ pvc[orig(s)].pv = NoPV
      BY <1>2, SlotShape DEF SepInv, ClaimInv, Lost
    <2>2. CASE Keeps(orig(s)) /\ pvc[orig(s)].st # "absent"
      BY <2>1, <2>2 DEF Keeps
    <2>3. CASE Keeps(orig(s)) /\ pvc[orig(s)].st = "absent"
      <3> DEFINE old == pvc[orig(s)]
                 new == pvc'[orig(s)]
      <3>1. old.st = "absent" /\ ~ sts /\ new.st # "absent" /\ new.pv = NoPV
        BY <1>7, <2>1, <2>3 DEF Keeps
      <3> HIDE DEF old, new
      <3>2. /\ \/ new.st = "absent" <=> old.st = "absent"
               \/ new = NoClaim
               \/ sts
               \/ new.st = old.st
               \/ CreateOrigPVC /\ new.pv = run.newPV
        BY OrigChange DEF old, new
      <3> QED
        BY <1>3, <1>4, <3>1, <3>2 DEF Used
    <2>4. CASE Goes(orig(s)) \/ Comes(orig(s))
      BY <1>3, <1>7, <2>1, <2>4 DEF Goes, Comes
    <2>5. CASE Binds(orig(s))
      BY <1>1, <2>5 DEF Binds
    <2>6. CASE Swaps(orig(s))
      BY <1>4, <2>6 DEF Swaps, Used
    <2> QED
      BY <2>1, <2>2, <2>3, <2>4, <2>5, <2>6, NameChange
  <1>8. ASSUME NEW s \in Slots, NEW t \in Slots, s # t, pvc'[temp(t)].pv # NoPV,
               NEW d \in {temp(s), orig(s)}
        PROVE  pvc'[temp(t)].pv # pvc'[d].pv
    <2> DEFINE c == temp(t)
    <2>1. /\ c \in Claims /\ d \in Claims /\ c # d
          /\ c[2] = "temp" /\ pvc'[c].pv # NoPV
          /\ pvc[c].pv # NoPV => pvc[c].pv # pvc[d].pv
      BY <1>8, SlotShape DEF SepInv, temp
    <2>2. ~ (CreateOrigPVC /\ c = CurOrig)
      BY SlotShape, OnCursor DEF CurOrig, CreateOrigPVC, At, RunOfSyncing
    <2>3. CreateOrigPVC /\ d = CurOrig => pvc[c].pv # run.newPV
      <3>1. CreateOrigPVC /\ d = CurOrig => s = vr.cur
        BY SlotShape, OnCursor DEF CurOrig, CreateOrigPVC, At, RunOfSyncing
      <3> QED
        BY <1>4, <1>8, <3>1
    <2>4. \A p \in PVs : pv[p].st = "unused" \/ ~ Named(p) =>
                             pvc[c].pv # p /\ pvc[d].pv # p
      BY <2>1, BoundApart
    <2> SUFFICES pvc'[c].pv # pvc'[d].pv
      OBVIOUS
    <2> HIDE DEF c
    <2>5. \/ pvc'[c].pv = pvc[c].pv
          \/ /\ \A e \in Claims : e # c => pvc'[e] = pvc[e]
             /\ pvc[d].pv # pvc'[c].pv
      BY <1>3, <2>1, <2>2, <2>4, NameChange DEF Keeps, Goes, Comes, Binds, Swaps
    <2>6. \/ pvc'[d].pv = pvc[d].pv
          \/ pvc'[d].pv = NoPV
          \/ /\ \A e \in Claims : e # d => pvc'[e] = pvc[e]
             /\ pvc[c].pv # pvc'[d].pv
      BY <1>3, <2>1, <2>3, <2>4, NameChange DEF Keeps, Goes, Comes, Binds, Swaps
    <2> QED
      BY <2>1, <2>5, <2>6
  <1>9. ASSUME run'.pc \in Swapping
        PROVE  /\ Used(run.newPV)'
               /\ \A t \in Slots : pvc'[temp(t)].pv = run'.newPV => t = vr'.cur
    <2>1. run.pc \in ReplaceSteps /\ ~ Over /\ vr.cur \in Slots
      BY <1>9, NewVolume, NotOver, OnCursor DEF RunOfSyncing
    <2>2. /\ Used(run'.newPV) /\ run'.newPV \in PVs \cup {NoPV} /\ vr'.cur = vr.cur
          /\ \A t \in Slots : pvc[temp(t)].pv = run'.newPV => t = vr.cur
      <3>1. CASE run.pc \in Swapping /\ run'.newPV = run.newPV
        BY <1>3, <1>9, <3>1, NewVolume DEF SepInv
      <3>2. CASE Live(pvc[CurTemp].pv) /\ run'.newPV = pvc[CurTemp].pv
        BY <1>2, <1>9, <2>1, <3>2, NewVolume, OnCursor
        DEF Live, Used, SepInv, CurTemp, RunOfSyncing
      <3> QED
        BY <1>9, <3>1, <3>2, NewVolume
    <2>3. ASSUME NEW t \in Slots, pvc'[temp(t)].pv = run'.newPV, t # vr.cur
          PROVE  FALSE
      <3> DEFINE c == temp(t)
      <3>1. c \in Claims /\ (pvc[c].st # "absent" => pvc[c].term)
        BY <2>1, <2>3, SlotShape DEF TempInv, temp
      <3>2. pvc'[c].pv = run'.newPV /\ pvc[c].pv # run'.newPV /\ run'.newPV # NoPV
        BY <2>2, <2>3 DEF Used
      <3>3. c[2] = "temp" /\ ~ (CreateOrigPVC /\ c = CurOrig)
        BY SlotShape, OnCursor DEF CurOrig, CreateOrigPVC, At, RunOfSyncing, temp
      <3> HIDE DEF c
      <3>4. ~ Unbound(c)
        BY <3>1 DEF Unbound
      <3> QED
        BY <1>3, <3>1, <3>2, <3>3, <3>4, NameChange DEF Keeps, Goes, Comes, Binds, Swaps
    <2> QED
      BY <1>5, <2>2, <2>3 DEF Used
  <1> QED
    BY <1>6, <1>7, <1>8, <1>9 DEF SepInv, Used

-----------------------------------------------------------------------------
(* Where every acknowledged write of a slot is: on the volume its claim is on,
   in what a running migrator has read, on the target of one that succeeded, and
   from there on the new volume until the claim names it. *)
Home(s) == IF Moved(s) THEN pvc[orig(s)].pv ELSE InitPV[s]
DataInv ==
    \A s \in Slots :
        /\ WholeOn(s, Home(s))
        /\ mig[s].st = "running" => Acked(s) \subseteq mig[s].snap
        /\ mig[s].st = "succeeded" /\ ~ mig[s].del => Over \/ WholeOn(s, pvc[temp(s)].pv)
        /\ AtSlot(s, {"retainNewPV"}) => WholeOn(s, pvc[temp(s)].pv)
        /\ AtSlot(s, Swapping) => WholeOn(s, run.newPV)

(* What the steps on the data rest on. *)
SafeInv == /\ SwapInv /\ RetentionInv /\ ClaimInv
           /\ TempInv /\ BusyInv /\ SepInv /\ DataInv

(* A started pod finds its slot's claim, and nothing writes to a claim that is
   copied. *)
LEMMA AtHome ==
    ASSUME SafeInv, NEW s \in Slots
    PROVE  /\ pod[s[1]] \in {"running", "terminating"} => pvc[orig(s)].pv = Home(s)
           /\ mig[s].st = "running" =>
                 /\ pvc[orig(s)].pv = Home(s) /\ pod[s[1]] = "absent"
                 /\ pvc[temp(s)].pv \in PVs
  <1>1. /\ Mounted(orig(s)) => pvc[orig(s)].st = "bound"
        /\ mig[s].st = "running" => pvc[temp(s)].st = "bound"
        /\ pvc[temp(s)].st = "bound" => pvc[temp(s)].pv \in PVs
        /\ orig(s) = <<s, "orig">> /\ temp(s) = <<s, "temp">>
    BY SlotShape, ClaimTyped DEF SafeInv, SwapInv, Mounted, orig, temp
  <1>2. pvc[orig(s)].st = "bound" => pvc[orig(s)].pv = Home(s)
    BY DEF Home, Moved
  <1>3. mig[s].st = "running" => pod[s[1]] = "absent"
    BY DEF SafeInv, SwapInv, QuietInv, MayCopy, Still
  <1> QED
    BY <1>1, <1>2, <1>3 DEF Mounted

(* The volume of a slot's claim is left alone. *)
LEMMA HomeStep ==
    ASSUME Undisturbed, SafeInv, [Next]_vars, NEW s \in Slots
    PROVE  WholeOn(s, Home(s))'
  <1> USE DEF SafeInv, SwapInv
  <1>1. PICK p : p = Home(s)
    OBVIOUS
  <1>2. /\ WholeOn(s, p)
        /\ p = IF Moved(s) THEN pvc[orig(s)].pv ELSE InitPV[s]
        /\ p \in PVs /\ p # NoPV
    BY <1>1, SlotShape, ClaimTyped, OldVolume DEF DataInv, Home, WholeOn
  <1>3. pv[p].st # "unused"
    BY <1>2, OldVolume, SlotShape DEF SepInv, Used
  <1>4. ~ Copied(p)
    <2> SUFFICES ASSUME NEW t \in Slots, mig[t].st = "running", pvc[temp(t)].pv = p
                 PROVE  FALSE
      BY DEF Copied
    <2>1. CASE Moved(s)
      BY <1>2, <2>1 DEF SepInv, BusyInv
    <2>2. CASE ~ Moved(s)
      BY <1>2, <2>2, OldVolume
    <2> QED
      BY <2>1, <2>2
  <1>5. WholeOn(s, p)'
    BY <1>1, <1>2, <1>3, <1>4, WholeKept, AtHome
  <1>6. CASE Moved(s)
    <2>1. Moved(s)' /\ pvc[orig(s)].st # "absent" /\ ~ pvc[orig(s)].term
      BY <1>6, MovedSteps DEF ClaimInv, Moved
    <2>2. pvc'[orig(s)].pv = pvc[orig(s)].pv
      BY <1>2, <1>6, <2>1, NameChange, SlotShape
      DEF Keeps, Goes, Comes, Binds, Swaps, Unbound
    <2>3. Home(s)' = pvc'[orig(s)].pv
      BY <2>1 DEF Home, orig
    <2> QED
      BY <1>2, <1>5, <1>6, <2>2, <2>3 DEF WholeOn, Acked
  <1>7. CASE ~ Moved(s) /\ Moved(s)'
    <2>1. /\ CreateOrigPVC /\ s = vr.cur /\ run.pc = "createOrig"
          /\ pvc'[orig(s)].pv = run.newPV
      BY <1>7, MovedSteps DEF CreateOrigPVC, At
    <2>2. WholeOn(s, run.newPV)
      BY <2>1 DEF DataInv, AtSlot, Swapping, ReplaceSteps
    <2>3. UNCHANGED <<pv, acked>>
      BY <2>1 DEF CreateOrigPVC
    <2>4. Home(s)' = run.newPV
      BY <1>7, <2>1 DEF Home, orig
    <2> QED
      BY <2>2, <2>3, <2>4 DEF WholeOn, Acked
  <1>8. CASE ~ Moved(s) /\ ~ Moved(s)'
    <2>1. Home(s)' = p
      BY <1>2, <1>8 DEF Home
    <2> QED
      BY <1>5, <2>1 DEF WholeOn
  <1> QED
    BY <1>6, <1>7, <1>8

(* What a migrator reads and writes is whole. *)
LEMMA CopyStep ==
    ASSUME Undisturbed, SafeInv, [Next]_vars, NEW s \in Slots
    PROVE  /\ mig'[s].st = "running" => Acked(s)' \subseteq mig'[s].snap
           /\ mig'[s].st = "succeeded" /\ ~ mig'[s].del
                 => Over' \/ WholeOn(s, pvc[temp(s)].pv)'
  <1> USE DEF SafeInv, SwapInv
  <1>1. /\ WholeOn(s, Home(s))
        /\ mig[s].st = "running" => Acked(s) \subseteq mig[s].snap
        /\ mig[s].st = "succeeded" /\ ~ mig[s].del => Over \/ WholeOn(s, pvc[temp(s)].pv)
    BY DEF DataInv
  <1>2. \/ MigStays(s) \/ MigStarts(s) \/ MigEnds(s) \/ MigLeaves(s)
        \/ MigMade(s) \/ MigTold(s)
    BY CopySteps DEF BusyInv
  <1>3. NoMig.st = "absent"
    BY DEF NoMig
  <1>4. ASSUME mig'[s].st = "running"
        PROVE  Acked(s)' \subseteq mig'[s].snap
    <2>1. CASE MigStarts(s)
      <3>1. /\ UNCHANGED <<acked, pv>> /\ mig'[s].snap = pv[pvc[orig(s)].pv].data
            /\ pvc[orig(s)].st = "bound"
        BY <2>1 DEF MigStarts, MigStart, Source
      <3>2. ~ Moved(s)
        BY <2>1 DEF MigStarts, BusyInv, MigsLeave
      <3>3. pvc[orig(s)].pv = Home(s)
        BY <3>1, <3>2 DEF Moved, Home
      <3> QED
        BY <1>1, <3>1, <3>3 DEF WholeOn, Acked
    <2>2. CASE mig[s].st = "running" /\ mig'[s].snap = mig[s].snap
      <3>1. acked'[s] = acked[s]
        BY <2>2, AtHome, AckedChange DEF AppWrite
      <3> QED
        BY <1>1, <2>2, <3>1 DEF Acked
    <2> QED
      BY <1>2, <1>3, <1>4, <2>1, <2>2
      DEF MigStays, MigEnds, MigLeaves, MigMade, MigTold
  <1>5. ASSUME mig'[s].st = "succeeded", ~ mig'[s].del, ~ Over'
        PROVE  WholeOn(s, pvc[temp(s)].pv)'
    <2>1. ~ Over
      BY <1>5, OverForGood DEF Undisturbed
    <2>2. CASE MigSucceed(s)
      <3>1. /\ mig[s].st = "running" /\ UNCHANGED <<pvc, acked>>
            /\ pvc[temp(s)].pv \in PVs /\ pvc[orig(s)].pv = Home(s)
        BY <2>2, AtHome DEF MigSucceed
      <3>2. PICK copied \in {mig[s].snap, pv[pvc[orig(s)].pv].data} :
                    pv' = [pv EXCEPT ![pvc[temp(s)].pv].data = copied]
        BY <2>2 DEF MigSucceed, Source, Target
      <3>3. Acked(s) \subseteq copied
        BY <1>1, <3>1, <3>2 DEF WholeOn
      <3>4. pv'[pvc[temp(s)].pv].data = copied /\ pvc[temp(s)].pv # NoPV
        BY <3>1, <3>2 DEF TypeInv, TypeOK, ClusterTypeOK, PVRecords, PVs, NoPV
      <3> QED
        BY <3>1, <3>3, <3>4 DEF WholeOn, Acked
    <2>3. CASE mig[s].st = "succeeded" /\ ~ mig[s].del
      <3>1. PICK p : p = pvc[temp(s)].pv
        OBVIOUS
      <3>2. WholeOn(s, p) /\ p \in PVs /\ pv[p].st # "unused"
        BY <1>1, <2>1, <2>3, <3>1, SlotShape, ClaimTyped DEF SepInv, Used, WholeOn
      <3>3. Stays(s) /\ pod[s[1]] = "absent" /\ ~ Done(s) /\ ~ AtSlot(s, Past)
        BY <2>1, <2>3
        DEF Stays, BusyInv, Done, AtSlot, Past, ReplaceSteps, ReturnSteps
      <3>4. ~ Copied(p)
        BY <2>3, <3>1, <3>2 DEF Copied, SepInv, WholeOn
      <3>5. WholeOn(s, p)'
        BY <3>2, <3>3, <3>4, WholeKept
      <3>6. pvc'[temp(s)].pv = p
        <4>1. ~ pvc[temp(s)].term
          BY <2>1, <3>3 DEF TempInv
        <4>2. ~ (CreateOrigPVC /\ temp(s) = CurOrig)
          BY SlotShape, OnCursor
          DEF CurOrig, CreateOrigPVC, At, RunOfSyncing, ReplaceSteps
        <4> QED
          BY <3>1, <3>2, <4>1, <4>2, NameChange, SlotShape
          DEF Keeps, Goes, Comes, Binds, Swaps, Unbound, WholeOn, temp
      <3> QED
        BY <3>5, <3>6 DEF WholeOn, Acked
    <2> QED
      BY <1>2, <1>3, <1>5, <2>2, <2>3
      DEF MigStays, MigStarts, MigEnds, MigLeaves, MigMade, MigTold
  <1> QED
    BY <1>4, <1>5

(* During the swap nothing touches the new volume. *)
LEMMA NewVolumeStep ==
    ASSUME Undisturbed, SafeInv, [Next]_vars, NEW s \in Slots
    PROVE  /\ AtSlot(s, {"retainNewPV"})' => WholeOn(s, pvc[temp(s)].pv)'
           /\ AtSlot(s, Swapping)' => WholeOn(s, run.newPV)'
  <1> USE DEF SafeInv, SwapInv, ReplaceSteps, Swapping
  <1>1. ~ ApiError /\ ~ Crash
    BY DEF Undisturbed, NotCutShort, ApiError, Crash
  <1>2. /\ mig[s].st = "succeeded" /\ ~ mig[s].del => Over \/ WholeOn(s, pvc[temp(s)].pv)
        /\ AtSlot(s, {"retainNewPV"}) => WholeOn(s, pvc[temp(s)].pv)
        /\ AtSlot(s, Swapping) => WholeOn(s, run.newPV)
    BY DEF DataInv
  <1>3. ASSUME AtSlot(s, ReplaceSteps)
        PROVE  /\ mig[s].st # "running" /\ pod[s[1]] = "absent" /\ vr.cur = s
               /\ ~ Over /\ ~ Done(s)
    <2>1. mig[s].st # "running" /\ vr.cur = s /\ run.pc \in ReplaceSteps
      BY <1>3 DEF BusyInv, AtSlot
    <2>2. pod[s[1]] = "absent"
      BY <2>1 DEF PodInv, Copying
    <2> QED
      BY <2>1, <2>2, NotOver, ControllerTyped
      DEF RunOfSyncing, Done, CycleInv, MemInv, Stored
  <1>4. ASSUME NEW p \in PVs, WholeOn(s, p), AtSlot(s, ReplaceSteps),
               pv[p].st # "unused", ~ Copied(p)
        PROVE  WholeOn(s, p)'
    BY <1>3, <1>4, WholeKept
  <1>5. ASSUME AtSlot(s, {"retainNewPV"})
        PROVE  /\ WholeOn(s, pvc[temp(s)].pv)'
               /\ pvc[temp(s)].pv # NoPV
               /\ \A p \in PVs : p = pvc[temp(s)].pv => WholeOn(s, p)'
               /\ pvc'[temp(s)].pv = pvc[temp(s)].pv
    <2>1. PICK p : p = pvc[temp(s)].pv
      OBVIOUS
    <2>2. WholeOn(s, p) /\ p \in PVs /\ pv[p].st # "unused"
      BY <1>2, <1>5, <2>1, SlotShape, ClaimTyped DEF SepInv, Used, WholeOn
    <2>3. AtSlot(s, ReplaceSteps)
      BY <1>5 DEF AtSlot
    <2>4. ~ Copied(p)
      BY <1>3, <2>1, <2>2, <2>3 DEF Copied, SepInv, WholeOn
    <2>5. WholeOn(s, p)'
      BY <1>4, <2>2, <2>3, <2>4
    <2>6. pvc'[temp(s)].pv = p
      <3>1. ~ pvc[temp(s)].term
        BY <1>3, <1>5, <2>3 DEF TempInv, AtSlot, Past
      <3>2. ~ CreateOrigPVC
        BY <1>5 DEF CreateOrigPVC, At, AtSlot
      <3> QED
        BY <2>1, <2>2, <3>1, <3>2, NameChange, SlotShape
        DEF Keeps, Goes, Comes, Binds, Swaps, Unbound, WholeOn, temp
    <2> QED
      BY <2>1, <2>2, <2>5, <2>6 DEF WholeOn, Acked
  <1>6. ASSUME AtSlot(s, {"retainNewPV"})'
        PROVE  WholeOn(s, pvc[temp(s)].pv)'
    <2>1. run.pc \in {"retainNewPV", "cleanupMigrator"} /\ vr.cur = s
      BY <1>6, RunPath, SlotOfRun DEF AtSlot, Path, Flow, RunOfSyncing, SyncSteps
    <2>2. CASE run.pc = "cleanupMigrator"
      <3>1. CleanupMigratorPod
        BY <1>1, <1>6, <2>2, RunFrom DEF AtSlot
      <3>2. ~ Over
        BY <2>2, NotOver DEF RunOfSyncing, SyncSteps
      <3>3. mig[s].st = "succeeded" /\ ~ mig[s].del
        BY <2>1, <2>2 DEF BusyInv, AtSlot, Waiting, Stays
      <3> QED
        BY <1>2, <3>1, <3>2, <3>3 DEF CleanupMigratorPod, WholeOn, Acked
    <2>3. CASE run.pc = "retainNewPV"
      BY <1>5, <2>1, <2>3 DEF AtSlot
    <2> QED
      BY <2>1, <2>2, <2>3
  <1>7. ASSUME AtSlot(s, Swapping)'
        PROVE  WholeOn(s, run.newPV)'
    <2>1. vr.cur = s
      BY <1>7, NewVolume DEF AtSlot
    <2>2. CASE run.pc \in Swapping /\ run'.newPV = run.newPV
      <3>1. PICK p : p = run.newPV
        OBVIOUS
      <3>2. WholeOn(s, p) /\ p \in PVs /\ pv[p].st # "unused" /\ ~ Copied(p)
            /\ AtSlot(s, ReplaceSteps)
        <4>1. WholeOn(s, p) /\ AtSlot(s, ReplaceSteps)
          BY <1>2, <2>1, <2>2, <3>1 DEF AtSlot
        <4>2. p \in PVs
          BY <3>1, <4>1, ControllerTyped DEF WholeOn, RunRecords
        <4>3. ~ Copied(p)
          BY <1>3, <2>1, <2>2, <3>1, <4>1 DEF SepInv, Copied
        <4> QED
          BY <2>2, <3>1, <4>1, <4>2, <4>3 DEF SepInv, Used
      <3>3. WholeOn(s, p)'
        BY <1>4, <3>2
      <3> QED
        BY <2>2, <3>1, <3>3 DEF WholeOn, Acked
    <2>3. CASE run.pc = "retainNewPV" /\ run'.newPV = pvc[CurTemp].pv
      <3>1. AtSlot(s, {"retainNewPV"}) /\ run'.newPV = pvc[temp(s)].pv
        BY <2>1, <2>3 DEF AtSlot, CurTemp
      <3> QED
        BY <1>5, <3>1 DEF WholeOn, Acked
    <2> QED
      BY <1>7, <2>2, <2>3, NewVolume DEF AtSlot
  <1> QED
    BY <1>6, <1>7

(* SafeInv holds at the start. *)
LEMMA SafeInit == Init => SafeInv
  <1> SUFFICES ASSUME Init PROVE SafeInv
    OBVIOUS
  <1>0. SwapInv /\ RetentionInv /\ ClaimInv
    BY SwapInit, RetentionInit, ClaimInit
  <1>1. run.pc = "idle" /\ vr.cur = NoSlot /\ NoSlot \notin Slots
    <2>1. NoSlot \notin Slots
      BY <1>0, ControllerTyped DEF SwapInv
    <2> QED
      BY <2>1 DEF Init, Idle
  <1>2. ASSUME NEW s \in Slots
        PROVE  /\ pvc[temp(s)].st = "absent" /\ ~ pvc[temp(s)].term
               /\ pvc[temp(s)].pv = NoPV
               /\ pvc[orig(s)].st = "bound" /\ pvc[orig(s)].pv = InitPV[s]
               /\ ~ Moved(s) /\ Home(s) = InitPV[s] /\ Acked(s) = {<<s, 1>>}
               /\ mig[s].st = "absent" /\ ~ mig[s].del /\ mig[s].seen
               /\ vr.vs[s] = "none"
    <2>1. /\ orig(s) \in Claims /\ orig(s)[1] = s /\ orig(s)[2] = "orig"
          /\ temp(s) \in Claims /\ temp(s)[2] = "temp"
      BY SlotShape DEF orig, temp
    <2>2. pvc[temp(s)] = NoClaim /\ mig[s] = NoMig
          /\ pvc[orig(s)] = [st |-> "bound", term |-> FALSE, pv |-> InitPV[s]]
      BY <2>1 DEF Init, ClusterInit
    <2>3. pvc[orig(s)].pv = InitPV[s] /\ ~ Moved(s) /\ Home(s) = InitPV[s]
      <3>1. pvc[orig(s)].pv = InitPV[s]
        BY <2>2
      <3> QED
        BY <3>1 DEF Moved, Home
    <2>4. Acked(s) = {<<s, 1>>}
      <3>1. acked[s] = 1
        BY DEF Init, ClusterInit
      <3> QED
        BY <3>1 DEF Acked
    <2> QED
      BY <2>2, <2>3, <2>4 DEF Init, NoClaim, NoMig
  <1>3. ASSUME NEW s \in Slots
        PROVE  /\ InitPV[s] \in PVs /\ InitPV[s] # NoPV
               /\ pv[InitPV[s]].st = "live" /\ pv[InitPV[s]].data = {<<s, 1>>}
    <2>1. InitPV[s] \in PVs /\ InitPV[s] # NoPV
      BY InitPVAssumption DEF PVs, NoPV
    <2>2. (CHOOSE t \in Slots : InitPV[t] = InitPV[s]) = s
      BY InitPVAssumption
    <2> QED
      BY <2>1, <2>2 DEF Init, ClusterInit, InitialVolume
  <1>4. TempInv
    BY <1>1, <1>2 DEF TempInv, AtSlot, Past, ReplaceSteps, Done
  <1>5. BusyInv
    BY <1>1, <1>2 DEF BusyInv, Stays, AtSlot, Waiting, ReplaceSteps
  <1>6. SepInv
    <2>1. \A c \in Claims : \E s \in Slots : c = orig(s) \/ c = temp(s)
      BY DEF Claims, orig, temp
    <2>2. \A c \in Claims : pvc[c].pv # NoPV =>
              \E s \in Slots : c = orig(s) /\ pvc[c].pv = InitPV[s]
      BY <1>2, <2>1
    <2>3. ASSUME NEW c \in Claims, pvc[c].pv # NoPV
          PROVE  pvc[c].st # "absent" /\ Used(pvc[c].pv)
      <3>1. PICK s \in Slots : c = orig(s) /\ pvc[c].pv = InitPV[s]
        BY <2>2, <2>3
      <3>2. pvc[c].st = "bound"
        BY <1>2, <3>1
      <3> QED
        BY <1>3, <3>1, <3>2 DEF Used
    <2> QED
      BY <1>1, <1>2, <1>3, <2>3 DEF SepInv, Swapping, ReplaceSteps
  <1>7. DataInv
    <2> SUFFICES ASSUME NEW s \in Slots PROVE WholeOn(s, Home(s))
      BY <1>1, <1>2 DEF DataInv, AtSlot, Swapping, ReplaceSteps
    <2> QED
      BY <1>2, <1>3 DEF WholeOn
  <1> QED
    BY <1>0, <1>4, <1>5, <1>6, <1>7 DEF SafeInv

(* Every undisturbed step keeps SafeInv. *)
LEMMA SafeStep == ASSUME Undisturbed, SafeInv, [Next]_vars PROVE SafeInv'
  <1>1. SwapInv'
    BY SwapStep DEF SafeInv, Undisturbed
  <1>2. RetentionInv' /\ ClaimInv'
    BY RetentionStep, ClaimStep DEF SafeInv, SwapInv, Undisturbed
  <1>3. TempInv' /\ BusyInv' /\ SepInv'
    BY TempStep, BusyStep, SepStep DEF SafeInv, SwapInv
  <1>4. DataInv'
    BY HomeStep, CopyStep, NewVolumeStep DEF DataInv, temp
  <1> QED
    BY <1>1, <1>2, <1>3, <1>4 DEF SafeInv

(* SafeInv holds in every reachable state when every step is undisturbed. *)
LEMMA SafeAlways ==
    ASSUME Replicas # 0, "api" \notin Faults, "crash" \notin Faults,
           "podloss" \notin Faults, "lag" \notin Faults
    PROVE  Spec => []SafeInv
  <1>1. SafeInv /\ [Next]_vars => SafeInv'
    <2>1. Undisturbed
      BY NeverCutShort DEF Undisturbed, Fault
    <2> QED
      BY <2>1, SafeStep
  <1> QED
    BY <1>1, SafeInit, PTL DEF Spec

(* A StatefulSet without replicas has no pods, and its slots no status. *)
NoReplicas ==
    Replicas = 0 => \A s \in Slots : pod[s[1]] = "absent" /\ vr.vs[s] # "Completed"
LEMMA NoReplicasAlways == Spec => []NoReplicas
  <1> DEFINE NotDone == Replicas = 0 => \A s \in Slots : vr.vs[s] # "Completed"
  <1>1. Init => NotDone
    BY DEF Init
  <1>2. TypeInv /\ CycleInv /\ NotDone /\ [Next]_vars => NotDone'
    <2> SUFFICES ASSUME TypeInv, CycleInv, NotDone, [Next]_vars, Replicas = 0,
                        NEW s \in Slots, vr'.vs[s] = "Completed"
                 PROVE  FALSE
      OBVIOUS
    <2>1. PersistCompleted /\ s = vr.cur
      BY SlotChange
    <2>2. vr.phase = "Syncing" /\ vr.vs[s] = "none"
      BY <2>1, OnCursor DEF PersistCompleted, At, RunOfSyncing, ReturnSteps, CycleInv, OrderInv
    <2>3. vr \in VRRecords
      BY ControllerTyped
    <2> QED
      BY <2>1, <2>2, <2>3 DEF PersistCompleted, WriteVR, SetSlot, VRRecords
  <1>3. TypeInv /\ CycleInv /\ NotDone => NoReplicas
    BY SlotParts, SlotShape DEF NoReplicas, CycleInv, NoPods
  <1> HIDE DEF NotDone
  <1> QED
    BY <1>1, <1>2, <1>3, CycleAlways, PTL DEF Spec

(* Every write the application was told is safe is on the volume its pod reads
   from when it is back, whatever interleaving of the application, the volume
   controllers, the migrator pods and the user's delete took it there. *)
THEOREM AppAlwaysSeesItsWrites ==
    ASSUME "api" \notin Faults, "crash" \notin Faults,
           "podloss" \notin Faults, "lag" \notin Faults
    PROVE  Spec => []AppSeesItsWrites
  <1>1. CASE Replicas = 0
    <2>1. NoReplicas => AppSeesItsWrites
      BY <1>1 DEF NoReplicas, AppSeesItsWrites
    <2> QED
      BY <2>1, NoReplicasAlways, PTL
  <1>2. CASE Replicas # 0
    <2>1. SafeInv => AppSeesItsWrites
      BY AtHome DEF SafeInv, DataInv, AppSeesItsWrites
    <2>2. Spec => []SafeInv
      BY <1>2, SafeAlways
    <2> QED
      BY <2>1, <2>2, PTL
  <1> QED
    BY <1>1, <1>2

(* A slot whose status says Completed has its claim on the new volume, with
   every acknowledged write. *)
THEOREM CompletedSlotIsMoved ==
    ASSUME "api" \notin Faults, "crash" \notin Faults,
           "podloss" \notin Faults, "lag" \notin Faults
    PROVE  Spec => []CompletedSlotMoved
  <1>1. CASE Replicas = 0
    <2>1. NoReplicas => CompletedSlotMoved
      BY <1>1 DEF NoReplicas, CompletedSlotMoved
    <2> QED
      BY <2>1, NoReplicasAlways, PTL
  <1>2. CASE Replicas # 0
    <2>1. SafeInv => CompletedSlotMoved
      <3> SUFFICES ASSUME SafeInv, NEW s \in Slots, vr.vs[s] = "Completed"
                   PROVE  /\ pvc[orig(s)].st # "absent" /\ ~ pvc[orig(s)].term
                          /\ pvc[orig(s)].pv # InitPV[s]
                          /\ WholeOn(s, pvc[orig(s)].pv)
        BY DEF CompletedSlotMoved
      <3>1. Moved(s) /\ ~ pvc[orig(s)].term
        BY DEF SafeInv, ClaimInv, Done
      <3> QED
        BY <3>1 DEF SafeInv, DataInv, Home, Moved
    <2>2. Spec => []SafeInv
      BY <1>2, SafeAlways
    <2> QED
      BY <2>1, <2>2, PTL
  <1> QED
    BY <1>1, <1>2

-----------------------------------------------------------------------------
(* No migration fails without a cause. *)

(* Until the first fault: the object is there, and not failing; the pods run
   until Syncing; the run knows the first volume of its slot; no migrator has
   failed; the volume of a temporary claim stays; and the swap has its new
   volume, and finds the names of its claims free. *)
Renaming == Swapping \ {"deleteTemp", "waitTemp"}
FineInv ==
    /\ vr.exists /\ ~ vr.deleting
    /\ vr.request = "valid" => vr.phase # "Failed" /\ run.pc # "setFailed"
    /\ vr.phase \in {"Pending", "Validating"}
          => \A r \in Ordinals : r < Replicas => pod[r] = "running"
    /\ run.pc \in Retaining => run.oldPV = InitPV[vr.cur]
    /\ \A s \in Slots :
          /\ Stays(s) => mig[s].st # "failed"
          /\ pvc[temp(s)].pv # NoPV => /\ pv[pvc[temp(s)].pv].st = "live"
                                       /\ pv[pvc[temp(s)].pv].claim = temp(s)
          /\ AtSlot(s, Renaming) => pvc[temp(s)].st = "absent"
          /\ AtSlot(s, {"createOrig"}) => pvc[orig(s)].st = "absent"
    /\ run.pc \in Swapping => pv[run.newPV].st = "live" /\ pv[run.newPV].policy = "Retain"
(* A step without a fault, of a StatefulSet whose disruption budget allows a
   pod to be down when all of them run. *)
Faultless ==
    /\ Replicas # 0 /\ (MinAvailable = 0 \/ MinAvailable < Replicas)
    /\ \A kind \in FaultKinds : ~ Fault(kind)
LEMMA FaultlessIs ==
    ASSUME Faultless
    PROVE  /\ Undisturbed /\ NotCutShort /\ ~ ApiError /\ ~ Crash /\ ~ UserDelete
           /\ ~ Fault("migfail") /\ ~ Fault("podloss") /\ ~ Fault("slow") /\ ~ Fault("lag")
           /\ ~ Fault("backuploss")
  BY DEF Faultless, FaultKinds, Undisturbed, NotCutShort, ApiError, Crash, UserDelete

(* Nobody deletes the object, and it is not let go. *)
LEMMA StaysThere ==
    ASSUME Faultless, TypeInv, CycleInv, FineInv, [Next]_vars
    PROVE  vr'.exists /\ ~ vr'.deleting /\ vr'.request = vr.request
  BY FaultlessIs, MetaChange
  DEF FineInv, RemoveFinalizer, At, CycleInv, RunInv, DeletionSteps

(* The pods run until the request is found valid. *)
LEMMA PodsRun ==
    ASSUME Faultless, TypeInv, FineInv, [Next]_vars, NEW r \in Ordinals, r < Replicas,
           vr'.phase \in {"Pending", "Validating"}
    PROVE  pod'[r] = "running"
  <1>1. vr.phase \in {"Pending", "Validating"}
    <2>1. vr \in VRRecords
      BY ControllerTyped
    <2>2. Advanced.phase \in {vr.phase, "Completed"}
      BY AdvancedIs
    <2> QED
      BY <2>1, <2>2, MetaChange
      DEF HandlePending, CanReconcile, HandleValidating, HandleReplacing, VRRecords
  <1>2. pod[r] = "running" /\ run.pc \notin RunOfSyncing
    BY <1>1, OnCursor DEF FineInv
  <1>3. ~ DeletePod
    BY <1>2 DEF DeletePod, At, RunOfSyncing, SyncSteps
  <1>4. ~ PodStep(r)
    BY <1>2, FaultlessIs DEF PodStep, StsReconcile, PodStart, PodGone, PodEvicted
  <1> QED
    BY <1>2, <1>3, <1>4, PodChange

(* A request that the user wrote well is found valid. *)
LEMMA FoundValid ==
    ASSUME Faultless, TypeInv, StsInv, ClaimInv, FineInv, HandleValidating,
           vr.request = "valid"
    PROVE  Valid
  <1>1. vr.phase = "Validating" /\ vr.exists
    BY DEF HandleValidating, CanReconcile
  <1>2. sts
    BY <1>1 DEF StsInv
  <1>3. \A v \in 1 .. NumVolumes : pvc[orig(<<0, v>>)].st # "absent"
    <2> SUFFICES ASSUME NEW v \in 1 .. NumVolumes PROVE pvc[orig(<<0, v>>)].st # "absent"
      OBVIOUS
    <2>1. <<0, v>> \in Slots
      BY SizeAssumption DEF Slots, Ordinals
    <2> QED
      BY <1>2, <2>1 DEF ClaimInv, Lost
  <1>4. DisruptionsAllowed
    <2>1. Replicas \in Nat /\ Replicas # 0 /\ MinAvailable \in Nat
      BY SizeAssumption, ControllerAssumption DEF Faultless
    <2>2. Running = 0 .. Replicas - 1
      BY <1>1, <2>1 DEF FineInv, Running, Ordinals
    <2>3. Cardinality(Running) = Replicas
      BY <2>1, <2>2, FS_Interval
    <2> QED
      BY <2>1, <2>3 DEF Faultless, DisruptionsAllowed
  <1> QED
    BY <1>2, <1>3, <1>4 DEF Valid

(* The claim of the slot at the cursor is there, and on its first volume, when a
   run begins. *)
LEMMA ClaimAtStart ==
    ASSUME TypeInv, CycleInv, ClaimInv, FineInv, GetOriginalPVC
    PROVE  /\ vr.cur \in Slots /\ pvc[CurOrig].st # "absent"
           /\ pvc[CurOrig].pv = InitPV[vr.cur]
  <1>1. /\ run.pc = "idle" /\ vr.phase = "Syncing" /\ Stored # "Completed"
        /\ vr.exists /\ ~ vr.deleting
    BY DEF GetOriginalPVC, CanReconcile, At
  <1>2. vr.cur \in Slots /\ NoSlot \notin Slots
    BY <1>1, ControllerTyped DEF TypeInv, CursorOK
  <1>3. ~ Over /\ ~ Done(vr.cur)
    BY <1>1, <1>2 DEF Over, Done, Stored
  <1>4. ~ Lost(vr.cur) /\ ~ Moved(vr.cur)
    BY <1>1, <1>2, <1>3 DEF ClaimInv
  <1> QED
    BY <1>2, <1>4 DEF Lost, Moved, CurOrig

(* A run knows the first volume of its slot until it has retained it. *)
LEMMA OldVolumeKnown ==
    ASSUME Faultless, TypeInv, CycleInv, ClaimInv, FineInv, [Next]_vars,
           run'.pc \in Retaining
    PROVE  run'.oldPV = InitPV[vr'.cur]
  <1> USE DEF Retaining
  <1>1. run \in RunRecords
    BY ControllerTyped
  <1>2. CASE run' = run
    <2>1. vr'.cur = vr.cur
      BY <1>2, SlotOfRun DEF RunOfSyncing, SyncSteps
    <2> QED
      BY <1>2, <2>1 DEF FineInv
  <1>3. CASE run' # run
    <2>1. run.pc = "idle" \/ run.pc = "createTempPVC"
      <3>1. run.pc \in {"idle", "createTempPVC", "setRetain"}
        BY RunPath DEF Path, Flow
      <3>2. CASE run.pc = "setRetain"
        <4>1. SetRetainOnPV
          BY <1>3, <3>2, FaultlessIs, RunFrom
        <4> QED
          BY <1>1, <4>1 DEF SetRetainOnPV, Fail, Goto, RunRecords
      <3> QED
        BY <3>1, <3>2
    <2>2. CASE run.pc = "idle"
      <3>1. GetOriginalPVC
        BY <1>3, <2>2, FaultlessIs, RunFrom DEF HandleValidating, BeginDeletion, Begin
      <3> QED
        BY <3>1, ClaimAtStart DEF GetOriginalPVC, Begin
    <2>3. CASE run.pc = "createTempPVC"
      BY <1>1, <1>3, <2>3, FaultlessIs, RunFrom
      DEF CreateTempPVC, Return, Idle, Goto, RunRecords, FineInv
    <2> QED
      BY <2>1, <2>2, <2>3
  <1> QED
    BY <1>2, <1>3
(* A migrator pod that nobody told to go does not fail. *)
LEMMA NoCopyFails ==
    ASSUME Faultless, TypeInv, BusyInv, FineInv, [Next]_vars, NEW s \in Slots, Stays(s)'
    PROVE  mig'[s].st # "failed"
  <1>1. mig[s].seen /\ mig \in [Slots -> MigRecords]
    BY DEF BusyInv, TypeInv, TypeOK, ClusterTypeOK
  <1>2. Stays(s) => mig[s].st # "failed"
    BY DEF FineInv
  <1>3. CASE MigEnds(s)
    <2>1. /\ mig[s].st = "running" /\ mig[s] \in MigRecords /\ ~ mig[s].del
          /\ mig'[s].st = "failed" => mig'[s] # mig[s]
      BY <1>1, <1>3 DEF MigEnds, Stays
    <2>2. CASE MigStep(s)
      <3>1. ~ MigFail(s)
        BY <2>1, FaultlessIs DEF MigFail
      <3>2. MigStart(s) \/ MigSucceed(s) \/ MigLost(s) \/ MigGone(s) \/ CacheSync(s)
        BY <2>2, <3>1 DEF MigStep
      <3> QED
        BY <1>1, <2>1, <3>2 DEF MigStart, MigSucceed, MigLost, MigGone, CacheSync, MigRecords
    <2>3. CASE CreateMigratorPod /\ s = vr.cur
      BY <2>1, <2>3 DEF CreateMigratorPod
    <2>4. CASE CleanupMigratorPod /\ s = vr.cur
      BY <2>1, <2>4, MigToldToGo
    <2>5. CASE DeleteMigrators
      BY <1>1, <2>1, <2>5 DEF DeleteMigrators, MigRecords
    <2> QED
      BY <2>1, <2>2, <2>3, <2>4, <2>5, MigChange, FaultlessIs
  <1>4. MigStays(s) => mig'[s].st # "failed"
    BY <1>2 DEF MigStays, Stays
  <1>5. MigStarts(s) \/ MigLeaves(s) \/ MigMade(s) => mig'[s].st # "failed"
    BY DEF MigStarts, MigLeaves, MigMade, NoMig
  <1>6. ~ MigTold(s)
    BY DEF MigTold, Stays
  <1> QED
    BY <1>1, <1>3, <1>4, <1>5, <1>6, CopySteps, FaultlessIs

(* The volume of a temporary claim is its own and stays as long as the claim. *)
LEMMA TempVolumeStays ==
    ASSUME TypeInv, SepInv, FineInv, [Next]_vars, NEW s \in Slots,
           pvc'[temp(s)].pv # NoPV
    PROVE  /\ pv'[pvc'[temp(s)].pv].st = "live"
           /\ pv'[pvc'[temp(s)].pv].claim = temp(s)
  <1> DEFINE c == temp(s)
             p == pvc'[c].pv
  <1>1. /\ c \in Claims /\ c[2] = "temp" /\ c # Unclaimed
        /\ pvc \in [Claims -> ClaimRecords] /\ pv \in [PVs -> PVRecords]
        /\ pvc[c] \in ClaimRecords /\ (pvc[c].pv # NoPV => pvc[c].pv \in PVs)
        /\ \A t \in Slots : c # orig(t)
    BY SlotShape, ClaimTyped DEF temp, TypeInv, TypeOK, ClusterTypeOK
  <1>2. /\ pvc[c].pv # NoPV => pv[pvc[c].pv].st = "live" /\ pv[pvc[c].pv].claim = c
        /\ pvc[c].pv # NoPV => pvc[c].st # "absent"
        /\ AtSlot(s, Renaming) => pvc[c].st = "absent"
    BY <1>1 DEF FineInv, SepInv
  <1>3. ~ Swaps(c)
    BY <1>1, OnCursor DEF Swaps, CreateOrigPVC, At, CurOrig, RunOfSyncing, ReplaceSteps
  <1> HIDE DEF c
  <1>4. CASE Provision(c) \/ BindAvailable(c)
    <2>1. PICK q \in PVs :
             /\ BindTo(c, q)
             /\ \/ pv' = [pv EXCEPT ![q] = [st |-> "live", policy |-> "Delete",
                                             claim |-> c, data |-> {}]]
                \/ pv[q].st = "live" /\ pv' = [pv EXCEPT ![q].claim = c]
      BY <1>4 DEF Provision, BindAvailable
    <2>2. pvc'[c].pv = q
      BY <1>1, <2>1 DEF BindTo, ClaimRecords
    <2> QED
      BY <1>1, <2>1, <2>2 DEF c, PVRecords
  <1>5. CASE ~ (Provision(c) \/ BindAvailable(c))
    <2>1. pvc'[c].pv = pvc[c].pv
      <3>1. CASE Binds(c)
        <4>1. /\ pvc[c].pv = NoPV /\ pvc'[c].pv # NoPV
              /\ pvc'[c] # pvc[c] /\ pvc[c].st # "absent"
          BY <3>1 DEF Binds, Unbound, NoPV, PVs
        <4>2. ~ VolumeStep(c)
          BY <1>1, <1>5, <4>1 DEF VolumeStep, BindNamed, PvcGone, NoClaim
        <4>3. CASE (CreateTempPVC \/ DeleteTempPVC) /\ c = CurTemp
          BY <1>1, <4>1, <4>3 DEF CreateTempPVC, DeleteTempPVC, DeleteClaim, ClaimRecords
        <4>4. CASE DeleteTempPVCs
          BY <1>1, <4>1, <4>4 DEF DeleteTempPVCs, ClaimRecords
        <4>5. ~ ((DeleteOrigPVC \/ CreateOrigPVC) /\ c = CurOrig)
          BY <1>1, OnCursor
          DEF DeleteOrigPVC, CreateOrigPVC, At, CurOrig, RunOfSyncing, ReplaceSteps
        <4> QED
          BY <1>1, <4>1, <4>2, <4>3, <4>4, <4>5, ClaimChange
      <3> QED
        BY <1>1, <1>3, <3>1, NameChange DEF Keeps, Goes, Comes, NoClaim, c
    <2>2. p \in PVs /\ pv[p].st = "live" /\ pv[p].claim = c
      BY <1>1, <1>2, <2>1 DEF c
    <2>3. ~ ReclaimPV(p)
      BY <1>2, <2>1, <2>2 DEF ReclaimPV, Released, c
    <2>4. ~ (ClearClaimRef /\ p = run.newPV)
      <3> SUFFICES ASSUME ClearClaimRef, p = run.newPV PROVE FALSE
        OBVIOUS
      <3>1. run.pc = "clearClaimRef"
        BY DEF ClearClaimRef, At
      <3>2. s = vr.cur
        BY <2>1, <3>1 DEF SepInv, Swapping, ReplaceSteps, c
      <3> QED
        BY <1>2, <2>1, <2>2, <3>1, <3>2
        DEF AtSlot, Renaming, Swapping, ReplaceSteps, NoPV, PVs
    <2> HIDE DEF p
    <2>5. pv'[p].st = "live" /\ pv'[p].claim = c
      BY <1>1, <2>2, <2>3, <2>4, VolumeStays
    <2> QED
      BY <2>5 DEF p, c
  <1> QED
    BY <1>4, <1>5

(* The new volume of a swap stays, because it was retained first. *)
LEMMA NewVolumeStays ==
    ASSUME Faultless, TypeInv, CycleInv, SepInv, FineInv, [Next]_vars, run'.pc \in Swapping
    PROVE  pv'[run'.newPV].st = "live" /\ pv'[run'.newPV].policy = "Retain"
  <1>1. CASE run.pc \in Swapping /\ run'.newPV = run.newPV
    <2>1. PICK p \in PVs : p = run.newPV
      BY <1>1, ControllerTyped DEF SepInv, Used, RunRecords
    <2>2. pv[p].st = "live" /\ pv[p].policy = "Retain"
      BY <1>1, <2>1 DEF FineInv
    <2>3. ~ ReclaimPV(p)
      BY <2>2 DEF ReclaimPV
    <2> QED
      BY <1>1, <2>1, <2>2, <2>3, VolumeStays
  <1>2. CASE /\ RetainNewPV /\ run.pc = "retainNewPV" /\ Live(pvc[CurTemp].pv)
             /\ run'.newPV = pvc[CurTemp].pv
    <2>1. CurTemp \in Claims
      BY <1>2, OnCursor DEF RunOfSyncing, ReplaceSteps
    <2>2. PICK p \in PVs : p = pvc[CurTemp].pv
      BY <1>2, <2>1, ClaimTyped DEF Live
    <2>3. pv' = [pv EXCEPT ![p].policy = "Retain"] /\ pv \in [PVs -> PVRecords]
      BY <1>2, <2>2 DEF RetainNewPV, Fail, Goto, Swapping, ReplaceSteps, TypeInv, TypeOK,
         ClusterTypeOK, ControllerTypeOK, RunRecords
    <2> QED
      BY <1>2, <2>2, <2>3 DEF Live, PVRecords
  <1> QED
    BY <1>1, <1>2, NewVolume, FaultlessIs

(* The temporary claim is gone when its volume is freed, because nothing that
   mounts it is left. *)
LEMMA TempNameFree ==
    ASSUME Faultless, TypeInv, CycleInv, BusyInv, FineInv, [Next]_vars, NEW s \in Slots,
           AtSlot(s, Renaming)'
    PROVE  pvc'[temp(s)].st = "absent"
  <1> USE DEF Renaming, Swapping, ReplaceSteps
  <1>1. run.pc \in Renaming \cup {"waitTemp"} /\ run'.pc \in Renaming
    BY RunPath DEF Path, Flow, AtSlot
  <1>2. vr.cur = s
    BY <1>1, SlotOfRun DEF RunOfSyncing, AtSlot
  <1>3. CASE run.pc \in Renaming
    <2>1. pvc[temp(s)].st = "absent"
      BY <1>2, <1>3 DEF FineInv, AtSlot
    <2> QED
      BY <1>3, <2>1, TempMade DEF CreateTempPVC, At
  <1>4. CASE run.pc = "waitTemp"
    <2>1. WaitTempGone
      BY <1>1, <1>4, FaultlessIs, RunFrom
    <2>2. mig[s].st \in {"absent", "succeeded"}
      BY <1>2, <1>4 DEF BusyInv, AtSlot
    <2>3. temp(s)[1] = s /\ temp(s)[2] = "temp"
      BY DEF temp
    <2>4. ~ Held(temp(s))
      BY <2>2, <2>3 DEF Held
    <2> QED
      BY <1>2, <2>1, <2>4, FaultlessIs DEF WaitTempGone, WaitClaimGone, CurTemp
  <1> QED
    BY <1>1, <1>3, <1>4

(* So is the original claim when it is made again. *)
LEMMA OrigNameFree ==
    ASSUME Faultless, TypeInv, RetentionInv, CycleInv, StsInv, PodInv, BusyInv, FineInv,
           [Next]_vars, NEW s \in Slots, AtSlot(s, {"createOrig"})'
    PROVE  pvc'[orig(s)].st = "absent"
  <1> USE DEF ReplaceSteps
  <1>1. run.pc \in {"createOrig", "waitOrig"} /\ run'.pc = "createOrig"
    BY RunPath DEF Path, Flow, AtSlot
  <1>2. vr.cur = s
    BY <1>1, SlotOfRun DEF RunOfSyncing, AtSlot
  <1>3. CASE run.pc = "createOrig"
    <2>1. pvc[orig(s)].st = "absent" /\ ~ sts
      BY <1>2, <1>3 DEF FineInv, AtSlot, StsInv, Away
    <2>2. ~ DeleteOrigPVC
      BY <1>3 DEF DeleteOrigPVC, At
    <2> QED
      BY <1>1, <2>1, <2>2, OrigChange DEF NoClaim
  <1>4. CASE run.pc = "waitOrig"
    <2>1. WaitOrigGone
      BY <1>1, <1>4, FaultlessIs, RunFrom
    <2>2. mig[s].st \in {"absent", "succeeded"} /\ pod[s[1]] = "absent"
      BY <1>2, <1>4 DEF BusyInv, AtSlot, PodInv, Copying
    <2>3. orig(s)[1] = s /\ orig(s)[2] = "orig"
      BY DEF orig
    <2>4. ~ Held(orig(s))
      BY <2>2, <2>3 DEF Held
    <2> QED
      BY <1>2, <2>1, <2>4, FaultlessIs DEF WaitOrigGone, WaitClaimGone, CurOrig
  <1> QED
    BY <1>1, <1>3, <1>4

(* No run gives up: each of the answers that make it do so would need a fault. *)
LEMMA NoneGivesUp ==
    ASSUME Faultless, SafeInv, BackupInv, FineInv, [Next]_vars, vr.request = "valid"
    PROVE  run'.pc # "setFailed"
  <1> SUFFICES ASSUME run'.pc = "setFailed" PROVE FALSE
    OBVIOUS
  <1>1. TypeInv /\ CycleInv /\ StsInv /\ PodInv
    BY DEF SafeInv, SwapInv
  <1>2. run.pc # "setFailed" /\ run' # run /\ run \in RunRecords
    BY <1>1, ControllerTyped DEF FineInv
  <1> DEFINE s == vr.cur
  <1>3. run.pc \in RunOfSyncing
          => /\ s \in Slots /\ ~ Over /\ mig[s].seen
             /\ pvc[CurOrig] = pvc[orig(s)] /\ pvc[CurTemp] = pvc[temp(s)]
             /\ \A pcs : run.pc \in pcs => AtSlot(s, pcs)
    BY <1>1, OnCursor, NotOver DEF SafeInv, BusyInv, CurOrig, CurTemp, AtSlot
  <1>4. /\ run.pc # "idle"
        /\ run.pc \in RunOfSyncing \cup DeletionSteps
    <2>1. CASE run.pc = "idle"
      <3>1. ~ (HandleValidating /\ ~ Valid)
        BY <1>1, FoundValid DEF SafeInv
      <3>2. ~ GetOriginalPVC
        <4> SUFFICES ASSUME GetOriginalPVC PROVE FALSE
          OBVIOUS
        <4>1. pvc[CurOrig].st # "absent"
          BY <1>1, ClaimAtStart DEF SafeInv
        <4> QED
          BY <4>1 DEF GetOriginalPVC, Begin
      <3>3. BeginDeletion
        BY <1>1, <1>2, <2>1, <3>1, <3>2, FaultlessIs, RunFrom
      <3> QED
        BY <3>3 DEF BeginDeletion, Begin
    <2> QED
      BY <1>2, <2>1 DEF RunRecords, Steps, RunOfSyncing
  <1> USE DEF RunOfSyncing, SyncSteps, ReplaceSteps, ReturnSteps
  <1>5. run.pc # "setRetain"
    <2> SUFFICES ASSUME run.pc = "setRetain" PROVE FALSE
      OBVIOUS
    <2>1. SetRetainOnPV
      BY <1>1, <1>2, FaultlessIs, RunFrom
    <2>2. Live(run.oldPV)
      BY <1>1, <1>3, OldVolume
      DEF SafeInv, FineInv, Retaining, Live, NoPV, PVs
    <2> QED
      BY <1>2, <2>1, <2>2 DEF SetRetainOnPV, RunRecords
  <1>6. run.pc # "createMigrator"
    <2> SUFFICES ASSUME run.pc = "createMigrator" PROVE FALSE
      OBVIOUS
    <2>1. CreateMigratorPod
      BY <1>1, <1>2, FaultlessIs, RunFrom
    <2> QED
      BY <1>2, <1>3, <2>1 DEF CreateMigratorPod, Goto, RunRecords
  <1>7. run.pc # "recheckMigrator"
    <2> SUFFICES ASSUME run.pc = "recheckMigrator" PROVE FALSE
      OBVIOUS
    <2>1. RecheckMigrator
      BY <1>1, <1>2, FaultlessIs, RunFrom
    <2>2. Stays(s)
      BY <1>3 DEF SafeInv, BusyInv, Waiting
    <2>3. mig[s].st # "failed"
      BY <1>3, <2>2 DEF FineInv
    <2> QED
      BY <1>2, <2>1, <2>3 DEF RecheckMigrator, Return, Idle, Goto, RunRecords
  <1>8. run.pc # "retainNewPV"
    <2> SUFFICES ASSUME run.pc = "retainNewPV" PROVE FALSE
      OBVIOUS
    <2>1. RetainNewPV
      BY <1>1, <1>2, FaultlessIs, RunFrom
    <2>2. pvc[temp(s)].pv # NoPV
      BY <1>3 DEF SafeInv, DataInv, WholeOn
    <2>3. Live(pvc[CurTemp].pv)
      BY <1>3, <2>2 DEF FineInv, Live
    <2>4. ~ Lost(s)
      BY <1>3 DEF SafeInv, ClaimInv
    <2> QED
      BY <1>2, <1>3, <2>1, <2>3, <2>4 DEF RetainNewPV, RunRecords, Lost
  <1>9. run.pc # "clearClaimRef"
    <2> SUFFICES ASSUME run.pc = "clearClaimRef" PROVE FALSE
      OBVIOUS
    <2>1. ClearClaimRef
      BY <1>1, <1>2, FaultlessIs, RunFrom
    <2>2. Live(run.newPV)
      BY DEF SafeInv, SepInv, Used, FineInv, Swapping, Live
    <2> QED
      BY <1>2, <2>1, <2>2 DEF ClearClaimRef, Goto, RunRecords
  <1>10. run.pc # "createOrig"
    <2> SUFFICES ASSUME run.pc = "createOrig" PROVE FALSE
      OBVIOUS
    <2>1. CreateOrigPVC
      BY <1>1, <1>2, FaultlessIs, RunFrom
    <2>2. pvc[CurOrig].st = "absent"
      BY <1>3 DEF FineInv
    <2> QED
      BY <1>2, <2>1, <2>2 DEF CreateOrigPVC, RunRecords
  <1>11. run.pc # "recreateSTS"
    <2> SUFFICES ASSUME run.pc = "recreateSTS" PROVE FALSE
      OBVIOUS
    <2>1. RecreateSTS
      BY <1>1, <1>2, FaultlessIs, RunFrom
    <2>2. backup
      BY <1>1 DEF StsInv, Away, BackupInv, BackupBeforeDelete
    <2> QED
      BY <1>2, <2>1, <2>2 DEF RecreateSTS, Goto, RunRecords
  <1>12. \/ CreateTempPVC \/ BackupSTS \/ DeleteSTSOrphan \/ AnnotateSTSDeleted
         \/ RecordBackup \/ DeletePod \/ WaitForPodTermination
         \/ WaitForMigrationComplete \/ CleanupMigratorPod
         \/ DeleteTempPVC \/ WaitTempGone \/ DeleteOrigPVC \/ WaitOrigGone
         \/ PersistCompleted \/ ClearAnnotation \/ CheckPodAndAdvance
         \/ DeleteTempPVCs \/ DeleteMigrators \/ RemoveFinalizer
    BY <1>1, <1>2, <1>4, <1>5, <1>6, <1>7, <1>8, <1>9, <1>10, <1>11, FaultlessIs, RunFrom
    DEF DeletionSteps
  <1>13. /\ ~ Return
         /\ \A pc : Goto(pc) => pc = "setFailed"
         /\ \A new, next : WriteVR(new, next) => next = "setFailed"
    BY <1>2 DEF WriteVR, Return, Idle, Goto, RunRecords
  <1>14. ~ (CreateTempPVC \/ BackupSTS \/ DeleteSTSOrphan \/ DeletePod
            \/ WaitForPodTermination \/ WaitForMigrationComplete)
    BY <1>13
    DEF CreateTempPVC, BackupSTS, DeleteSTSOrphan, DeletePod, WaitForPodTermination,
        WaitForMigrationComplete
  <1>15. ~ (DeleteTempPVC \/ WaitTempGone \/ DeleteOrigPVC \/ WaitOrigGone
            \/ DeleteTempPVCs \/ DeleteMigrators \/ RemoveFinalizer)
    BY <1>13
    DEF DeleteTempPVC, WaitTempGone, DeleteOrigPVC, WaitOrigGone, WaitClaimGone,
        DeleteTempPVCs, DeleteMigrators, RemoveFinalizer
  <1>16. ~ (RecordBackup \/ PersistCompleted \/ ClearAnnotation \/ CheckPodAndAdvance)
    BY <1>13 DEF RecordBackup, PersistCompleted, ClearAnnotation, CheckPodAndAdvance
  <1>17. ~ (CleanupMigratorPod \/ AnnotateSTSDeleted)
    BY <1>2, <1>13 DEF CleanupMigratorPod, AnnotateSTSDeleted, RunRecords
  <1> QED
    BY <1>12, <1>14, <1>15, <1>16, <1>17

(* Every step without a fault keeps FineInv. *)
LEMMA FineStep ==
    ASSUME Faultless, SafeInv, BackupInv, FineInv, [Next]_vars
    PROVE  FineInv'
  <1>1. /\ TypeInv /\ CycleInv /\ StsInv /\ PodInv /\ RetentionInv /\ ClaimInv
        /\ BusyInv /\ SepInv
    BY DEF SafeInv, SwapInv
  <1>2. vr'.exists /\ ~ vr'.deleting /\ vr'.request = vr.request
    BY <1>1, StaysThere
  <1>3. vr'.request = "valid" => vr'.phase # "Failed" /\ run'.pc # "setFailed"
    <2> SUFFICES ASSUME vr.request = "valid"
                 PROVE  vr'.phase # "Failed" /\ run'.pc # "setFailed"
      BY <1>2
    <2>1. vr.phase # "Failed" /\ ~ SetFailed
      BY DEF FineInv, SetFailed, At
    <2>2. vr \in VRRecords
      BY <1>1, ControllerTyped
    <2>3. Advanced.phase \in {vr.phase, "Completed"}
      BY <1>1, AdvancedIs
    <2>4. vr'.phase # "Failed"
      BY <1>1, <2>1, <2>2, <2>3, MetaChange
      DEF HandlePending, HandleValidating, HandleReplacing, VRRecords
    <2> QED
      BY <2>4, NoneGivesUp
  <1>4. vr'.phase \in {"Pending", "Validating"}
          => \A r \in Ordinals : r < Replicas => pod'[r] = "running"
    BY <1>1, PodsRun
  <1>5. run'.pc \in Retaining => run'.oldPV = InitPV[vr'.cur]
    BY <1>1, OldVolumeKnown
  <1>6. ASSUME NEW s \in Slots
        PROVE  /\ Stays(s)' => mig'[s].st # "failed"
               /\ pvc'[temp(s)].pv # NoPV
                     => /\ pv'[pvc'[temp(s)].pv].st = "live"
                        /\ pv'[pvc'[temp(s)].pv].claim = temp(s)
               /\ AtSlot(s, Renaming)' => pvc'[temp(s)].st = "absent"
               /\ AtSlot(s, {"createOrig"})' => pvc'[orig(s)].st = "absent"
    BY <1>1, NoCopyFails, TempVolumeStays, TempNameFree, OrigNameFree
  <1>7. run'.pc \in Swapping
          => pv'[run'.newPV].st = "live" /\ pv'[run'.newPV].policy = "Retain"
    BY <1>1, NewVolumeStays
  <1> QED
    BY <1>2, <1>3, <1>4, <1>5, <1>6, <1>7 DEF FineInv, temp, orig

(* FineInv holds at the start. *)
LEMMA FineInit == Replicas # 0 /\ Init => FineInv
  <1> SUFFICES ASSUME Replicas # 0, Init PROVE FineInv
    OBVIOUS
  <1>1. /\ run.pc = "idle" /\ vr.exists /\ ~ vr.deleting
        /\ vr.phase \in {"Pending", "Replacing"}
    BY ControllerAssumption DEF Init, Idle
  <1>2. \A r \in Ordinals : r < Replicas => pod[r] = "running"
    BY DEF Init, ClusterInit
  <1>3. ASSUME NEW s \in Slots
        PROVE  mig[s].st = "absent" /\ pvc[temp(s)].pv = NoPV
    <2>1. temp(s) \in Claims /\ temp(s)[2] = "temp"
      BY SlotShape DEF temp
    <2> QED
      BY <2>1 DEF Init, ClusterInit, NoMig, NoClaim
  <1> QED
    BY <1>1, <1>2, <1>3
    DEF FineInv, AtSlot, Renaming, Swapping, ReplaceSteps, Retaining, Stays

(* A step takes at most one fault from the budget. *)
LEMMA FaultsCount ==
    ASSUME [Next]_vars
    PROVE  faults' = faults \/ faults' = faults + 1
  <1>1. CASE ClusterNext
    <2>1. CASE \E r \in Ordinals : PodStep(r)
      BY <2>1 DEF PodStep, StsReconcile, PodStart, PodGone, PodEvicted, Fault
    <2>2. CASE \E c \in Claims : VolumeStep(c)
      BY <2>2 DEF VolumeStep, Provision, BindAvailable, BindNamed, PvcGone
    <2>3. CASE \E p \in PVs : ReclaimPV(p)
      BY <2>3 DEF ReclaimPV
    <2>4. CASE \E s \in Slots : AppWrite(s) \/ MigStep(s)
      BY <2>4
      DEF AppWrite, MigStep, MigStart, MigSucceed, MigFail, MigLost, MigGone,
          CacheSync, Fault
    <2>5. CASE BackupLost
      BY <2>5 DEF BackupLost, Fault
    <2> QED
      BY <1>1, <2>1, <2>2, <2>3, <2>4, <2>5 DEF ClusterNext
  <1>2. CASE HandleSyncing
    <2>1. CASE CreateMigratorPod
      BY <2>1 DEF CreateMigratorPod, Fault
    <2>2. CASE ~ CreateMigratorPod
      BY <1>2, <2>2
      DEF HandleSyncing, AdvanceCompleted, GetOriginalPVC, CreateTempPVC, SetRetainOnPV,
          BackupSTS, DeleteSTSOrphan, AnnotateSTSDeleted, RecordBackup, DeletePod,
          WaitForPodTermination, WaitForMigrationComplete, RecheckMigrator,
          CleanupMigratorPod, PersistCompleted, RecreateSTS, ClearAnnotation,
          CheckPodAndAdvance, clusterVars
    <2> QED
      BY <2>1, <2>2
  <1>3. CASE ReplacePVC
    BY <1>3
    DEF ReplacePVC, RetainNewPV, DeleteTempPVC, WaitTempGone, WaitOrigGone,
        WaitClaimGone, ClearClaimRef, DeleteOrigPVC, CreateOrigPVC, Fault
  <1>4. CASE Crash \/ ApiError \/ UserDelete \/ UNCHANGED vars
    BY <1>4 DEF Crash, ApiError, UserDelete, vars, Fault
  <1>5. CASE \/ AddFinalizer \/ HandlePending \/ HandleValidating
             \/ HandleReplacing \/ SetFailed \/ HandleDeletion
    BY <1>5
    DEF AddFinalizer, HandlePending, HandleValidating, HandleReplacing, SetFailed,
        HandleDeletion, BeginDeletion, DeleteTempPVCs, DeleteMigrators,
        RemoveFinalizer, clusterVars
  <1> QED
    BY <1>1, <1>2, <1>3, <1>4, <1>5, WhoSteps

(* Without a fault a valid request never fails: as long as nothing has gone wrong
   in the cluster and the user has not deleted the object, none of the answers
   that send a run to setFailed is ever given, whatever the order in which the
   volume controllers, the StatefulSet controller and the application act.  (A
   budget that allows no pod to be down makes handleValidating refuse, and a
   StatefulSet without replicas is migrated over and over, in the end without a
   volume: see the README.) *)
THEOREM NoFailureWithoutCause ==
    ASSUME Replicas # 0, MinAvailable = 0 \/ MinAvailable < Replicas
    PROVE  Spec => []FailsOnlyForCause
  <1> DEFINE AllFine == TypeInv /\ (faults = 0 => SafeInv /\ BackupInv /\ FineInv)
  <1>1. Init => AllFine
    BY SafeInit, BackupInit, FineInit, TypeInit
  <1>2. AllFine /\ [Next]_vars => AllFine'
    <2> SUFFICES ASSUME AllFine, [Next]_vars
                 PROVE  AllFine'
      OBVIOUS
    <2>1. TypeInv'
      BY TypeStep
    <2>2. CASE faults' = 0
      <3>1. faults \in Nat /\ (faults' = faults \/ faults' = faults + 1)
        BY FaultsCount DEF TypeInv, TypeOK, ClusterTypeOK
      <3>2. faults = 0 /\ \A kind \in FaultKinds : ~ Fault(kind)
        BY <2>2, <3>1 DEF Fault
      <3>3. Faultless
        BY <3>2 DEF Faultless
      <3>4. SafeInv' /\ FineInv'
        BY <3>2, <3>3, FaultlessIs, SafeStep, FineStep
      <3>5. BackupInv'
        BY <3>2, <3>3, FaultlessIs, BackupStep
      <3> QED
        BY <2>1, <3>4, <3>5
    <2> QED
      BY <2>1, <2>2
  <1>3. AllFine => FailsOnlyForCause
    BY DEF FineInv, FailsOnlyForCause
  <1> HIDE DEF AllFine
  <1> QED
    BY <1>1, <1>2, <1>3, PTL DEF Spec
=============================================================================
