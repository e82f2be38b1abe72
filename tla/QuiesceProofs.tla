---------------------------- MODULE QuiesceProofs ----------------------------
(***************************************************************************)
(* The source of a copy is still, and no slot is migrated twice: proofs of *)
(* SourceQuiesced and NoSecondMigration, as long as no crash and no error  *)
(* of the API server cuts a run short.                                     *)
(***************************************************************************)
EXTENDS BackupProofs, RetentionProofs

(* From createMigratorPod until the StatefulSet is back, the pod of the
   replica is gone. *)
Copying == {"createMigrator", "waitMigrator", "recheckMigrator", "cleanupMigrator"}
           \cup ReplaceSteps \cup {"persistCompleted", "recreateSTS"}
PodInv == run.pc \in Copying => pod[vr.cur[1]] = "absent"

(* Every step keeps PodInv. *)
LEMMA PodInvStep ==
    ASSUME NotCutShort,
           TypeInv, CycleInv, StsInv, PodInv, [Next]_vars
    PROVE  PodInv'
  <1> SUFFICES ASSUME run'.pc \in Copying
               PROVE  pod'[vr'.cur[1]] = "absent"
    BY DEF PodInv
  <1> USE DEF Copying, ReplaceSteps
  <1>1. ~ ApiError /\ ~ Crash
    BY DEF NotCutShort, ApiError, Crash
  <1>2. run.pc \in Copying \cup {"waitPod"}
    BY RunPath DEF Path, Flow
  <1>3. vr'.cur = vr.cur /\ vr.cur[1] \in Ordinals /\ ~ sts
    BY <1>2, SlotOfRun, OnCursor DEF RunOfSyncing, SyncSteps, ReturnSteps, StsInv, Away
  <1>4. pod \in [Ordinals -> PodStates]
    BY DEF TypeInv, TypeOK, ClusterTypeOK
  <1>5. pod[vr.cur[1]] = "absent"
    <2>1. CASE run.pc = "waitPod"
      <3>1. WaitForPodTermination
        BY <1>1, <2>1, RunFrom
      <3> QED
        BY <3>1 DEF WaitForPodTermination, Return, Idle, CurPod
    <2> QED
      BY <1>2, <2>1 DEF PodInv
  <1>6. CASE PodStep(vr.cur[1])
    BY <1>3, <1>4, <1>5, <1>6 DEF PodStep, StsReconcile, PodStart, PodGone, PodEvicted
  <1>7. CASE DeletePod
    BY <1>2, <1>7 DEF DeletePod, At
  <1> QED
    BY <1>3, <1>5, <1>6, <1>7, PodChange

(* A migrator pod that copies or that may still start is that of the slot
   under migration; the pod of its replica is gone, the StatefulSet is away and
   stays so, because the swap does not get past a claim that is mounted. *)
MayCopy(s) == mig[s].st = "running" \/ (mig[s].st = "pending" /\ ~ mig[s].del)
Still(s) ==
    /\ ~ sts /\ pod[s[1]] = "absent"
    /\ vr.cur = s
    /\ vr.phase = "Syncing" => vr.vs[s] # "Completed"
    /\ run.pc \notin {"persistCompleted"} \cup Persisted
    /\ run.pc \in ReplaceSteps => mig[s].del
QuietInv == \A s \in Slots : MayCopy(s) => Still(s)

(* How a migrator pod may come to copy: it is made, or it could before. *)
LEMMA CopyBegins ==
    ASSUME TypeInv, [Next]_vars, NEW s \in Slots, MayCopy(s)'
    PROVE  /\ \/ MayCopy(s) /\ (mig[s].del => mig'[s].del)
              \/ CreateMigratorPod /\ s = vr.cur
           /\ CleanupMigratorPod /\ s = vr.cur => mig'[s].del
  <1>1. mig \in [Slots -> MigRecords] /\ mig[s] \in MigRecords
    BY DEF TypeInv, TypeOK, ClusterTypeOK
  <1> USE DEF MayCopy
  <1>2. CleanupMigratorPod /\ s = vr.cur => mig'[s].del
    BY MigToldToGo
  <1> DEFINE Goal == \/ MayCopy(s) /\ (mig[s].del => mig'[s].del)
                     \/ CreateMigratorPod /\ s = vr.cur
  <1> SUFFICES Goal
    BY <1>2
  <1>3. CASE mig'[s] = mig[s]
    BY <1>3
  <1>4. CASE MigStep(s)
    <2>1. CASE MigStart(s) \/ MigSucceed(s) \/ MigFail(s)
      <3>1. CASE MigStart(s)
        BY <1>1, <3>1 DEF MigStart, MigRecords
      <3>2. CASE MigSucceed(s)
        BY <1>1, <3>2 DEF MigSucceed, MigRecords
      <3>3. CASE MigFail(s)
        BY <1>1, <3>3 DEF MigFail, MigRecords
      <3> QED
        BY <2>1, <3>1, <3>2, <3>3
    <2>2. CASE MigLost(s) \/ MigGone(s) \/ CacheSync(s)
      BY <1>1, <2>2 DEF MigLost, MigGone, CacheSync, NoMig, MigRecords
    <2> QED
      BY <1>4, <2>1, <2>2 DEF MigStep
  <1>5. CASE CleanupMigratorPod /\ s = vr.cur
    BY <1>1, <1>5, MigToldToGo
  <1>6. CASE DeleteMigrators \/ Crash
    BY <1>1, <1>6 DEF DeleteMigrators, Crash, MigRecords, Visible
  <1> QED
    BY <1>3, <1>4, <1>5, <1>6, MigChange

(* Every step keeps QuietInv. *)
LEMMA QuietStep ==
    ASSUME NotCutShort,
           TypeInv, CycleInv, StsInv, PodInv, QuietInv, [Next]_vars
    PROVE  QuietInv'
  <1> SUFFICES ASSUME NEW s \in Slots, MayCopy(s)' PROVE Still(s)'
    BY DEF QuietInv
  <1> USE DEF ReplaceSteps, Persisted
  <1>1. ~ ApiError /\ ~ Crash
    BY DEF NotCutShort, ApiError, Crash
  <1>2. /\ pod \in [Ordinals -> PodStates] /\ s[1] \in Ordinals
        /\ run \in RunRecords /\ NoSlot \notin Slots
    BY ControllerTyped, SlotShape DEF TypeInv, TypeOK, ClusterTypeOK
  <1>3. CASE CreateMigratorPod /\ s = vr.cur
    <2>1. /\ run.pc = "createMigrator" /\ UNCHANGED <<vr, sts, pod>>
          /\ run'.pc \in {"waitMigrator", "setFailed"}
      BY <1>2, <1>3 DEF CreateMigratorPod, At, Goto, Fail, RunRecords
    <2>2. ~ sts /\ pod[s[1]] = "absent"
      BY <1>3, <2>1 DEF StsInv, Away, PodInv, Copying
    <2>3. vr.vs[s] # "Completed"
      BY <1>2, <1>3, <2>1 DEF CycleInv, MemInv, SyncSteps, Stored
    <2> QED
      BY <1>3, <2>1, <2>2, <2>3 DEF Still
  <1>4. CASE MayCopy(s) /\ (mig[s].del => mig'[s].del)
    <2>1. /\ ~ sts /\ pod[s[1]] = "absent" /\ vr.cur = s
          /\ vr.phase = "Syncing" => vr.vs[s] # "Completed"
          /\ run.pc \notin {"persistCompleted"} \cup Persisted
          /\ run.pc \in ReplaceSteps => mig[s].del
      BY <1>4 DEF QuietInv, Still
    <2>2. ~ sts'
      BY <2>1, StsMoves
    <2>3. pod'[s[1]] = "absent"
      <3>1. CASE PodStep(s[1])
        BY <1>2, <2>1, <3>1 DEF PodStep, StsReconcile, PodStart, PodGone, PodEvicted
      <3>2. CASE DeletePod /\ s[1] = vr.cur[1]
        BY <1>2, <2>1, <3>2 DEF DeletePod
      <3> QED
        BY <1>2, <2>1, <3>1, <3>2, PodChange
    <2>4. vr'.cur = s
      BY <1>2, <2>1, SlotChange
    <2>5. vr'.vs[s] # "Completed" \/ vr'.phase # "Syncing"
      <3>1. CASE vr.phase = "Syncing"
        BY <2>1, <3>1, SlotChange DEF PersistCompleted, At
      <3>2. CASE vr.phase # "Syncing"
        BY <1>2, <2>1, <3>2, MetaChange, AdvanceSteps
        DEF HandlePending, HandleValidating, HandleReplacing, CanReconcile,
            CycleInv, StartInv, Returns
      <3> QED
        BY <3>1, <3>2
    <2>6. run'.pc \notin {"persistCompleted"} \cup Persisted
      <3>1. ASSUME run.pc = "createOrig", run'.pc = "persistCompleted" PROVE FALSE
        <4>1. CreateOrigPVC
          BY <1>1, <3>1, RunFrom
        <4>2. pvc[orig(s)].st = "absent"
          BY <1>2, <2>1, <3>1, <4>1 DEF CreateOrigPVC, CurOrig, Fail, Goto, RunRecords
        <4>3. mig[s].st = "running"
          BY <1>4, <2>1, <3>1 DEF MayCopy
        <4>4. Mounted(orig(s))
          BY <4>3 DEF Mounted, orig
        <4> QED
          BY <4>2, <4>4, ClaimTyped, SlotShape
      <3> QED
        BY <2>1, <3>1, RunPath DEF Path, Flow
    <2>7. run'.pc \in ReplaceSteps => mig'[s].del
      <3>1. CASE run.pc = "cleanupMigrator" /\ run'.pc # run.pc
        <4>1. CleanupMigratorPod
          BY <1>1, <3>1, RunFrom
        <4> QED
          BY <2>1, <4>1, CopyBegins
      <3>2. CASE run.pc \in ReplaceSteps
        BY <1>4, <2>1, <3>2
      <3> QED
        BY <3>1, <3>2, RunPath DEF Path, Flow
    <2> QED
      BY <2>2, <2>3, <2>4, <2>5, <2>6, <2>7 DEF Still
  <1> QED
    BY <1>3, <1>4, CopyBegins

(* What the proofs of this module and the next rest on. *)
SwapInv == TypeInv /\ CycleInv /\ StsInv /\ PodInv /\ QuietInv

(* They hold at the start. *)
LEMMA SwapInit == Init => SwapInv
  <1> SUFFICES ASSUME Init PROVE PodInv /\ QuietInv
    BY TypeInit, CycleInit, StsInit DEF SwapInv
  <1> QED
    BY DEF Init, Idle, ClusterInit, NoMig, PodInv, QuietInv, MayCopy, Copying, ReplaceSteps

(* Every step keeps them. *)
LEMMA SwapStep ==
    ASSUME NotCutShort, SwapInv, [Next]_vars
    PROVE  SwapInv'
  BY CycleStep, StsStep, PodInvStep, QuietStep DEF SwapInv

(* They hold in every reachable state. *)
LEMMA SwapAlways ==
    ASSUME "api" \notin Faults, "crash" \notin Faults
    PROVE  Spec => []SwapInv
  <1>1. SwapInv /\ [Next]_vars => SwapInv'
    BY SwapStep, NeverCutShort
  <1> QED
    BY <1>1, SwapInit, PTL DEF Spec

(* No pod of the application writes to a volume while it is copied: not one
   that is evicted, told to go late or started again by the StatefulSet
   controller. *)
THEOREM SourceIsQuiesced ==
    ASSUME "api" \notin Faults, "crash" \notin Faults
    PROVE  Spec => []SourceQuiesced
  <1>1. SwapInv => SourceQuiesced
    BY DEF SwapInv, QuietInv, MayCopy, Still, SourceQuiesced
  <1> QED
    BY <1>1, SwapAlways, PTL

-----------------------------------------------------------------------------
(* The original claim of a slot. *)

(* What happens to it; a step that is not named keeps whether it is there and
   on its way out, and does not bring it from or to its first volume. *)
LEMMA OrigChange ==
    ASSUME TypeInv, RetentionInv, [Next]_vars, NEW s \in Slots
    PROVE  LET old == pvc[orig(s)]
               new == pvc'[orig(s)]
           IN  \/ /\ new.st = "absent" <=> old.st = "absent"
                  /\ new.term = old.term
                  /\ new.pv = InitPV[s] <=> old.pv = InitPV[s]
               \/ old.term /\ ~ Mounted(orig(s)) /\ new = NoClaim /\ UNCHANGED <<vr, run>>
               \/ /\ sts /\ old.st = "absent" /\ UNCHANGED <<vr, run>>
                  /\ new = [st |-> "pending", term |-> FALSE, pv |-> NoPV]
               \/ /\ DeleteOrigPVC /\ s = vr.cur /\ new.st = old.st /\ new.pv = old.pv
                  /\ new.term = (old.st # "absent")
               \/ /\ CreateOrigPVC /\ s = vr.cur /\ old.st = "absent"
                  /\ new = [st |-> "pending", term |-> FALSE, pv |-> run.newPV]
                  /\ run.newPV # InitPV[s]
                  /\ run'.pc = "persistCompleted" /\ run'.mem = "Completed"
  <1> DEFINE c == orig(s)
  <1>1. /\ c \in Claims /\ c[1] = s /\ c[2] = "orig" /\ pvc[c] \in ClaimRecords
        /\ pvc \in [Claims -> ClaimRecords] /\ run \in RunRecords
        /\ InitPV[s] \in PVs /\ InitPV[s] # NoPV
        /\ pv[InitPV[s]].st = "live" /\ pv[InitPV[s]].claim = c /\ c # Unclaimed
        /\ run.newPV # InitPV[s]
    BY SlotShape, ClaimTyped, ControllerTyped, InitPVAssumption
    DEF orig, TypeInv, TypeOK, ClusterTypeOK, RetentionInv, PVs, NoPV
  <1>2. /\ \A t \in Slots : temp(t) # c
        /\ orig(vr.cur) = c => vr.cur = s
    BY SlotShape DEF orig
  <1> DEFINE Goal ==
           \/ /\ pvc'[c].st = "absent" <=> pvc[c].st = "absent"
              /\ pvc'[c].term = pvc[c].term
              /\ pvc'[c].pv = InitPV[s] <=> pvc[c].pv = InitPV[s]
           \/ pvc[c].term /\ ~ Mounted(c) /\ pvc'[c] = NoClaim /\ UNCHANGED <<vr, run>>
           \/ /\ sts /\ pvc[c].st = "absent" /\ UNCHANGED <<vr, run>>
              /\ pvc'[c] = [st |-> "pending", term |-> FALSE, pv |-> NoPV]
           \/ /\ DeleteOrigPVC /\ s = vr.cur /\ pvc'[c].st = pvc[c].st
              /\ pvc'[c].pv = pvc[c].pv
              /\ pvc'[c].term = (pvc[c].st # "absent")
           \/ /\ CreateOrigPVC /\ s = vr.cur /\ pvc[c].st = "absent"
              /\ pvc'[c] = [st |-> "pending", term |-> FALSE, pv |-> run.newPV]
              /\ run.newPV # InitPV[s]
              /\ run'.pc = "persistCompleted" /\ run'.mem = "Completed"
  <1> SUFFICES Goal
    OBVIOUS
  <1> HIDE DEF c
  <1>3. CASE pvc'[c] = pvc[c]
    BY <1>3
  <1>4. CASE VolumeStep(c) /\ UNCHANGED <<vr, run>>
    <2>1. CASE PvcGone(c)
      BY <1>1, <1>4, <2>1 DEF PvcGone
    <2>2. ASSUME NEW p, p # InitPV[s], BindTo(c, p), Unbound(c)
          PROVE  Goal
      BY <1>1, <2>2 DEF BindTo, Unbound, ClaimRecords
    <2>3. CASE Provision(c)
      BY <1>1, <2>2, <2>3 DEF Provision
    <2>4. CASE BindAvailable(c)
      BY <1>1, <2>2, <2>4 DEF BindAvailable
    <2>5. CASE BindNamed(c)
      BY <1>1, <2>5 DEF BindNamed, BindTo, ClaimRecords
    <2> QED
      BY <1>4, <2>1, <2>3, <2>4, <2>5 DEF VolumeStep
  <1>5. CASE StsReconcile(c[1][1]) /\ c[2] = "orig" /\ UNCHANGED <<vr, run>>
    BY <1>1, <1>3, <1>5 DEF StsReconcile
  <1>6. CASE DeleteOrigPVC /\ c = CurOrig
    <2>1. s = vr.cur
      BY <1>2, <1>6 DEF CurOrig
    <2> QED
      BY <1>1, <1>6, <2>1 DEF DeleteOrigPVC, DeleteClaim, ClaimRecords
  <1>7. CASE CreateOrigPVC /\ c = CurOrig
    <2>1. s = vr.cur
      BY <1>2, <1>7 DEF CurOrig
    <2>2. CASE UNCHANGED pvc
      BY <1>3, <2>2
    <2>3. CASE /\ pvc[CurOrig].st = "absent"
               /\ pvc' = [pvc EXCEPT ![CurOrig] =
                            [st |-> "pending", term |-> FALSE, pv |-> run.newPV]]
               /\ run' = [run EXCEPT !.pc = "persistCompleted", !.mem = "Completed"]
      BY <1>1, <1>7, <2>1, <2>3 DEF RunRecords
    <2> QED
      BY <1>7, <2>2, <2>3 DEF CreateOrigPVC
  <1>8. c # CurTemp \/ ~ (CreateTempPVC \/ DeleteTempPVC)
    BY <1>2, OnCursor DEF CurTemp, CreateTempPVC, DeleteTempPVC, At, RunOfSyncing,
       SyncSteps, ReplaceSteps
  <1> QED
    BY <1>1, <1>3, <1>4, <1>5, <1>6, <1>7, <1>8, ClaimChange

(* A migration that will not swap a claim any more. *)
Over == \/ ~ vr.exists
        \/ vr.phase = "Failed"
        \/ run.pc = "setFailed"
        \/ vr.deleting /\ run.pc \in {"idle"} \cup DeletionSteps

(* A migration that is over stays so. *)
LEMMA OverForGood ==
    ASSUME NotCutShort, TypeInv, CycleInv, Over, [Next]_vars
    PROVE  Over'
  <1>1. ~ ApiError /\ ~ Crash
    BY DEF NotCutShort, ApiError, Crash
  <1>2. vr \in VRRecords /\ run \in RunRecords
    BY ControllerTyped
  <1>3. CASE ~ vr.exists
    BY <1>2, <1>3, MetaChange DEF RemoveFinalizer, UserDelete, VRRecords, Over
  <1>4. CASE vr.phase = "Failed"
    BY <1>4, MetaChange, AdvanceSteps DEF HandlePending, HandleValidating, HandleReplacing,
       CanReconcile, Returns, Over
  <1>5. CASE run.pc = "setFailed"
    <2>1. CASE run' = run
      BY <1>5, <2>1 DEF Over
    <2>2. CASE run' # run
      <3>1. SetFailed
        BY <1>1, <1>5, <2>2, RunFrom
      <3>2. CASE vr.deleting
        BY <3>1, <3>2 DEF SetFailed, WriteVR, Return, Idle, Over
      <3>3. CASE ~ vr.deleting
        <4>1. vr' = SetSlot([vr EXCEPT !.phase = "Failed"], vr.cur, run.mem)
          BY <3>1, <3>3 DEF SetFailed, WriteVR
        <4>2. [vr EXCEPT !.phase = "Failed"] \in VRRecords
              /\ [vr EXCEPT !.phase = "Failed"].phase = "Failed"
          BY <1>2 DEF VRRecords, Phases
        <4> QED
          BY <4>1, <4>2, SetSlotIs, ControllerTyped DEF SetSlot, Over
      <3> QED
        BY <3>2, <3>3
    <2> QED
      BY <2>1, <2>2
  <1>6. CASE vr.exists /\ vr.deleting /\ run.pc \in {"idle"} \cup DeletionSteps
    <2>1. vr'.deleting
      BY <1>2, <1>6, MetaChange DEF UserDelete, VRRecords
    <2>2. run'.pc \in {"idle", "setFailed"} \cup DeletionSteps
      <3>1. run'.pc # "createTempPVC" \/ run.pc # "idle"
        <4> SUFFICES ASSUME run.pc = "idle", run'.pc = "createTempPVC"
                     PROVE  FALSE
          OBVIOUS
        <4>1. GetOriginalPVC
          BY <1>1, RunFrom DEF HandleValidating, BeginDeletion, Begin
        <4> QED
          BY <1>6, <4>1 DEF GetOriginalPVC, CanReconcile
      <3> QED
        BY <1>6, <3>1, RunPath DEF Path, Flow, DeletionSteps
    <2> QED
      BY <2>1, <2>2 DEF Over
  <1> QED
    BY <1>3, <1>4, <1>5, <1>6 DEF Over

(* A run that still migrates is not that of a migration that is over. *)
LEMMA NotOver ==
    ASSUME TypeInv, CycleInv, run.pc \in RunOfSyncing
    PROVE  ~ Over
  BY OnCursor, StepSets
  DEF Over, CycleInv, RunInv, RunOfSyncing, SyncSteps, ReplaceSteps, ReturnSteps,
      DeletionSteps

(* The claim of a slot is on its new volume when the slot is done and, but for
   a migration that is over, only then; it is never told to go again; and while
   it is away, or on its way out, the StatefulSet is away and cannot make
   another one. *)
Done(s)  == vr.vs[s] = "Completed" \/ (run.pc = "persistCompleted" /\ vr.cur = s)
Moved(s) == pvc[orig(s)].st # "absent" /\ pvc[orig(s)].pv # InitPV[s]
Lost(s)  == pvc[orig(s)].st = "absent" \/ pvc[orig(s)].term
ClaimInv ==
    \A s \in Slots :
        /\ Moved(s) => Done(s) \/ Over
        /\ Done(s) => Moved(s)
        /\ Moved(s) => ~ pvc[orig(s)].term
        /\ Lost(s) => ~ sts /\ vr.cur = s /\ (run.pc \in {"waitOrig", "createOrig"} \/ Over)

(* A slot that is done stays so, and is done by CreateOrigPVC. *)
LEMMA DoneSteps ==
    ASSUME NotCutShort, Replicas # 0,
           TypeInv, CycleInv, [Next]_vars, NEW s \in Slots
    PROVE  /\ Done(s) => Done(s)' \/ Over'
           /\ Done(s)' => \/ Done(s)
                          \/ CreateOrigPVC /\ s = vr.cur /\ run'.pc = "persistCompleted"
  <1>1. ~ ApiError /\ ~ Crash
    BY DEF NotCutShort, ApiError, Crash
  <1>2. CASE vr.vs[s] = "Completed"
    BY <1>2, SlotChange DEF Done
  <1>3. CASE run.pc = "persistCompleted" /\ vr.cur = s
    <2>1. CASE run' = run
      BY <1>3, <2>1, SlotOfRun DEF Done, RunOfSyncing, ReturnSteps
    <2>2. CASE run' # run
      <3>1. PersistCompleted
        BY <1>1, <1>3, <2>2, RunFrom
      <3>2. CASE vr.deleting
        <4>1. run'.pc = "idle" /\ vr' = vr
          BY <3>1, <3>2 DEF PersistCompleted, WriteVR, Return, Idle
        <4> QED
          BY <1>3, <3>2, <4>1 DEF Over, Done
      <3>3. CASE ~ vr.deleting
        <4>1. run'.pc = "recreateSTS"
          BY <3>1, <3>3, ControllerTyped DEF PersistCompleted, WriteVR, Goto, RunRecords
        <4>2. ~ Returns
          BY <4>1 DEF Returns, Idle
        <4>3. vr'.vs[s] = IF Stored # "none" THEN run.mem ELSE vr.vs[s]
          BY <1>3, <3>1, <4>2, SlotWrites, SlotWritten DEF RunOfSyncing, ReturnSteps
        <4>4. Stored # "none" /\ run.mem = "Completed"
          <5>1. vr.phase = "Syncing"
            BY <1>3, OnCursor DEF RunOfSyncing, ReturnSteps
          <5>2. Stored # "none"
            BY <5>1, StoredIs
          <5> QED
            BY <1>3, <5>2 DEF CycleInv, MemInv
        <4> QED
          BY <1>3, <4>3, <4>4 DEF Done
      <3> QED
        BY <3>2, <3>3
    <2> QED
      BY <1>3, <2>1, <2>2 DEF Done
  <1>4. ASSUME Done(s)', ~ Done(s)
        PROVE  CreateOrigPVC /\ s = vr.cur /\ run'.pc = "persistCompleted"
    <2>1. vr'.vs[s] # "Completed"
      BY <1>4, SlotChange DEF Done, PersistCompleted, At
    <2>2. run'.pc = "persistCompleted" /\ vr'.cur = s
      BY <1>4, <2>1 DEF Done
    <2>3. run.pc \in {"createOrig", "persistCompleted"}
      BY <2>2, RunPath DEF Path, Flow
    <2>4. vr'.cur = vr.cur
      BY <2>2, <2>3, SlotOfRun DEF RunOfSyncing, ReplaceSteps, ReturnSteps
    <2>5. run.pc = "createOrig" /\ run' # run
      BY <1>4, <2>2, <2>3, <2>4 DEF Done
    <2> QED
      BY <1>1, <2>2, <2>4, <2>5, RunFrom
  <1> QED
    BY <1>2, <1>3, <1>4 DEF Done

(* The claim that is away is waited for, unless the migration is over. *)
LEMMA LostStays ==
    ASSUME NotCutShort,
           TypeInv, CycleInv, [Next]_vars, NEW s \in Slots,
           ~ sts, vr.cur = s, run.pc \in {"waitOrig", "createOrig"} \/ Over
    PROVE  /\ ~ sts' /\ vr'.cur = s
           /\ \/ run'.pc \in {"waitOrig", "createOrig"} \/ Over'
              \/ CreateOrigPVC /\ run'.pc = "persistCompleted"
  <1> USE DEF RunOfSyncing, SyncSteps, ReplaceSteps, ReturnSteps
  <1>1. ~ ApiError /\ ~ Crash
    BY DEF NotCutShort, ApiError, Crash
  <1>2. run.pc # "recreateSTS"
    BY NotOver
  <1>3. ~ sts'
    BY <1>2, StsMoves
  <1>4. vr'.cur = s
    <2>1. ~ (AdvanceCompleted \/ CheckPodAndAdvance) \/ vr.deleting
      BY NotOver DEF AdvanceCompleted, CheckPodAndAdvance, CanReconcile, At, Over
    <2> QED
      BY <2>1, SlotChange, ControllerTyped
  <1>5. CASE Over
    BY <1>3, <1>4, <1>5, OverForGood
  <1>6. CASE run.pc \in {"waitOrig", "createOrig"}
    <2>1. run' # run => WaitOrigGone \/ CreateOrigPVC
      BY <1>1, <1>6, RunFrom
    <2>2. \/ run'.pc \in {"waitOrig", "createOrig", "setFailed"}
          \/ CreateOrigPVC /\ run'.pc = "persistCompleted"
      BY <1>6, <2>1, ControllerTyped
      DEF WaitOrigGone, WaitClaimGone, CreateOrigPVC, Goto, Fail, RunRecords
    <2> QED
      BY <1>3, <1>4, <2>2 DEF Over
  <1> QED
    BY <1>5, <1>6

(* Every step keeps ClaimInv. *)
LEMMA ClaimStep ==
    ASSUME NotCutShort, Replicas # 0,
           TypeInv, RetentionInv, CycleInv, StsInv, ClaimInv, [Next]_vars
    PROVE  ClaimInv'
  <1> SUFFICES ASSUME NEW s \in Slots
               PROVE  /\ Moved(s)' => Done(s)' \/ Over'
                      /\ Done(s)' => Moved(s)'
                      /\ Moved(s)' => ~ pvc'[orig(s)].term
                      /\ Lost(s)' => /\ ~ sts' /\ vr'.cur = s
                                     /\ run'.pc \in {"waitOrig", "createOrig"} \/ Over'
    BY DEF ClaimInv
  <1> DEFINE old == pvc[orig(s)]
             new == pvc'[orig(s)]
  <1>1. /\ Moved(s) <=> old.st # "absent" /\ old.pv # InitPV[s]
        /\ Moved(s)' <=> new.st # "absent" /\ new.pv # InitPV[s]
        /\ Lost(s) <=> old.st = "absent" \/ old.term
        /\ Lost(s)' <=> new.st = "absent" \/ new.term
    BY DEF Moved, Lost, orig
  <1>2. /\ Moved(s) => Done(s) \/ Over
        /\ Done(s) => Moved(s)
        /\ Moved(s) => ~ old.term
        /\ Lost(s) => ~ sts /\ vr.cur = s /\ (run.pc \in {"waitOrig", "createOrig"} \/ Over)
    BY DEF ClaimInv
  <1>3. Done(s) \/ Over => Done(s)' \/ Over'
    BY DoneSteps, OverForGood
  <1>4. Done(s)' => \/ Done(s)
                    \/ CreateOrigPVC /\ s = vr.cur /\ run'.pc = "persistCompleted"
    BY DoneSteps
  <1>5. CreateOrigPVC /\ s = vr.cur /\ run'.pc = "persistCompleted"
          => old.st = "absent" /\ new = [st |-> "pending", term |-> FALSE, pv |-> run.newPV]
    <2>1. orig(s) \in Claims /\ pvc \in [Claims -> ClaimRecords] /\ run \in RunRecords
      BY SlotShape, ControllerTyped DEF TypeInv, TypeOK, ClusterTypeOK
    <2> QED
      BY <2>1 DEF CreateOrigPVC, CurOrig, Fail, Goto, RunRecords
  <1>6. Lost(s) => \/ /\ ~ sts' /\ vr'.cur = s
                      /\ run'.pc \in {"waitOrig", "createOrig"} \/ Over'
                   \/ CreateOrigPVC /\ s = vr.cur /\ run'.pc = "persistCompleted"
    BY <1>2, LostStays
  <1> HIDE DEF old, new
  <1>7. CASE /\ new.st = "absent" <=> old.st = "absent"
             /\ new.term = old.term
             /\ new.pv = InitPV[s] <=> old.pv = InitPV[s]
    <2>1. ~ (CreateOrigPVC /\ s = vr.cur /\ run'.pc = "persistCompleted")
      BY <1>5, <1>7
    <2>2. (Moved(s)' <=> Moved(s)) /\ (Lost(s)' <=> Lost(s))
      BY <1>1, <1>7
    <2>3. Moved(s)' => ~ new.term
      BY <1>2, <1>7, <2>2
    <2> QED
      BY <1>2, <1>3, <1>4, <1>6, <2>1, <2>2, <2>3 DEF new
  <1>8. CASE old.term /\ new = NoClaim /\ UNCHANGED <<vr, run>>
    <2>1. new.st = "absent" /\ Lost(s) /\ ~ Moved(s) /\ ~ Done(s)
      BY <1>1, <1>2, <1>8 DEF NoClaim
    <2>2. ~ (CreateOrigPVC /\ run'.pc = "persistCompleted")
      BY <1>8 DEF CreateOrigPVC, At
    <2> QED
      BY <1>1, <1>4, <1>6, <2>1, <2>2
  <1>9. CASE sts /\ old.st = "absent"
    BY <1>1, <1>2, <1>9
  <1>10. CASE /\ DeleteOrigPVC /\ s = vr.cur /\ new.st = old.st /\ new.pv = old.pv
              /\ new.term = (old.st # "absent")
    <2>1. run.pc = "deleteOrig" /\ run'.pc = "waitOrig" /\ vr' = vr /\ sts' = sts
      BY <1>10, RunGoesTo DEF DeleteOrigPVC, At
    <2>2. ~ sts /\ ~ Over /\ ~ Done(s)
      BY <1>10, <2>1, NotOver, ControllerTyped
      DEF StsInv, Away, ReplaceSteps, RunOfSyncing, CycleInv, MemInv, Stored, Done
    <2>3. ~ Moved(s)' /\ ~ Done(s)'
      BY <1>1, <1>2, <1>4, <1>10, <2>1, <2>2
    <2> QED
      BY <1>10, <2>1, <2>2, <2>3
  <1>11. CASE /\ CreateOrigPVC /\ s = vr.cur /\ old.st = "absent"
              /\ new = [st |-> "pending", term |-> FALSE, pv |-> run.newPV]
              /\ run.newPV # InitPV[s]
              /\ run'.pc = "persistCompleted"
    <2>1. new.st # "absent" /\ new.pv # InitPV[s] /\ ~ new.term
      BY <1>11
    <2>2. vr' = vr
      BY <1>11 DEF CreateOrigPVC
    <2> QED
      BY <1>1, <1>11, <2>1, <2>2 DEF Done, new
  <1> QED
    BY <1>7, <1>8, <1>9, <1>10, <1>11, OrigChange DEF old, new

(* ClaimInv holds at the start. *)
LEMMA ClaimInit == Init => ClaimInv
  <1> SUFFICES ASSUME Init, NEW s \in Slots
               PROVE  /\ ~ Moved(s) /\ ~ Lost(s) /\ ~ Done(s)
    BY DEF ClaimInv
  <1>1. orig(s) \in Claims /\ orig(s)[1] = s /\ orig(s)[2] = "orig"
    BY SlotShape DEF orig
  <1>2. pvc[orig(s)] = [st |-> "bound", term |-> FALSE, pv |-> InitPV[s]]
    BY <1>1 DEF Init, ClusterInit
  <1>3. run.pc = "idle" /\ vr.vs[s] = "none"
    BY DEF Init, Idle
  <1> QED
    BY <1>2, <1>3 DEF Moved, Lost, Done

(* ClaimInv holds in every reachable state. *)
LEMMA ClaimAlways ==
    ASSUME "api" \notin Faults, "crash" \notin Faults, Replicas # 0
    PROVE  Spec => [](SwapInv /\ RetentionInv /\ ClaimInv)
  <1>1. SwapInv /\ RetentionInv /\ ClaimInv /\ [Next]_vars => ClaimInv'
    BY ClaimStep, NeverCutShort DEF SwapInv
  <1> QED
    BY <1>1, ClaimInit, SwapAlways, RetentionAlways, PTL DEF Spec

(* A temporary claim is only ever made by a run about its slot. *)
LEMMA TempMade ==
    ASSUME TypeInv, [Next]_vars, NEW s \in Slots,
           pvc[temp(s)].st = "absent", pvc'[temp(s)].st # "absent"
    PROVE  CreateTempPVC /\ s = vr.cur
  <1> DEFINE c == temp(s)
  <1>1. /\ c \in Claims /\ c[2] = "temp" /\ run.pc = "createTempPVC"
        /\ pvc \in [Claims -> ClaimRecords]
        /\ pvc[c].st = "absent" /\ pvc'[c].st # "absent"
        /\ CurTemp = c => s = vr.cur
    BY SlotShape, TempsStayGone, OnCursor
    DEF temp, CurTemp, TypeInv, TypeOK, ClusterTypeOK, RunOfSyncing, SyncSteps
  <1> HIDE DEF c
  <1>2. ~ VolumeStep(c)
    BY <1>1 DEF VolumeStep, Provision, BindAvailable, BindNamed, PvcGone, Unbound,
       NoClaim
  <1> QED
    BY <1>1, <1>2, ClaimChange DEF DeleteTempPVC, DeleteOrigPVC, CreateOrigPVC,
       DeleteTempPVCs, At

(* Once the claim of a slot names its new volume no run starts on that slot
   again, so the data that was moved is not moved once more, from the volume
   that was the target.  (Without replicas there is no status to record the slot
   in, and the claim of replica 0 is migrated over and over.) *)
THEOREM MigratedOnce ==
    ASSUME "api" \notin Faults, "crash" \notin Faults, Replicas # 0
    PROVE  Spec => NoSecondMigration
  <1>1. ASSUME SwapInv, ClaimInv, [Next]_vars, NEW s \in Slots,
               pvc[temp(s)].st = "absent", pvc'[temp(s)].st # "absent"
        PROVE  pvc[orig(s)].pv = InitPV[s]
    <2>1. CreateTempPVC /\ s = vr.cur /\ run.pc = "createTempPVC"
      BY <1>1, TempMade DEF SwapInv, CreateTempPVC, At
    <2>2. ~ Over /\ ~ Done(s)
      BY <1>1, <2>1, NotOver, ControllerTyped
      DEF SwapInv, CycleInv, MemInv, Stored, Done, RunOfSyncing, SyncSteps
    <2>3. ~ Moved(s) /\ ~ Lost(s)
      BY <1>1, <2>1, <2>2 DEF ClaimInv
    <2> QED
      BY <2>3 DEF Moved, Lost
  <1>2. SwapInv /\ ClaimInv /\ [Next]_vars =>
          [\A s \in Slots :
              pvc[temp(s)].st = "absent" /\ pvc'[temp(s)].st # "absent"
                 => pvc[orig(s)].pv = InitPV[s]]_vars
    BY <1>1
  <1> QED
    BY <1>2, ClaimAlways, PTL DEF Spec, NoSecondMigration
=============================================================================
