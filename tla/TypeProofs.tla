------------------------------ MODULE TypeProofs ------------------------------
(***************************************************************************)
(* Type correctness of the operator and its cluster for every number of    *)
(* replicas, volumes and faults.  The inductive invariant TypeInv adds two *)
(* facts to the types: a run of handleSyncing has a slot to work on        *)
(* (CursorOK), and what a pod mounts is a bound claim with a volume        *)
(* (MountedOK), so that no write and no copy ever goes to volume 0.        *)
(***************************************************************************)
EXTENDS MigrationProperties, TLAPS

(* Slots, their claims and the values that stand for none are all different. *)
LEMMA SlotShape ==
    ASSUME NEW s \in Slots
    PROVE  /\ orig(s) \in Claims /\ temp(s) \in Claims
           /\ orig(s) # Unclaimed /\ temp(s) # Unclaimed
           /\ s # NoSlot
           /\ s[1] \in Ordinals /\ s[1] \in Nat
           /\ \A t \in Slots : orig(s) # temp(t)
           /\ \A t \in Slots : orig(s) = orig(t) => s = t
           /\ \A t \in Slots : temp(s) = temp(t) => s = t
  BY SizeAssumption DEF Slots, Claims, orig, temp, Unclaimed, NoSlot, Ordinals

(* A numbered write of a slot is a write. *)
LEMMA WriteShape ==
    ASSUME NEW s \in Slots, NEW n \in 1 .. MaxWrites
    PROVE  <<s, n>> \in Writes
  BY DEF Writes

(* getNextVolumeReplica names a slot of the StatefulSet or none. *)
LEMMA NextSlotType ==
    ASSUME TypeOK, NEW s \in Slots
    PROVE  NextSlot(s) \in Slots \cup {NoSlot}
  BY SizeAssumption DEF NextSlot, HigherReplica, Slots, Ordinals, TypeOK, ControllerTypeOK

-----------------------------------------------------------------------------
(* Types. *)

TypeInv == TypeOK /\ CursorOK /\ MountedOK

(* The budget of faults is kept. *)
LEMMA FaultType ==
    ASSUME faults \in 0 .. MaxFaults, NEW kind, Fault(kind)
    PROVE  faults' \in 0 .. MaxFaults
  BY SizeAssumption DEF Fault

(* What the invariant says of one claim. *)
LEMMA ClaimTyped ==
    ASSUME TypeInv, NEW c \in Claims
    PROVE  /\ pvc[c] \in ClaimRecords
           /\ pvc[c].pv # NoPV => pvc[c].pv \in PVs
           /\ Mounted(c) => pvc[c].st = "bound"
           /\ pvc[c].st = "bound" => pvc[c].pv \in PVs
  BY DEF TypeInv, TypeOK, ClusterTypeOK, MountedOK, ClaimRecords

(* What the invariant says of one volume. *)
LEMMA PVTyped ==
    ASSUME TypeInv, NEW p \in PVs
    PROVE  /\ pv[p] \in PVRecords
           /\ pv[p].data \subseteq Writes
  BY DEF TypeInv, TypeOK, ClusterTypeOK, PVRecords

(* The volumes of the initial state are typed. *)
LEMMA InitialVolumeType ==
    ASSUME NEW p \in PVs
    PROVE  InitialVolume(p) \in PVRecords
  <1>1. CASE \E s \in Slots : InitPV[s] = p
    <2> DEFINE s == CHOOSE t \in Slots : InitPV[t] = p
    <2>1. s \in Slots
      BY <1>1
    <2>2. orig(s) \in Claims
      BY <2>1, SlotShape
    <2>3. 1 \in 1 .. MaxWrites
      BY SizeAssumption
    <2>4. <<s, 1>> \in Writes
      BY <2>1, <2>3, WriteShape
    <2>5. InitialVolume(p) = [st |-> "live", policy |-> "Delete",
                              claim |-> orig(s), data |-> {<<s, 1>>}]
      BY <1>1 DEF InitialVolume, PVRecords
    <2> QED
      BY <2>2, <2>4, <2>5 DEF PVRecords
  <1>2. CASE ~ \E s \in Slots : InitPV[s] = p
    BY <1>2 DEF InitialVolume, PVRecords
  <1> QED
    BY <1>1, <1>2

(* The invariant holds initially. *)
LEMMA TypeInit == Init => TypeInv
  <1> SUFFICES ASSUME Init PROVE TypeInv
    OBVIOUS
  <1>1. ClusterTypeOK
    <2>1. pv \in [PVs -> PVRecords]
      BY InitialVolumeType DEF Init, ClusterInit
    <2>2. pvc \in [Claims -> ClaimRecords]
      BY InitPVAssumption DEF Init, ClusterInit, NoClaim, Claims, ClaimRecords
    <2>3. mig \in [Slots -> MigRecords]
      BY DEF Init, ClusterInit, NoMig, MigStates, MigRecords
    <2>4. pod \in [Ordinals -> PodStates]
      BY DEF Init, ClusterInit, PodStates
    <2>5. acked \in [Slots -> 0 .. MaxWrites] /\ faults \in 0 .. MaxFaults
      BY SizeAssumption DEF Init, ClusterInit
    <2>6. sts \in BOOLEAN /\ backup \in BOOLEAN
      BY DEF Init, ClusterInit
    <2> QED
      BY <2>1, <2>2, <2>3, <2>4, <2>5, <2>6 DEF ClusterTypeOK
  <1>2. ControllerTypeOK
    <2>1. PICK ph \in InitPhases, req \in Requests :
             vr = [exists |-> TRUE, deleting |-> FALSE, finalizer |-> FALSE,
                   phase |-> ph, cur |-> NoSlot, vs |-> [s \in Slots |-> "none"],
                   stsDeleted |-> FALSE, backupName |-> FALSE, request |-> req]
      BY DEF Init
    <2>2. ph \in Phases
      BY ControllerAssumption DEF Phases
    <2>3. [s \in Slots |-> "none"] \in [Slots -> SlotPhases]
      BY DEF SlotPhases
    <2>4. run \in RunRecords
      BY DEF Init, Idle, Steps, SlotPhases, RunRecords
    <2> QED
      BY <2>1, <2>2, <2>3, <2>4 DEF ControllerTypeOK, VRRecords
  <1>3. CursorOK
    BY ControllerAssumption
    DEF Init, CursorOK, RunOfSyncing, SyncSteps, ReplaceSteps, ReturnSteps, Idle
  <1>4. MountedOK
    <2>1. \A c \in Claims : Mounted(c) => c[2] = "orig"
      BY DEF Init, ClusterInit, Mounted, NoMig, Claims
    <2>2. \A c \in Claims : c[2] = "orig" => pvc[c].st = "bound"
      BY DEF Init, ClusterInit
    <2>3. \A c \in Claims : pvc[c].st = "bound" => pvc[c].pv # NoPV
      BY InitPVAssumption DEF Init, ClusterInit, NoClaim, Claims, PVs, NoPV
    <2> QED
      BY <2>1, <2>2, <2>3 DEF MountedOK
  <1> QED
    BY <1>1, <1>2, <1>3, <1>4 DEF TypeInv, TypeOK

(* The steps of pods, application and StatefulSet controller keep the types. *)
LEMMA TypePodStep ==
    ASSUME TypeInv, NEW r \in Ordinals, PodStep(r), UNCHANGED <<vr, run>>
    PROVE  TypeInv'
  <1> USE DEF TypeInv, TypeOK
  <1>1. CASE StsReconcile(r)
    <2>1. pvc' \in [Claims -> ClaimRecords]
      BY <1>1, ClaimTyped DEF StsReconcile, ClusterTypeOK, ClaimRecords
    <2>2. pod' \in [Ordinals -> PodStates]
      BY <1>1 DEF StsReconcile, ClusterTypeOK, PodStates
    <2>3. ClusterTypeOK'
      BY <1>1, <2>1, <2>2 DEF StsReconcile, ClusterTypeOK
    <2>4. \A c \in Claims : Mounted(c)' => Mounted(c)
      BY <1>1 DEF StsReconcile, ClusterTypeOK, Mounted, Claims, Slots
    <2>5. \A c \in Claims : (pvc[c].st = "bound" \/ pvc'[c].st = "bound") => pvc'[c] = pvc[c]
      BY <1>1 DEF StsReconcile
    <2> QED
      BY <1>1, <2>3, <2>4, <2>5 DEF ControllerTypeOK, CursorOK, MountedOK
  <1>2. CASE PodStart(r)
    <2>1. ClusterTypeOK'
      BY <1>2 DEF PodStart, ClusterTypeOK, PodStates
    <2>2. ASSUME NEW c \in Claims, Mounted(c)'
          PROVE  Mounted(c) \/ pvc[c].st = "bound"
      <3>1. PICK s \in Slots : c = orig(s) \/ c = temp(s)
        BY DEF Claims, orig, temp
      <3>2. CASE c = temp(s)
        BY <1>2, <2>2, <3>2 DEF PodStart, Mounted, temp
      <3>3. CASE c = orig(s) /\ s[1] # r
        BY <1>2, <2>2, <3>3, SlotShape DEF PodStart, Mounted, orig, ClusterTypeOK
      <3>4. CASE c = orig(s) /\ s[1] = r
        BY <1>2, <3>4 DEF PodStart, orig, Slots
      <3> QED
        BY <3>1, <3>2, <3>3, <3>4
    <2> QED
      BY <1>2, <2>1, <2>2 DEF PodStart, ControllerTypeOK, CursorOK, MountedOK
  <1>3. CASE PodGone(r)
    <2>1. ClusterTypeOK'
      BY <1>3 DEF PodGone, ClusterTypeOK, PodStates
    <2>2. \A c \in Claims : Mounted(c)' => Mounted(c)
      BY <1>3 DEF PodGone, ClusterTypeOK, Mounted, Claims, Slots
    <2> QED
      BY <1>3, <2>1, <2>2 DEF PodGone, ControllerTypeOK, CursorOK, MountedOK
  <1>4. CASE PodEvicted(r)
    <2>1. ClusterTypeOK'
      BY <1>4, FaultType DEF PodEvicted, ClusterTypeOK, PodStates
    <2>2. \A c \in Claims : Mounted(c)' => Mounted(c)
      BY <1>4 DEF PodEvicted, ClusterTypeOK, Mounted, Claims, Slots
    <2> QED
      BY <1>4, <2>1, <2>2 DEF PodEvicted, ControllerTypeOK, CursorOK, MountedOK
  <1> QED
    BY <1>1, <1>2, <1>3, <1>4 DEF PodStep

(* The application's writes keep the types. *)
LEMMA TypeAppWrite ==
    ASSUME TypeInv, NEW s \in Slots, AppWrite(s), UNCHANGED <<vr, run>>
    PROVE  TypeInv'
  <1> DEFINE p == pvc[orig(s)].pv
             n == acked[s] + 1
  <1>1. Mounted(orig(s))
    BY SlotShape DEF AppWrite, Mounted, orig
  <1>2. p \in PVs
    BY <1>1, SlotShape, ClaimTyped
  <1>3. n \in 1 .. MaxWrites
    BY SizeAssumption DEF AppWrite, TypeInv, TypeOK, ClusterTypeOK
  <1>4. [pv[p] EXCEPT !.data = @ \cup {<<s, n>>}] \in PVRecords
    BY <1>2, <1>3, WriteShape, PVTyped DEF PVRecords
  <1>5. pv' = [pv EXCEPT ![p] = [pv[p] EXCEPT !.data = @ \cup {<<s, n>>}]]
    BY <1>2 DEF AppWrite, TypeInv, TypeOK, ClusterTypeOK
  <1>6. pv' \in [PVs -> PVRecords]
    BY <1>2, <1>4, <1>5 DEF TypeInv, TypeOK, ClusterTypeOK
  <1>7. acked' \in [Slots -> 0 .. MaxWrites]
    BY <1>3, SizeAssumption DEF AppWrite, TypeInv, TypeOK, ClusterTypeOK
  <1>8. ClusterTypeOK'
    BY <1>6, <1>7 DEF AppWrite, TypeInv, TypeOK, ClusterTypeOK
  <1> QED
    BY <1>8 DEF AppWrite, TypeInv, TypeOK, ControllerTypeOK, CursorOK, MountedOK, Mounted

(* A claim that is not bound gets a volume: what Provision, BindAvailable and
   BindNamed have in common. *)
LEMMA BindToType ==
    ASSUME TypeInv, NEW c \in Claims, NEW p \in PVs, BindTo(c, p)
    PROVE  /\ pvc' \in [Claims -> ClaimRecords]
           /\ \A d \in Claims : pvc[d].st = "bound" => pvc'[d].st = "bound"
           /\ \A d \in Claims : pvc'[d].st = "bound" => pvc'[d].pv # NoPV
  <1>1. [pvc[c] EXCEPT !.st = "bound", !.pv = p] \in ClaimRecords
    BY ClaimTyped DEF ClaimRecords
  <1>2. pvc' = [pvc EXCEPT ![c] = [pvc[c] EXCEPT !.st = "bound", !.pv = p]]
    BY DEF BindTo, TypeInv, TypeOK, ClusterTypeOK
  <1>3. pvc'[c].st = "bound" /\ pvc'[c].pv = p
    BY <1>2, ClaimTyped DEF TypeInv, TypeOK, ClusterTypeOK, ClaimRecords
  <1>4. p # NoPV
    BY SizeAssumption DEF PVs, NoPV
  <1>5. \A d \in Claims : d # c => pvc'[d] = pvc[d]
    BY <1>2 DEF TypeInv, TypeOK, ClusterTypeOK
  <1> QED
    BY <1>1, <1>2, <1>3, <1>4, <1>5 DEF TypeInv, TypeOK, ClusterTypeOK, MountedOK

(* The steps of the volume controllers keep the types. *)
LEMMA TypeVolumeStep ==
    ASSUME TypeInv, NEW c \in Claims, VolumeStep(c), UNCHANGED <<vr, run>>
    PROVE  TypeInv'
  <1> USE DEF TypeInv, TypeOK
  <1>1. ASSUME NEW p \in PVs, BindTo(c, p), pv' \in [PVs -> PVRecords],
               UNCHANGED <<sts, backup, pod, mig, acked, faults>>
        PROVE  TypeInv'
    <2>1. ClusterTypeOK'
      BY <1>1, BindToType DEF ClusterTypeOK
    <2>2. \A d \in Claims : Mounted(d)' => Mounted(d)
      BY <1>1 DEF Mounted
    <2> QED
      BY <1>1, <2>1, <2>2, BindToType DEF ControllerTypeOK, CursorOK, MountedOK
  <1>2. CASE Provision(c)
    <2>1. PICK p \in PVs :
             /\ BindTo(c, p)
             /\ pv' = [pv EXCEPT ![p] = [st |-> "live", policy |-> "Delete",
                                         claim |-> c, data |-> {}]]
      BY <1>2 DEF Provision
    <2>2. pv' \in [PVs -> PVRecords]
      BY <2>1 DEF ClusterTypeOK, PVRecords
    <2> QED
      BY <1>1, <1>2, <2>1, <2>2 DEF Provision
  <1>3. CASE BindAvailable(c)
    <2>1. PICK p \in PVs : BindTo(c, p) /\ pv' = [pv EXCEPT ![p].claim = c]
      BY <1>3 DEF BindAvailable
    <2>2. pv' \in [PVs -> PVRecords]
      BY <2>1, PVTyped DEF ClusterTypeOK, PVRecords
    <2> QED
      BY <1>1, <1>3, <2>1, <2>2 DEF BindAvailable
  <1>4. CASE BindNamed(c)
    <2> DEFINE p == pvc[c].pv
    <2>1. p \in PVs /\ BindTo(c, p) /\ pv' = [pv EXCEPT ![p].claim = c]
      BY <1>4, ClaimTyped DEF BindNamed
    <2>2. pv' \in [PVs -> PVRecords]
      BY <2>1, PVTyped DEF ClusterTypeOK, PVRecords
    <2> QED
      BY <1>1, <1>4, <2>1, <2>2 DEF BindNamed
  <1>5. CASE PvcGone(c)
    <2>1. NoClaim \in ClaimRecords
      BY DEF NoClaim, ClaimRecords
    <2>2. pvc' \in [Claims -> ClaimRecords]
      BY <1>5, <2>1 DEF PvcGone, ClusterTypeOK
    <2>3. \A d \in Claims : Mounted(d)' <=> Mounted(d)
      BY <1>5 DEF PvcGone, Mounted
    <2>4. \A d \in Claims : d # c => pvc'[d] = pvc[d]
      BY <1>5 DEF PvcGone, ClusterTypeOK
    <2>5. pvc'[c] = NoClaim /\ ~ Mounted(c)
      BY <1>5 DEF PvcGone, ClusterTypeOK
    <2>6. MountedOK'
      BY <2>3, <2>4, <2>5 DEF MountedOK, NoClaim
    <2> QED
      BY <1>5, <2>2, <2>6 DEF PvcGone, ClusterTypeOK, ControllerTypeOK, CursorOK
  <1> QED
    BY <1>2, <1>3, <1>4, <1>5 DEF VolumeStep

(* The deletion of a released volume keeps the types. *)
LEMMA TypeReclaimPV ==
    ASSUME TypeInv, NEW p \in PVs, ReclaimPV(p), UNCHANGED <<vr, run>>
    PROVE  TypeInv'
  <1>1. [pv[p] EXCEPT !.st = "deleted"] \in PVRecords
    BY PVTyped DEF PVRecords
  <1>2. pv' \in [PVs -> PVRecords]
    BY <1>1 DEF ReclaimPV, TypeInv, TypeOK, ClusterTypeOK
  <1> QED
    BY <1>2 DEF ReclaimPV, TypeInv, TypeOK, ClusterTypeOK, ControllerTypeOK,
                CursorOK, MountedOK, Mounted

(* A migrator pod may change as it likes as long as it runs only on bound
   claims. *)
LEMMA MigUpdate ==
    ASSUME TypeInv, NEW s \in Slots, NEW rec \in MigRecords,
           mig' = [mig EXCEPT ![s] = rec],
           rec.st = "running" =>
               \/ mig[s].st = "running"
               \/ pvc[orig(s)].st = "bound" /\ pvc[temp(s)].st = "bound",
           pv' \in [PVs -> PVRecords], faults' \in 0 .. MaxFaults,
           UNCHANGED <<sts, backup, pod, pvc, acked, vr, run>>
    PROVE  TypeInv'
  <1>1. ClusterTypeOK'
    BY DEF TypeInv, TypeOK, ClusterTypeOK
  <1>2. ASSUME NEW c \in Claims, Mounted(c)'
        PROVE  pvc[c].st = "bound"
    <2>1. PICK t \in Slots : c[1] = t /\ (c = orig(t) \/ c = temp(t))
      BY DEF Claims, orig, temp
    <2>2. CASE Mounted(c)
      BY <2>2 DEF TypeInv, MountedOK
    <2>3. CASE ~ Mounted(c)
      <3>1. mig'[t].st = "running" /\ mig[t].st # "running"
        BY <1>2, <2>1, <2>3 DEF Mounted
      <3>2. t = s
        BY <3>1 DEF TypeInv, TypeOK, ClusterTypeOK
      <3>3. rec.st = "running"
        BY <3>1, <3>2 DEF TypeInv, TypeOK, ClusterTypeOK
      <3> QED
        BY <2>1, <3>1, <3>2, <3>3
    <2> QED
      BY <2>2, <2>3
  <1>3. MountedOK'
    BY <1>2 DEF TypeInv, MountedOK
  <1> QED
    BY <1>1, <1>3 DEF TypeInv, TypeOK, ControllerTypeOK, CursorOK

(* The steps of the migrator pods keep the types. *)
LEMMA TypeMigStep ==
    ASSUME TypeInv, NEW s \in Slots, MigStep(s), UNCHANGED <<vr, run>>
    PROVE  TypeInv'
  <1>1. /\ mig[s] \in MigRecords /\ mig[s].snap \subseteq Writes
        /\ NoMig \in MigRecords /\ mig \in [Slots -> MigRecords]
        /\ pv \in [PVs -> PVRecords] /\ faults \in 0 .. MaxFaults
    BY DEF TypeInv, TypeOK, ClusterTypeOK, MigRecords, MigStates, NoMig
  <1>2. ASSUME mig[s].st = "running"
        PROVE  /\ pvc[Source(s)].pv \in PVs /\ pvc[Target(s)].pv \in PVs
    <2>1. Mounted(orig(s)) /\ Mounted(temp(s))
      BY <1>2 DEF Mounted, orig, temp
    <2> QED
      BY <2>1, SlotShape, ClaimTyped DEF Source, Target
  <1>3. CASE MigStart(s)
    <2>1. /\ pvc[orig(s)].st = "bound" /\ pvc[temp(s)].st = "bound"
      BY <1>3 DEF MigStart, Source, Target
    <2>2. pv[pvc[Source(s)].pv].data \subseteq Writes
      BY <2>1, SlotShape, ClaimTyped, PVTyped DEF Source
    <2> DEFINE rec == [mig[s] EXCEPT !.st = "running",
                                     !.snap = pv[pvc[Source(s)].pv].data]
    <2>3. rec \in MigRecords
      BY <1>1, <2>2 DEF MigRecords, MigStates
    <2>4. mig' = [mig EXCEPT ![s] = rec]
      BY <1>1, <1>3 DEF MigStart
    <2> HIDE DEF rec
    <2> QED
      BY <1>1, <1>3, <2>1, <2>3, <2>4, MigUpdate DEF MigStart
  <1>4. CASE MigSucceed(s)
    <2>1. PICK copied \in {mig[s].snap, pv[pvc[Source(s)].pv].data} :
             pv' = [pv EXCEPT ![pvc[Target(s)].pv].data = copied]
      BY <1>4 DEF MigSucceed
    <2>2. copied \subseteq Writes
      BY <1>1, <1>2, <1>4, PVTyped DEF MigSucceed
    <2>3. pvc[Target(s)].pv \in PVs
      BY <1>2, <1>4 DEF MigSucceed
    <2>4. pv' \in [PVs -> PVRecords]
      BY <1>1, <2>1, <2>2, <2>3, PVTyped DEF PVRecords
    <2> DEFINE rec == [mig[s] EXCEPT !.st = "succeeded", !.snap = {}]
    <2>5. rec \in MigRecords /\ rec.st # "running"
      BY <1>1 DEF MigRecords, MigStates
    <2>6. mig' = [mig EXCEPT ![s] = rec]
      BY <1>1, <1>4 DEF MigSucceed
    <2> HIDE DEF rec
    <2> QED
      BY <1>1, <1>4, <2>4, <2>5, <2>6, MigUpdate DEF MigSucceed
  <1>5. CASE MigFail(s)
    <2> DEFINE rec == [mig[s] EXCEPT !.st = "failed", !.snap = {}]
    <2>1. rec \in MigRecords /\ rec.st # "running"
      BY <1>1 DEF MigRecords, MigStates
    <2>2. mig' = [mig EXCEPT ![s] = rec]
      BY <1>1, <1>5 DEF MigFail
    <2>3. faults' \in 0 .. MaxFaults
      BY <1>1, <1>5, FaultType DEF MigFail
    <2> HIDE DEF rec
    <2> QED
      BY <1>1, <1>5, <2>1, <2>2, <2>3, MigUpdate DEF MigFail
  <1>6. CASE MigLost(s)
    <2> DEFINE rec == [mig[s] EXCEPT !.del = TRUE]
    <2>1. rec \in MigRecords /\ rec.st = mig[s].st
      BY <1>1 DEF MigRecords
    <2>2. mig' = [mig EXCEPT ![s] = rec]
      BY <1>1, <1>6 DEF MigLost
    <2>3. faults' \in 0 .. MaxFaults
      BY <1>1, <1>6, FaultType DEF MigLost
    <2> HIDE DEF rec
    <2> QED
      BY <1>1, <1>6, <2>1, <2>2, <2>3, MigUpdate DEF MigLost
  <1>7. CASE MigGone(s)
    <2>1. NoMig.st # "running"
      BY DEF NoMig
    <2> QED
      BY <1>1, <1>7, <2>1, MigUpdate DEF MigGone
  <1>8. CASE CacheSync(s)
    <2> DEFINE rec == [mig[s] EXCEPT !.seen = TRUE]
    <2>1. rec \in MigRecords /\ rec.st = mig[s].st
      BY <1>1 DEF MigRecords
    <2>2. mig' = [mig EXCEPT ![s] = rec]
      BY <1>1, <1>8 DEF CacheSync
    <2> HIDE DEF rec
    <2> QED
      BY <1>1, <1>8, <2>1, <2>2, MigUpdate DEF CacheSync
  <1> QED
    BY <1>3, <1>4, <1>5, <1>6, <1>7, <1>8 DEF MigStep

(* Every step of the cluster keeps the types. *)
LEMMA TypeClusterStep ==
    ASSUME TypeInv, ClusterNext, UNCHANGED <<vr, run>>
    PROVE  TypeInv'
  <1>1. CASE BackupLost
    BY <1>1, FaultType DEF BackupLost, TypeInv, TypeOK, ClusterTypeOK,
       ControllerTypeOK, CursorOK, MountedOK, Mounted
  <1> QED
    BY <1>1, TypePodStep, TypeVolumeStep, TypeReclaimPV, TypeAppWrite, TypeMigStep
    DEF ClusterNext

-----------------------------------------------------------------------------
(* Types, under the steps of the operator: its side of the cluster first. *)

ClusterInv    == ClusterTypeOK /\ MountedOK
ControllerInv == ControllerTypeOK /\ CursorOK

(* TypeInv is what is said of the cluster and what is said of the operator. *)
LEMMA TwoSides == TypeInv <=> ClusterInv /\ ControllerInv
  BY DEF TypeInv, TypeOK, ClusterInv, ControllerInv

(* The two sides at the next state. *)
LEMMA TwoSidesNext ==
    ASSUME ClusterInv', ControllerInv'
    PROVE  TypeInv'
  BY DEF TypeInv, TypeOK, ClusterInv, ControllerInv

(* A step that leaves the cluster's objects alone keeps their types. *)
LEMMA ClusterFrame ==
    ASSUME TypeInv, UNCHANGED <<sts, backup, pod, mig, pvc, pv, acked>>,
           faults' \in 0 .. MaxFaults
    PROVE  ClusterInv'
  BY DEF TypeInv, TypeOK, ClusterInv, ClusterTypeOK, MountedOK, Mounted

(* A run of handleSyncing works on a slot. *)
LEMMA OnCursor ==
    ASSUME TypeInv, run.pc \in RunOfSyncing
    PROVE  /\ vr.cur \in Slots /\ vr.phase = "Syncing"
           /\ CurOrig \in Claims /\ CurTemp \in Claims
           /\ vr.cur[1] \in Ordinals
  BY SlotShape DEF TypeInv, CursorOK, CurOrig, CurTemp

(* An update of one claim that keeps a bound one bound. *)
LEMMA ClaimUpdate ==
    ASSUME TypeInv, NEW c \in Claims, NEW rec \in ClaimRecords,
           pvc' = [pvc EXCEPT ![c] = rec],
           pvc[c].st = "bound" => rec.st = "bound",
           rec.st = "bound" => rec.pv # NoPV,
           UNCHANGED <<sts, backup, pod, mig, pv, acked, faults>>
    PROVE  ClusterInv'
  <1>1. ClusterTypeOK'
    BY DEF TypeInv, TypeOK, ClusterTypeOK
  <1>2. \A d \in Claims : Mounted(d)' => Mounted(d)
    BY DEF Mounted
  <1>3. \A d \in Claims : d # c => pvc'[d] = pvc[d]
    BY DEF TypeInv, TypeOK, ClusterTypeOK
  <1>4. pvc'[c] = rec
    BY DEF TypeInv, TypeOK, ClusterTypeOK
  <1>5. MountedOK'
    BY <1>2, <1>3, <1>4 DEF TypeInv, MountedOK
  <1> QED
    BY <1>1, <1>5 DEF ClusterInv

(* An update of one volume. *)
LEMMA VolumeUpdate ==
    ASSUME TypeInv, NEW p \in PVs, NEW rec \in PVRecords,
           pv' = [pv EXCEPT ![p] = rec],
           UNCHANGED <<sts, backup, pod, mig, pvc, acked, faults>>
    PROVE  ClusterInv'
  BY DEF TypeInv, TypeOK, ClusterInv, ClusterTypeOK, MountedOK, Mounted

(* A migrator pod made or told to go. *)
LEMMA MigratorUpdate ==
    ASSUME TypeInv, NEW s \in Slots, NEW rec \in MigRecords,
           mig' = [mig EXCEPT ![s] = rec],
           rec.st = "running" => mig[s].st = "running",
           faults' \in 0 .. MaxFaults,
           UNCHANGED <<sts, backup, pod, pvc, pv, acked>>
    PROVE  ClusterInv'
  <1>1. ClusterTypeOK'
    BY DEF TypeInv, TypeOK, ClusterTypeOK
  <1>2. \A t \in Slots : mig'[t].st = "running" => mig[t].st = "running"
    BY DEF TypeInv, TypeOK, ClusterTypeOK
  <1>3. \A c \in Claims : Mounted(c)' => Mounted(c)
    BY <1>2 DEF Mounted, Claims
  <1> QED
    BY <1>1, <1>3 DEF TypeInv, ClusterInv, MountedOK

(* All migrator pods told to go, or shown. *)
LEMMA MigratorsUpdate ==
    ASSUME TypeInv, mig' \in [Slots -> MigRecords],
           \A s \in Slots : mig'[s].st = mig[s].st,
           faults' \in 0 .. MaxFaults,
           UNCHANGED <<sts, backup, pod, pvc, pv, acked>>
    PROVE  ClusterInv'
  <1>1. \A c \in Claims : Mounted(c)' => Mounted(c)
    BY DEF Mounted, Claims
  <1> QED
    BY <1>1 DEF TypeInv, TypeOK, ClusterInv, ClusterTypeOK, MountedOK

(* DeleteClaim only marks a claim. *)
LEMMA DeleteClaimType ==
    ASSUME TypeInv, NEW c \in Claims, DeleteClaim(c),
           UNCHANGED <<sts, backup, pod, mig, pv, acked, faults>>
    PROVE  ClusterInv'
  <1> DEFINE rec == [pvc[c] EXCEPT !.term = pvc[c].st # "absent"]
  <1>1. rec \in ClaimRecords /\ rec.st = pvc[c].st /\ rec.pv = pvc[c].pv
    BY ClaimTyped DEF ClaimRecords
  <1>2. pvc' = [pvc EXCEPT ![c] = rec]
    BY DEF DeleteClaim, TypeInv, TypeOK, ClusterTypeOK
  <1>3. rec.st = "bound" => rec.pv # NoPV
    BY <1>1 DEF TypeInv, MountedOK
  <1> HIDE DEF rec
  <1> QED
    BY <1>1, <1>2, <1>3, ClaimUpdate

(* The operator's writes to the cluster, action by action. *)
LEMMA ClusterReconcile ==
    ASSUME TypeInv, Reconcile
    PROVE  ClusterInv'
  <1> USE DEF RunOfSyncing, SyncSteps, ReplaceSteps, ReturnSteps
  <1>1. faults \in 0 .. MaxFaults
    BY DEF TypeInv, TypeOK, ClusterTypeOK
  <1>2. CASE UNCHANGED clusterVars
    BY <1>1, <1>2, ClusterFrame DEF clusterVars
  <1>3. CASE CreateTempPVC
    <2> DEFINE rec == IF pvc[CurTemp].st = "absent"
                      THEN [pvc[CurTemp] EXCEPT !.st = "pending"] ELSE pvc[CurTemp]
    <2>1. CurTemp \in Claims
      BY <1>3, OnCursor DEF CreateTempPVC, At
    <2>2. /\ rec \in ClaimRecords /\ rec.pv = pvc[CurTemp].pv
          /\ rec.st = "bound" <=> pvc[CurTemp].st = "bound"
      BY <2>1, ClaimTyped DEF ClaimRecords
    <2>3. pvc' = [pvc EXCEPT ![CurTemp] = rec]
      BY <1>3 DEF CreateTempPVC
    <2>4. rec.st = "bound" => rec.pv # NoPV
      BY <2>1, <2>2 DEF TypeInv, MountedOK
    <2> HIDE DEF rec
    <2> QED
      BY <1>3, <2>1, <2>2, <2>3, <2>4, ClaimUpdate DEF CreateTempPVC
  <1>4. ASSUME NEW p \in PVs, pv' = [pv EXCEPT ![p].policy = "Retain"],
               UNCHANGED <<sts, backup, pod, mig, pvc, acked, faults>>
        PROVE  ClusterInv'
    <2> DEFINE rec == [pv[p] EXCEPT !.policy = "Retain"]
    <2>1. rec \in PVRecords
      BY PVTyped DEF PVRecords
    <2>2. pv' = [pv EXCEPT ![p] = rec]
      BY <1>4 DEF TypeInv, TypeOK, ClusterTypeOK
    <2> HIDE DEF rec
    <2> QED
      BY <1>4, <2>1, <2>2, VolumeUpdate
  <1>5. CASE SetRetainOnPV
    <2>1. CASE Live(run.oldPV) /\ pv' = [pv EXCEPT ![run.oldPV].policy = "Retain"]
      <3>1. run.oldPV \in PVs
        BY <2>1 DEF Live, TypeInv, TypeOK, ControllerTypeOK, RunRecords
      <3> QED
        BY <1>4, <1>5, <2>1, <3>1 DEF SetRetainOnPV
    <2>2. CASE UNCHANGED pv
      BY <1>1, <1>5, <2>2, ClusterFrame DEF SetRetainOnPV
    <2> QED
      BY <1>5, <2>1, <2>2 DEF SetRetainOnPV
  <1>6. CASE BackupSTS
    BY <1>6 DEF BackupSTS, TypeInv, TypeOK, ClusterInv, ClusterTypeOK, MountedOK, Mounted
  <1>7. CASE DeleteSTSOrphan
    BY <1>7 DEF DeleteSTSOrphan, TypeInv, TypeOK, ClusterInv, ClusterTypeOK,
                MountedOK, Mounted
  <1>8. CASE DeletePod
    <2>1. vr.cur[1] \in Ordinals
      BY <1>8, OnCursor DEF DeletePod, At
    <2>2. ClusterTypeOK'
      BY <1>8, <2>1 DEF DeletePod, TypeInv, TypeOK, ClusterTypeOK, PodStates
    <2>3. \A r \in Ordinals : pod'[r] \in {"running", "terminating"}
                                 => pod[r] \in {"running", "terminating"}
      BY <1>8, <2>1 DEF DeletePod, TypeInv, TypeOK, ClusterTypeOK, PodStates
    <2>4. \A c \in Claims : Mounted(c)' => Mounted(c)
      BY <1>8, <2>3 DEF DeletePod, Mounted, Claims, Slots
    <2> QED
      BY <1>8, <2>2, <2>4 DEF DeletePod, TypeInv, ClusterInv, MountedOK
  <1>9. CASE CreateMigratorPod
    <2>1. vr.cur \in Slots
      BY <1>9, OnCursor DEF CreateMigratorPod, At
    <2>2. CASE \E seen \in BOOLEAN :
                 /\ mig' = [mig EXCEPT ![vr.cur] =
                              [NoMig EXCEPT !.st = "pending", !.seen = seen]]
                 /\ IF seen THEN UNCHANGED faults ELSE Fault("lag")
      <3>1. PICK seen \in BOOLEAN :
                 /\ mig' = [mig EXCEPT ![vr.cur] =
                              [NoMig EXCEPT !.st = "pending", !.seen = seen]]
                 /\ IF seen THEN UNCHANGED faults ELSE Fault("lag")
        BY <2>2
      <3> DEFINE rec == [NoMig EXCEPT !.st = "pending", !.seen = seen]
      <3>2. rec \in MigRecords /\ rec.st # "running"
        BY DEF NoMig, MigRecords, MigStates
      <3>3. faults' \in 0 .. MaxFaults
        BY <1>1, <3>1, FaultType
      <3>4. mig' = [mig EXCEPT ![vr.cur] = rec]
        BY <3>1
      <3> HIDE DEF rec
      <3> QED
        BY <1>9, <2>1, <3>2, <3>3, <3>4, MigratorUpdate DEF CreateMigratorPod
    <2>3. CASE UNCHANGED <<mig, faults>>
      BY <1>1, <1>9, <2>3, ClusterFrame DEF CreateMigratorPod
    <2> QED
      BY <1>9, <2>2, <2>3 DEF CreateMigratorPod
  <1>10. CASE CleanupMigratorPod
    <2>1. vr.cur \in Slots
      BY <1>10, OnCursor DEF CleanupMigratorPod, At
    <2> DEFINE rec == [mig[vr.cur] EXCEPT !.del = mig[vr.cur].st # "absent"]
    <2>2. rec \in MigRecords /\ rec.st = mig[vr.cur].st
      BY <2>1 DEF TypeInv, TypeOK, ClusterTypeOK, MigRecords
    <2>3. mig' = [mig EXCEPT ![vr.cur] = rec]
      BY <1>10 DEF CleanupMigratorPod, TypeInv, TypeOK, ClusterTypeOK
    <2> HIDE DEF rec
    <2> QED
      BY <1>1, <1>10, <2>1, <2>2, <2>3, MigratorUpdate DEF CleanupMigratorPod
  <1>11. CASE RetainNewPV
    <2>1. CurTemp \in Claims
      BY <1>11, OnCursor DEF RetainNewPV, At
    <2>2. CASE UNCHANGED pv
      BY <1>1, <1>11, <2>2, ClusterFrame DEF RetainNewPV
    <2>3. CASE /\ Live(pvc[CurTemp].pv)
               /\ pv' = [pv EXCEPT ![pvc[CurTemp].pv].policy = "Retain"]
      <3>1. pvc[CurTemp].pv \in PVs
        BY <2>1, <2>3, ClaimTyped DEF Live
      <3> QED
        BY <1>4, <1>11, <2>3, <3>1 DEF RetainNewPV
    <2> QED
      BY <1>11, <2>2, <2>3 DEF RetainNewPV
  <1>12. CASE DeleteTempPVC
    BY <1>12, OnCursor, DeleteClaimType DEF DeleteTempPVC, At
  <1>13. CASE ClearClaimRef
    <2>1. CASE UNCHANGED pv
      BY <1>1, <1>13, <2>1, ClusterFrame DEF ClearClaimRef
    <2>2. CASE /\ Live(run.newPV)
               /\ pv' = [pv EXCEPT ![run.newPV].claim = Unclaimed]
      <3>1. run.newPV \in PVs
        BY <2>2 DEF Live, TypeInv, TypeOK, ControllerTypeOK, RunRecords
      <3> DEFINE rec == [pv[run.newPV] EXCEPT !.claim = Unclaimed]
      <3>2. rec \in PVRecords
        BY <3>1, PVTyped DEF PVRecords
      <3>3. pv' = [pv EXCEPT ![run.newPV] = rec]
        BY <2>2
      <3> HIDE DEF rec
      <3> QED
        BY <1>13, <3>1, <3>2, <3>3, VolumeUpdate DEF ClearClaimRef
    <2> QED
      BY <1>13, <2>1, <2>2 DEF ClearClaimRef
  <1>14. CASE DeleteOrigPVC
    BY <1>14, OnCursor, DeleteClaimType DEF DeleteOrigPVC, At
  <1>15. CASE CreateOrigPVC
    <2>1. CASE UNCHANGED pvc
      BY <1>1, <1>15, <2>1, ClusterFrame DEF CreateOrigPVC
    <2>2. CASE /\ pvc[CurOrig].st = "absent"
               /\ pvc' = [pvc EXCEPT ![CurOrig] =
                            [st |-> "pending", term |-> FALSE, pv |-> run.newPV]]
      <3> DEFINE rec == [st |-> "pending", term |-> FALSE, pv |-> run.newPV]
      <3>1. rec \in ClaimRecords /\ rec.st # "bound"
        BY DEF ClaimRecords, TypeInv, TypeOK, ControllerTypeOK, RunRecords
      <3>2. CurOrig \in Claims
        BY <1>15, OnCursor DEF CreateOrigPVC, At
      <3>3. pvc' = [pvc EXCEPT ![CurOrig] = rec] /\ pvc[CurOrig].st # "bound"
        BY <2>2
      <3> HIDE DEF rec
      <3> QED
        BY <1>15, <3>1, <3>2, <3>3, ClaimUpdate DEF CreateOrigPVC
    <2> QED
      BY <1>15, <2>1, <2>2 DEF CreateOrigPVC
  <1>16. CASE RecreateSTS
    BY <1>16 DEF RecreateSTS, TypeInv, TypeOK, ClusterInv, ClusterTypeOK,
                 MountedOK, Mounted
  <1>17. CASE DeleteTempPVCs
    <2>1. ASSUME NEW c \in Claims
          PROVE  /\ pvc'[c] \in ClaimRecords
                 /\ pvc'[c].st = pvc[c].st /\ pvc'[c].pv = pvc[c].pv
      BY <1>17, ClaimTyped DEF DeleteTempPVCs, ClaimRecords
    <2>2. pvc' \in [Claims -> ClaimRecords]
      BY <1>17, <2>1 DEF DeleteTempPVCs
    <2>3. ClusterTypeOK'
      BY <1>17, <2>2 DEF DeleteTempPVCs, TypeInv, TypeOK, ClusterTypeOK
    <2>4. \A c \in Claims : Mounted(c)' => Mounted(c)
      BY <1>17 DEF DeleteTempPVCs, Mounted
    <2> QED
      BY <2>1, <2>3, <2>4 DEF TypeInv, ClusterInv, MountedOK
  <1>18. CASE DeleteMigrators
    <2>1. ASSUME NEW s \in Slots
          PROVE  mig'[s] \in MigRecords /\ mig'[s].st = mig[s].st
      BY <1>18 DEF DeleteMigrators, TypeInv, TypeOK, ClusterTypeOK, MigRecords
    <2>2. mig' \in [Slots -> MigRecords]
      BY <1>18, <2>1 DEF DeleteMigrators
    <2> QED
      BY <1>1, <1>18, <2>1, <2>2, MigratorsUpdate DEF DeleteMigrators
  <1>19. CASE WaitTempGone \/ WaitOrigGone
    <2>1. faults' \in 0 .. MaxFaults
      BY <1>1, <1>19, FaultType DEF WaitTempGone, WaitOrigGone, WaitClaimGone
    <2> QED
      BY <1>19, <2>1, ClusterFrame DEF WaitTempGone, WaitOrigGone, WaitClaimGone
  <1> QED
    BY <1>2, <1>3, <1>5, <1>6, <1>7, <1>8, <1>9, <1>10, <1>11, <1>12, <1>13, <1>14,
       <1>15, <1>16, <1>17, <1>18, <1>19
    DEF Reconcile, HandleSyncing, ReplacePVC, HandleDeletion, AddFinalizer,
        HandlePending, HandleValidating, HandleReplacing, SetFailed,
        AdvanceCompleted, GetOriginalPVC, AnnotateSTSDeleted, RecordBackup,
        WaitForPodTermination, WaitForMigrationComplete, RecheckMigrator,
        PersistCompleted, ClearAnnotation, CheckPodAndAdvance, BeginDeletion,
        RemoveFinalizer

-----------------------------------------------------------------------------
(* Types, under the steps of the operator: the VolumeResize and the run. *)

(* The typed parts of the operator's state. *)
LEMMA ControllerTyped ==
    ASSUME TypeInv
    PROVE  /\ vr \in VRRecords /\ run \in RunRecords
           /\ vr.cur \in Slots \cup {NoSlot} /\ Stored \in SlotPhases
           /\ NoSlot \notin Slots
  BY SlotShape DEF TypeInv, TypeOK, ControllerTypeOK, VRRecords, RunRecords,
                   Stored, SlotPhases

(* A run that moves on leaves the VolumeResize typed. *)
LEMMA RunMoves ==
    ASSUME TypeInv, UNCHANGED vr, run' \in RunRecords,
           run'.pc \in RunOfSyncing => vr.phase = "Syncing"
    PROVE  ControllerInv'
  BY DEF TypeInv, TypeOK, ControllerInv, ControllerTypeOK, CursorOK

(* Goto, Return and Begin give typed runs. *)
LEMMA GotoType ==
    ASSUME TypeInv, NEW pc \in Steps, Goto(pc)
    PROVE  run' \in RunRecords /\ run'.pc = pc
  BY ControllerTyped DEF Goto, RunRecords

(* A run that returns is idle. *)
LEMMA ReturnType ==
    ASSUME Return
    PROVE  run' \in RunRecords /\ run'.pc = "idle" /\ "idle" \notin RunOfSyncing
  BY DEF Return, Idle, RunRecords, Steps, SlotPhases, RunOfSyncing, SyncSteps,
         ReplaceSteps, ReturnSteps

(* A run that begins is at its first step. *)
LEMMA BeginType ==
    ASSUME TypeInv, NEW pc \in Steps, NEW old \in PVs \cup {NoPV}, Begin(pc, old)
    PROVE  run' \in RunRecords /\ run'.pc = pc
  BY ControllerTyped DEF Begin, RunRecords

(* The steps of the sets named, and none of them twice. *)
LEMMA StepSets ==
    /\ RunOfSyncing \subseteq Steps /\ DeletionSteps \subseteq Steps
    /\ "setFailed" \in Steps /\ "idle" \in Steps
    /\ "setFailed" \notin RunOfSyncing /\ "idle" \notin RunOfSyncing
    /\ DeletionSteps \cap RunOfSyncing = {}
  BY DEF RunOfSyncing, SyncSteps, ReplaceSteps, ReturnSteps, DeletionSteps, Steps

(* Moving on to a step of handleSyncing, or out of it. *)
LEMMA SyncGoto ==
    ASSUME TypeInv, UNCHANGED vr, NEW pc \in RunOfSyncing, Goto(pc),
           run.pc \in RunOfSyncing
    PROVE  ControllerInv'
  BY GotoType, StepSets, RunMoves, OnCursor

(* A run that gives up goes to setFailed. *)
LEMMA FailGoto ==
    ASSUME TypeInv, UNCHANGED vr, Fail
    PROVE  ControllerInv'
  BY GotoType, StepSets, RunMoves DEF Fail

(* A run that returns leaves the VolumeResize alone. *)
LEMMA ReturnGoto ==
    ASSUME TypeInv, UNCHANGED vr, Return
    PROVE  ControllerInv'
  BY ReturnType, RunMoves

(* SetSlot and Advanced give typed statuses. *)
LEMMA SetSlotType ==
    ASSUME NEW old \in VRRecords, NEW s \in Slots \cup {NoSlot},
           NEW phase \in SlotPhases
    PROVE  /\ SetSlot(old, s, phase) \in VRRecords
           /\ SetSlot(old, s, phase).phase = old.phase
           /\ SetSlot(old, s, phase).cur = old.cur
  <1>1. CASE s = NoSlot
    BY <1>1 DEF SetSlot
  <1>2. CASE s # NoSlot
    <2> DEFINE f == [old.vs EXCEPT ![s] = IF @ = "none" THEN @ ELSE phase]
    <2>1. s \in Slots
      BY <1>2
    <2>2. f \in [Slots -> SlotPhases]
      BY <2>1 DEF VRRecords
    <2>3. SetSlot(old, s, phase) = [old EXCEPT !.vs = f]
      BY <1>2, <2>1 DEF SetSlot, VRRecords
    <2> HIDE DEF f
    <2> QED
      BY <2>2, <2>3 DEF VRRecords
  <1> QED
    BY <1>1, <1>2

(* The status after advancing names a slot or is Completed. *)
LEMMA AdvancedType ==
    ASSUME TypeInv, vr.cur \in Slots
    PROVE  /\ Advanced \in VRRecords
           /\ Advanced.phase = "Syncing" => Advanced.cur \in Slots
  <1>1. NextSlot(vr.cur) \in Slots \cup {NoSlot}
    BY NextSlotType DEF TypeInv
  <1>2. CASE NextSlot(vr.cur) = NoSlot
    BY <1>2, ControllerTyped DEF Advanced, VRRecords, Phases
  <1>3. CASE NextSlot(vr.cur) # NoSlot
    BY <1>1, <1>3, ControllerTyped DEF Advanced, VRRecords
  <1> QED
    BY <1>2, <1>3

(* WriteVR stores a typed status or returns. *)
LEMMA WriteVRType ==
    ASSUME TypeInv, NEW new \in VRRecords, NEW next \in Steps, WriteVR(new, next),
           new.phase = "Syncing" => new.cur \in Slots,
           next \in RunOfSyncing => new.phase = "Syncing"
    PROVE  ControllerInv'
  <1>1. CASE vr.deleting
    BY <1>1, ReturnGoto DEF WriteVR
  <1>2. CASE ~ vr.deleting
    <2>1. vr' = new /\ run' \in RunRecords
          /\ run'.pc \in {next, "idle"}
      BY <1>2, GotoType, ReturnType DEF WriteVR
    <2> QED
      BY <2>1, StepSets DEF ControllerInv, ControllerTypeOK, CursorOK
  <1> QED
    BY <1>1, <1>2

(* The writes of handleSyncing and replacePVC to the VolumeResize and the run. *)
LEMMA ControllerSyncing ==
    ASSUME TypeInv, HandleSyncing \/ ReplacePVC
    PROVE  ControllerInv'
  <1> USE DEF At, RunOfSyncing, SyncSteps, ReplaceSteps, ReturnSteps
  <1>1. CASE AdvanceCompleted
    <2>1. vr' = Advanced /\ vr.cur \in Slots /\ UNCHANGED run /\ run.pc = "idle"
      BY <1>1 DEF AdvanceCompleted, CanReconcile, TypeInv, CursorOK
    <2> QED
      BY <2>1, AdvancedType, ControllerTyped DEF ControllerInv, ControllerTypeOK, CursorOK
  <1>2. CASE GetOriginalPVC
    <2>1. vr.phase = "Syncing" /\ CurOrig \in Claims /\ UNCHANGED vr
      BY <1>2, SlotShape DEF GetOriginalPVC, CanReconcile, TypeInv, CursorOK, CurOrig
    <2>2. pvc[CurOrig].pv \in PVs \cup {NoPV} /\ NoPV \in PVs \cup {NoPV}
      BY <2>1, ClaimTyped
    <2>3. {"createTempPVC", "setFailed"} \subseteq Steps
      BY StepSets
    <2> QED
      BY <1>2, <2>1, <2>2, <2>3, BeginType, RunMoves DEF GetOriginalPVC
  <1>3. CASE CreateTempPVC
    BY <1>3, SyncGoto, ReturnGoto DEF CreateTempPVC
  <1>4. CASE SetRetainOnPV
    <2>1. CASE Fail
      BY <1>4, <2>1, FailGoto DEF SetRetainOnPV
    <2>2. CASE run' = [run EXCEPT !.mem = "Syncing",
                                  !.pc = IF ~ vr.stsDeleted /\ sts
                                         THEN "backupSTS" ELSE "deletePod"]
      <3> DEFINE next == IF ~ vr.stsDeleted /\ sts THEN "backupSTS" ELSE "deletePod"
      <3>1. next \in Steps
        BY StepSets
      <3>2. run' \in RunRecords
        BY <2>2, <3>1, ControllerTyped DEF RunRecords, SlotPhases
      <3> QED
        BY <1>4, <3>2, OnCursor, RunMoves DEF SetRetainOnPV
    <2> QED
      BY <1>4, <2>1, <2>2 DEF SetRetainOnPV
  <1>5. CASE BackupSTS \/ DeleteSTSOrphan \/ DeletePod
    BY <1>5, SyncGoto DEF BackupSTS, DeleteSTSOrphan, DeletePod
  <1>6. CASE AnnotateSTSDeleted
    <2>1. CASE vr.deleting
      BY <1>6, <2>1, ReturnGoto DEF AnnotateSTSDeleted
    <2>2. CASE ~ vr.deleting
      <3>1. vr' \in VRRecords /\ vr'.cur = vr.cur /\ vr'.phase = vr.phase
        BY <1>6, <2>2, ControllerTyped DEF AnnotateSTSDeleted, VRRecords
      <3>2. run' \in RunRecords
        BY <1>6, <2>2, ControllerTyped, StepSets DEF AnnotateSTSDeleted, RunRecords
      <3>3. vr.phase = "Syncing" /\ vr.cur \in Slots
        BY <1>6, OnCursor DEF AnnotateSTSDeleted
      <3> QED
        BY <3>1, <3>2, <3>3 DEF ControllerInv, ControllerTypeOK, CursorOK
    <2> QED
      BY <2>1, <2>2
  <1>7. CASE RecordBackup
    <2> DEFINE old == [vr EXCEPT !.backupName = TRUE]
    <2>1. old \in VRRecords /\ old.phase = "Syncing" /\ old.cur \in Slots
      BY <1>7, ControllerTyped, OnCursor DEF RecordBackup, VRRecords
    <2>2. run.mem \in SlotPhases
      BY ControllerTyped DEF RunRecords
    <2>3. WriteVR(SetSlot(old, vr.cur, run.mem), "deletePod")
      BY <1>7 DEF RecordBackup
    <2> HIDE DEF old
    <2> DEFINE new == SetSlot(old, vr.cur, run.mem)
    <2>4. new \in VRRecords /\ new.phase = "Syncing" /\ new.cur \in Slots
      BY <2>1, <2>2, ControllerTyped, SetSlotType
    <2> HIDE DEF new
    <2> QED
      BY <2>3, <2>4, WriteVRType, StepSets DEF new
  <1>8. CASE WaitForPodTermination \/ RecheckMigrator \/ CreateMigratorPod
    BY <1>8, SyncGoto, ReturnGoto, FailGoto
    DEF WaitForPodTermination, RecheckMigrator, CreateMigratorPod
  <1>9. CASE WaitForMigrationComplete
    BY <1>9, SyncGoto DEF WaitForMigrationComplete
  <1>10. CASE CleanupMigratorPod
    <2>1. run' \in RunRecords
      BY <1>10, ControllerTyped, StepSets DEF CleanupMigratorPod, RunRecords, SlotPhases
    <2> QED
      BY <1>10, <2>1, OnCursor, RunMoves DEF CleanupMigratorPod
  <1>11. CASE RetainNewPV
    <2>1. CASE Fail
      BY <1>11, <2>1, FailGoto DEF RetainNewPV
    <2>2. CASE /\ Live(pvc[CurTemp].pv)
               /\ run' = [run EXCEPT !.pc = "deleteTemp", !.newPV = pvc[CurTemp].pv]
      <3>1. CurTemp \in Claims
        BY <1>11, OnCursor DEF RetainNewPV
      <3>2. pvc[CurTemp].pv \in PVs
        BY <2>2, <3>1, ClaimTyped DEF Live
      <3>3. run' \in RunRecords
        BY <2>2, <3>2, ControllerTyped, StepSets DEF RunRecords
      <3> QED
        BY <1>11, <2>2, <3>3, OnCursor, RunMoves DEF RetainNewPV
    <2> QED
      BY <1>11, <2>1, <2>2 DEF RetainNewPV
  <1>12. CASE DeleteTempPVC \/ DeleteOrigPVC \/ WaitTempGone \/ WaitOrigGone
    BY <1>12, SyncGoto
    DEF DeleteTempPVC, DeleteOrigPVC, WaitTempGone, WaitOrigGone, WaitClaimGone
  <1>13. CASE ClearClaimRef \/ RecreateSTS
    BY <1>13, SyncGoto, FailGoto DEF ClearClaimRef, RecreateSTS
  <1>14. CASE CreateOrigPVC
    <2>1. CASE Fail
      BY <1>14, <2>1, FailGoto DEF CreateOrigPVC
    <2>2. CASE run' = [run EXCEPT !.pc = "persistCompleted", !.mem = "Completed"]
      <3>1. run' \in RunRecords
        BY <2>2, ControllerTyped, StepSets DEF RunRecords, SlotPhases
      <3> QED
        BY <1>14, <3>1, OnCursor, RunMoves DEF CreateOrigPVC
    <2> QED
      BY <1>14, <2>1, <2>2 DEF CreateOrigPVC
  <1>15. CASE PersistCompleted
    <2>1. vr \in VRRecords /\ vr.phase = "Syncing" /\ vr.cur \in Slots
      BY <1>15, ControllerTyped, OnCursor DEF PersistCompleted
    <2>2. run.mem \in SlotPhases
      BY ControllerTyped DEF RunRecords
    <2> DEFINE new == SetSlot(vr, vr.cur, run.mem)
    <2>3. new \in VRRecords /\ new.phase = "Syncing" /\ new.cur \in Slots
      BY <2>1, <2>2, SetSlotType
    <2>4. WriteVR(new, "recreateSTS")
      BY <1>15 DEF PersistCompleted
    <2> HIDE DEF new
    <2> QED
      BY <2>3, <2>4, WriteVRType, StepSets
  <1>16. CASE ClearAnnotation
    <2> DEFINE new == [vr EXCEPT !.stsDeleted = FALSE]
    <2>1. new \in VRRecords /\ new.phase = "Syncing" /\ new.cur \in Slots
      BY <1>16, ControllerTyped, OnCursor DEF ClearAnnotation, VRRecords
    <2>2. WriteVR(new, "checkPod")
      BY <1>16 DEF ClearAnnotation
    <2> HIDE DEF new
    <2> QED
      BY <2>1, <2>2, WriteVRType, StepSets
  <1>17. CASE CheckPodAndAdvance
    <2>1. vr.cur \in Slots
      BY <1>17, OnCursor DEF CheckPodAndAdvance
    <2> QED
      BY <1>17, <2>1, AdvancedType, WriteVRType, ReturnGoto, StepSets
      DEF CheckPodAndAdvance
  <1> QED
    BY <1>1, <1>2, <1>3, <1>4, <1>5, <1>6, <1>7, <1>8, <1>9, <1>10, <1>11, <1>12,
       <1>13, <1>14, <1>15, <1>16, <1>17 DEF HandleSyncing, ReplacePVC

(* The handlers of the other phases and of deletion. *)
LEMMA ControllerOther ==
    ASSUME TypeInv,
           \/ AddFinalizer \/ HandlePending \/ HandleValidating \/ HandleReplacing
           \/ SetFailed \/ HandleDeletion
    PROVE  ControllerInv'
  <1> USE DEF At
  <1>1. ASSUME vr' \in VRRecords, UNCHANGED run, run.pc = "idle",
               vr'.phase = "Syncing" => vr'.cur \in Slots
        PROVE  ControllerInv'
    BY <1>1, ControllerTyped, StepSets DEF ControllerInv, ControllerTypeOK, CursorOK
  <1>2. CASE AddFinalizer
    <2>1. /\ vr' \in VRRecords /\ vr'.phase = vr.phase /\ vr'.cur = vr.cur
      BY <1>2, ControllerTyped DEF AddFinalizer, VRRecords
    <2> QED
      BY <1>1, <1>2, <2>1 DEF AddFinalizer, TypeInv, CursorOK
  <1>3. CASE HandlePending
    <2> DEFINE vs == [s \in Slots |-> "none"]
    <2>1. vs \in [Slots -> SlotPhases]
      BY DEF SlotPhases
    <2>2. vr' = [vr EXCEPT !.phase = "Validating", !.vs = vs]
      BY <1>3 DEF HandlePending
    <2> HIDE DEF vs
    <2>3. vr' \in VRRecords /\ vr'.phase = "Validating"
      BY <2>1, <2>2, ControllerTyped DEF VRRecords, Phases
    <2> QED
      BY <1>1, <1>3, <2>3 DEF HandlePending, CanReconcile
  <1>4. CASE HandleValidating
    <2>1. CASE Begin("setFailed", NoPV) /\ UNCHANGED vr
      BY <2>1, BeginType, RunMoves, StepSets
    <2>2. CASE /\ UNCHANGED run
               /\ vr' = [vr EXCEPT !.phase = "Syncing", !.cur = <<0, 1>>,
                                   !.vs = [s \in Slots |-> IF s[1] < Replicas
                                                           THEN "Pending" ELSE @[s]]]
      <3> DEFINE vs == [s \in Slots |-> IF s[1] < Replicas THEN "Pending" ELSE vr.vs[s]]
      <3>1. vs \in [Slots -> SlotPhases]
        BY ControllerTyped DEF SlotPhases, VRRecords
      <3>2. vr' = [vr EXCEPT !.phase = "Syncing", !.cur = <<0, 1>>, !.vs = vs]
        BY <2>2, ControllerTyped DEF VRRecords
      <3> HIDE DEF vs
      <3>3. <<0, 1>> \in Slots
        BY SizeAssumption DEF Slots, Ordinals
      <3>4. vr' \in VRRecords /\ vr'.cur = <<0, 1>>
        BY <3>1, <3>2, <3>3, ControllerTyped DEF VRRecords, Phases
      <3> QED
        BY <1>1, <1>4, <2>2, <3>3, <3>4 DEF HandleValidating, CanReconcile
    <2> QED
      BY <1>4, <2>1, <2>2 DEF HandleValidating
  <1>5. CASE HandleReplacing
    <2>1. vr' \in VRRecords /\ vr'.phase = "Completed"
      BY <1>5, ControllerTyped DEF HandleReplacing, VRRecords, Phases
    <2> QED
      BY <1>1, <1>5, <2>1 DEF HandleReplacing, CanReconcile
  <1>6. CASE SetFailed
    <2> DEFINE old == [vr EXCEPT !.phase = "Failed"]
    <2>1. old \in VRRecords /\ old.phase = "Failed"
      BY ControllerTyped DEF VRRecords, Phases
    <2>2. run.mem \in SlotPhases
      BY ControllerTyped DEF RunRecords
    <2>3. WriteVR(SetSlot(old, vr.cur, run.mem), "idle")
      BY <1>6 DEF SetFailed
    <2> HIDE DEF old
    <2> DEFINE new == SetSlot(old, vr.cur, run.mem)
    <2>4. new \in VRRecords /\ new.phase = "Failed"
      BY <2>1, <2>2, ControllerTyped, SetSlotType
    <2> HIDE DEF new
    <2> QED
      BY <2>3, <2>4, WriteVRType, StepSets DEF new
  <1>7. CASE BeginDeletion
    BY <1>7, BeginType, RunMoves, StepSets DEF BeginDeletion, DeletionSteps
  <1>8. CASE DeleteTempPVCs \/ DeleteMigrators
    BY <1>8, GotoType, RunMoves, StepSets DEF DeleteTempPVCs, DeleteMigrators, DeletionSteps
  <1>9. CASE RemoveFinalizer
    <2>1. /\ vr' \in VRRecords /\ vr'.phase = vr.phase /\ vr'.cur = vr.cur
      BY <1>9, ControllerTyped DEF RemoveFinalizer, VRRecords
    <2> QED
      BY <1>9, <2>1, ReturnType DEF RemoveFinalizer, TypeInv, ControllerInv,
         ControllerTypeOK, CursorOK
  <1> QED
    BY <1>2, <1>3, <1>4, <1>5, <1>6, <1>7, <1>8, <1>9 DEF HandleDeletion

(* The faults of the operator, and the delete of the user. *)
LEMMA TypeFaults ==
    ASSUME TypeInv, Crash \/ ApiError \/ UserDelete
    PROVE  TypeInv'
  <1>1. faults' \in 0 .. MaxFaults
    BY FaultType DEF Crash, ApiError, UserDelete, TypeInv, TypeOK, ClusterTypeOK
  <1>2. CASE Crash
    <2>1. ASSUME NEW s \in Slots
          PROVE  mig'[s] \in MigRecords /\ mig'[s].st = mig[s].st
      BY <1>2 DEF Crash, TypeInv, TypeOK, ClusterTypeOK, MigRecords
    <2>2. mig' \in [Slots -> MigRecords]
      BY <1>2, <2>1 DEF Crash
    <2>3. ClusterInv'
      BY <1>1, <1>2, <2>1, <2>2, MigratorsUpdate DEF Crash
    <2>4. ControllerInv'
      BY <1>2, ReturnGoto DEF Crash
    <2> QED
      BY <2>3, <2>4, TwoSidesNext
  <1>3. CASE ApiError
    <2>1. ClusterInv'
      BY <1>1, <1>3, ClusterFrame DEF ApiError
    <2>2. CASE Return
      BY <1>3, <2>1, <2>2, ReturnGoto, TwoSidesNext DEF ApiError
    <2>3. CASE /\ run.pc \in DOMAIN NextAfterError
               /\ run' = [run EXCEPT !.pc = NextAfterError[@],
                                     !.mem = IF At("cleanupMigrator") THEN "Synced" ELSE @]
      <3> DEFINE next == NextAfterError[run.pc]
                 m == IF At("cleanupMigrator") THEN "Synced" ELSE run.mem
      <3>1. next \in Steps /\ (next \in RunOfSyncing => run.pc \in RunOfSyncing)
        BY <2>3 DEF NextAfterError, Steps, RunOfSyncing, SyncSteps, ReplaceSteps,
                    ReturnSteps, DeletionSteps
      <3>2. m \in SlotPhases
        BY ControllerTyped DEF RunRecords, SlotPhases
      <3>3. run' = [run EXCEPT !.pc = next, !.mem = m]
        BY <2>3
      <3> HIDE DEF next, m
      <3>4. run' \in RunRecords /\ run'.pc = next
        BY <3>1, <3>2, <3>3, ControllerTyped DEF RunRecords
      <3> QED
        BY <1>3, <2>1, <3>1, <3>4, OnCursor, RunMoves, TwoSidesNext DEF ApiError
    <2>4. CASE run.pc \in FatalOnError /\ Fail
      BY <1>3, <2>1, <2>4, FailGoto, TwoSidesNext DEF ApiError
    <2>5. CASE Begin("setFailed", NoPV)
      BY <1>3, <2>1, <2>5, BeginType, RunMoves, StepSets, TwoSidesNext DEF ApiError
    <2> QED
      BY <1>3, <2>2, <2>3, <2>4, <2>5 DEF ApiError
  <1>4. CASE UserDelete
    <2>1. ClusterInv'
      BY <1>1, <1>4, ClusterFrame DEF UserDelete
    <2>2. /\ vr' \in VRRecords /\ vr'.phase = vr.phase /\ vr'.cur = vr.cur
      BY <1>4, ControllerTyped DEF UserDelete, VRRecords
    <2>3. ControllerInv'
      BY <1>4, <2>2, ControllerTyped
      DEF UserDelete, TypeInv, ControllerInv, ControllerTypeOK, CursorOK
    <2> QED
      BY <2>1, <2>3, TwoSidesNext
  <1> QED
    BY <1>2, <1>3, <1>4

(* Every step keeps the inductive invariant. *)
LEMMA TypeStep == TypeInv /\ [Next]_vars => TypeInv'
  <1> SUFFICES ASSUME TypeInv, [Next]_vars PROVE TypeInv'
    OBVIOUS
  <1>1. CASE Reconcile
    <2>1. ControllerInv'
      BY <1>1, ControllerSyncing, ControllerOther DEF Reconcile
    <2> QED
      BY <1>1, <2>1, ClusterReconcile, TwoSidesNext
  <1>2. CASE Crash \/ ApiError \/ UserDelete
    BY <1>2, TypeFaults
  <1>3. CASE ClusterNext /\ UNCHANGED <<vr, run>>
    BY <1>3, TypeClusterStep
  <1>4. CASE UNCHANGED vars
    BY <1>4 DEF vars, TypeInv, TypeOK, ClusterTypeOK, ControllerTypeOK, CursorOK,
                MountedOK, Mounted
  <1> QED
    BY <1>1, <1>2, <1>3, <1>4 DEF Next

(* Type correctness: whatever faults happen, for any number of replicas and
   volumes, the cursor of handleSyncing stays on a slot of the StatefulSet,
   status and locals stay among the values the code knows, and only bound
   claims are mounted. *)
THEOREM TypeCorrect == Spec => []TypeOK
  <1>1. Init => TypeInv
    BY TypeInit
  <1>2. TypeInv /\ [Next]_vars => TypeInv'
    BY TypeStep
  <1>3. TypeInv => TypeOK
    BY DEF TypeInv
  <1> QED
    BY <1>1, <1>2, <1>3, PTL DEF Spec
==============================================================================
