------------------------------- MODULE Cluster -------------------------------
(***************************************************************************)
(* The part of a Kubernetes cluster the volume-resize operator acts on:    *)
(* one StatefulSet with its pods, the claims and persistent volumes of the *)
(* migrated volumes, the migrator pods and the backup ConfigMap.           *)
(*                                                                         *)
(* None of this is code under src/: it is the API server, the StatefulSet, *)
(* volume and pvc-protection controllers, the scheduler and the kubelet,   *)
(* modelled from how internal/controller uses them.  The operator itself   *)
(* is module VolumeResizeController, which EXTENDS this one.               *)
(***************************************************************************)
EXTENDS Integers, FiniteSets

CONSTANTS
    Replicas,     \* spec.replicas of the StatefulSet
    NumVolumes,   \* number of entries of the VolumeResize's spec.volumes
    NumPVs,       \* bound: persistent volumes that can ever exist
    InitPV,       \* the volume each claim is bound to at the start
    MaxWrites,    \* bound: writes the application makes to one volume
    BindingMode,  \* volumeBindingMode of the storage class
    Faults,       \* the kinds of fault that may happen
    MaxFaults     \* bound: faults in one behaviour

(***************************************************************************)
(* Ordinal 0 is there even without replicas: validateSizeReduction and     *)
(* handleSyncing name the claim of replica 0 without asking for a replica. *)
(***************************************************************************)
Ordinals == IF Replicas = 0 THEN {0} ELSE 0 .. Replicas - 1
Slots    == Ordinals \X (1 .. NumVolumes)
Claims   == Slots \X {"orig", "temp"}
PVs      == 1 .. NumPVs
NoPV     == 0
Unclaimed == << >>
Writes   == Slots \X (1 .. MaxWrites)

orig(s) == <<s, "orig">>
temp(s) == <<s, "temp">>

FaultKinds == {"crash", "api", "podloss", "migfail", "lag", "slow",
               "userdelete", "backuploss"}

ASSUME SizeAssumption ==
    /\ Replicas \in Nat
    /\ NumVolumes \in Nat \ {0}
    /\ NumPVs \in Nat
    /\ MaxWrites \in Nat \ {0}
    /\ MaxFaults \in Nat
    /\ Faults \subseteq FaultKinds
    /\ BindingMode \in {"Immediate", "WaitForFirstConsumer"}

ASSUME InitPVAssumption ==
    /\ InitPV \in [Slots -> PVs]
    /\ \A s, t \in Slots : InitPV[s] = InitPV[t] => s = t

VARIABLES
    sts,     \* the StatefulSet exists
    backup,  \* the backup ConfigMap <vr>-sts-backup exists
    pod,     \* pod of each ordinal
    mig,     \* migrator pod of each slot
    pvc,     \* claim: state, deletion timestamp, spec.volumeName
    pv,      \* volume: state, reclaim policy, claimRef, content
    acked,   \* number of writes the application has had acknowledged
    faults   \* faults so far

clusterVars == <<sts, backup, pod, mig, pvc, pv, acked, faults>>

NoClaim == [st |-> "absent", term |-> FALSE, pv |-> NoPV]
NoMig   == [st |-> "absent", del |-> FALSE, seen |-> TRUE, snap |-> {}]

PodStates == {"absent", "pending", "running", "terminating"}
MigStates == {"absent", "pending", "running", "succeeded", "failed"}

MigRecords   == [st : MigStates, del : BOOLEAN, seen : BOOLEAN,
                 snap : SUBSET Writes]
ClaimRecords == [st : {"absent", "pending", "bound"}, term : BOOLEAN,
                 pv : PVs \cup {NoPV}]
PVRecords    == [st : {"unused", "live", "deleted"},
                 policy : {"Delete", "Retain"},
                 claim : Claims \cup {Unclaimed}, data : SUBSET Writes]

ClusterTypeOK ==
    /\ sts \in BOOLEAN
    /\ backup \in BOOLEAN
    /\ pod \in [Ordinals -> PodStates]
    /\ mig \in [Slots -> MigRecords]
    /\ pvc \in [Claims -> ClaimRecords]
    /\ pv \in [PVs -> PVRecords]
    /\ acked \in [Slots -> 0 .. MaxWrites]
    /\ faults \in 0 .. MaxFaults

(* Every claim has its volume, with one acknowledged write on it. *)
InitialVolume(p) ==
    IF \E s \in Slots : InitPV[s] = p
    THEN LET s == CHOOSE t \in Slots : InitPV[t] = p
         IN  [st |-> "live", policy |-> "Delete", claim |-> orig(s),
              data |-> {<<s, 1>>}]
    ELSE [st |-> "unused", policy |-> "Delete", claim |-> Unclaimed, data |-> {}]

ClusterInit ==
    /\ sts = TRUE
    /\ backup = FALSE
    /\ pod = [r \in Ordinals |-> IF r < Replicas THEN "running" ELSE "absent"]
    /\ mig = [s \in Slots |-> NoMig]
    /\ pvc = [c \in Claims |-> IF c[2] = "orig"
                THEN [st |-> "bound", term |-> FALSE, pv |-> InitPV[c[1]]]
                ELSE NoClaim]
    /\ pv = [p \in PVs |-> InitialVolume(p)]
    /\ acked = [s \in Slots |-> 1]
    /\ faults = 0

-----------------------------------------------------------------------------
(* Faults are drawn from one budget. *)
Fault(kind) == kind \in Faults /\ faults < MaxFaults /\ faults' = faults + 1

Running == {r \in Ordinals : pod[r] = "running"}
Mounted(c) == \* pvc-protection keeps a claim while a started pod mounts it
    \/ mig[c[1]].st = "running"
    \/ c[2] = "orig" /\ pod[c[1][1]] \in {"running", "terminating"}
Held(c) == \* mounted by a pod nobody has asked to go
    \/ mig[c[1]].st = "running" /\ ~ mig[c[1]].del
    \/ c[2] = "orig" /\ pod[c[1][1]] = "running"
Released(p) == \* the claim p is bound to by claimRef is gone or is on another volume
    /\ pv[p].claim # Unclaimed
    /\ pvc[pv[p].claim].pv # p
Acked(s) == {s} \X (1 .. acked[s])
WholeOn(s, p) == p # NoPV /\ Acked(s) \subseteq pv[p].data
-----------------------------------------------------------------------------
(* The StatefulSet controller, the application and its kubelets. *)

StsReconcile(r) ==
    /\ sts /\ r < Replicas /\ pod[r] = "absent"
    /\ \A v \in 1 .. NumVolumes : ~ pvc[orig(<<r, v>>)].term
    /\ pod' = [pod EXCEPT ![r] = "pending"]
    /\ pvc' = [c \in Claims |->
                 IF c[2] = "orig" /\ c[1][1] = r /\ pvc[c].st = "absent"
                 THEN [st |-> "pending", term |-> FALSE, pv |-> NoPV]
                 ELSE pvc[c]]
    /\ UNCHANGED <<sts, backup, mig, pv, acked, faults>>

PodStart(r) ==
    /\ pod[r] = "pending"
    /\ \A v \in 1 .. NumVolumes :
          pvc[orig(<<r, v>>)].st = "bound" /\ ~ pvc[orig(<<r, v>>)].term
    /\ pod' = [pod EXCEPT ![r] = "running"]
    /\ UNCHANGED <<sts, backup, mig, pvc, pv, acked, faults>>

PodGone(r) ==
    /\ pod[r] = "terminating"
    /\ pod' = [pod EXCEPT ![r] = "absent"]
    /\ UNCHANGED <<sts, backup, mig, pvc, pv, acked, faults>>

PodEvicted(r) ==
    /\ Fault("podloss")
    /\ pod[r] = "running"
    /\ pod' = [pod EXCEPT ![r] = "terminating"]
    /\ UNCHANGED <<sts, backup, mig, pvc, pv, acked>>

(* A pod that is told to terminate still writes until it is gone. *)
AppWrite(s) ==
    /\ pod[s[1]] \in {"running", "terminating"}
    /\ acked[s] < MaxWrites
    /\ acked' = [acked EXCEPT ![s] = @ + 1]
    /\ pv' = [pv EXCEPT ![pvc[orig(s)].pv].data = @ \cup {<<s, acked[s] + 1>>}]
    /\ UNCHANGED <<sts, backup, pod, mig, pvc, faults>>
-----------------------------------------------------------------------------
(* The volume controllers. *)

Unbound(c) == pvc[c].st = "pending" /\ pvc[c].pv = NoPV /\ ~ pvc[c].term

HasConsumer(c) ==
    IF c[2] = "orig" THEN pod[c[1][1]] = "pending" ELSE mig[c[1]].st = "pending"

BindTo(c, p) == pvc' = [pvc EXCEPT ![c] = [@ EXCEPT !.st = "bound", !.pv = p]]

(* Dynamic provisioning: the lowest volume number never used. *)
Provision(c) ==
    /\ Unbound(c)
    /\ BindingMode = "Immediate" \/ HasConsumer(c)
    /\ \E p \in PVs :
          /\ pv[p].st = "unused"
          /\ \A q \in PVs : q < p => pv[q].st # "unused"
          /\ BindTo(c, p)
          /\ pv' = [pv EXCEPT ![p] = [st |-> "live", policy |-> "Delete",
                                      claim |-> c, data |-> {}]]
    /\ UNCHANGED <<sts, backup, pod, mig, acked, faults>>

(***************************************************************************)
(* A claim without a volume name binds to a volume nobody claims.  The     *)
(* volume controller takes claims in the order they were made, so a claim  *)
(* that names the volume gets it before a later one that does not.         *)
(***************************************************************************)
Named(p) == \E c \in Claims : pvc[c].st # "absent" /\ pvc[c].pv = p

BindAvailable(c) ==
    /\ Unbound(c)
    /\ BindingMode = "Immediate" \/ HasConsumer(c)
    /\ \E p \in PVs :
          /\ pv[p].st = "live" /\ pv[p].claim = Unclaimed /\ ~ Named(p)
          /\ BindTo(c, p)
          /\ pv' = [pv EXCEPT ![p].claim = c]
    /\ UNCHANGED <<sts, backup, pod, mig, acked, faults>>

(* A claim that names its volume, bound or not, takes it when it is free. *)
BindNamed(c) ==
    /\ pvc[c].st # "absent" /\ pvc[c].pv # NoPV
    /\ pv[pvc[c].pv].st = "live" /\ pv[pvc[c].pv].claim = Unclaimed
    /\ BindTo(c, pvc[c].pv)
    /\ pv' = [pv EXCEPT ![pvc[c].pv].claim = c]
    /\ UNCHANGED <<sts, backup, pod, mig, acked, faults>>

PvcGone(c) ==
    /\ pvc[c].term /\ ~ Mounted(c)
    /\ pvc' = [pvc EXCEPT ![c] = NoClaim]
    /\ UNCHANGED <<sts, backup, pod, mig, pv, acked, faults>>

(* A released volume is deleted unless its policy is Retain. *)
ReclaimPV(p) ==
    /\ pv[p].st = "live" /\ pv[p].policy = "Delete" /\ Released(p)
    /\ pv' = [pv EXCEPT ![p].st = "deleted"]
    /\ UNCHANGED <<sts, backup, pod, mig, pvc, acked, faults>>
-----------------------------------------------------------------------------
(***************************************************************************)
(* The migrator pods (build/migrator/migrate.sh): rclone sync makes the    *)
(* destination what the source is, without what is written meanwhile or    *)
(* with it.                                                                *)
(***************************************************************************)

(* The claims buildMigratorPod mounts at /source and /dest. *)
Source(s) == orig(s)
Target(s) == temp(s)

MigStart(s) ==
    /\ mig[s].st = "pending" /\ ~ mig[s].del
    /\ \A c \in {Source(s), Target(s)} : pvc[c].st = "bound" /\ ~ pvc[c].term
    /\ mig' = [mig EXCEPT ![s] = [@ EXCEPT !.st = "running",
                                   !.snap = pv[pvc[Source(s)].pv].data]]
    /\ UNCHANGED <<sts, backup, pod, pvc, pv, acked, faults>>

(* Mutant: the arguments of rclone sync are swapped. *)
SyncBackwards(s) ==
    /\ mig[s].st = "running"
    /\ mig' = [mig EXCEPT ![s] = [@ EXCEPT !.st = "succeeded", !.snap = {}]]
    /\ pv' = [pv EXCEPT ![pvc[Source(s)].pv].data = pv[pvc[Target(s)].pv].data]
    /\ UNCHANGED <<sts, backup, pod, pvc, acked, faults>>

MigSucceed(s) ==
    /\ mig[s].st = "running"
    /\ mig' = [mig EXCEPT ![s] = [@ EXCEPT !.st = "succeeded", !.snap = {}]]
    /\ \E copied \in {mig[s].snap, pv[pvc[Source(s)].pv].data} :
          pv' = [pv EXCEPT ![pvc[Target(s)].pv].data = copied]
    /\ UNCHANGED <<sts, backup, pod, pvc, acked, faults>>

(* rclone fails, or is killed with a pod that is told to go. *)
MigFail(s) ==
    /\ mig[s].st = "running"
    /\ Fault("migfail") \/ (mig[s].del /\ UNCHANGED faults)
    /\ mig' = [mig EXCEPT ![s] = [@ EXCEPT !.st = "failed", !.snap = {}]]
    /\ UNCHANGED <<sts, backup, pod, pvc, pv, acked>>

(* Eviction, a node drain or a kubectl delete of the migrator pod. *)
MigLost(s) ==
    /\ Fault("podloss")
    /\ mig[s].st # "absent" /\ ~ mig[s].del
    /\ mig' = [mig EXCEPT ![s].del = TRUE]
    /\ UNCHANGED <<sts, backup, pod, pvc, pv, acked>>

MigGone(s) ==
    /\ mig[s].del
    /\ mig' = [mig EXCEPT ![s] = NoMig]
    /\ UNCHANGED <<sts, backup, pod, pvc, pv, acked, faults>>

(* The operator's pod informer catches up with a pod it created. *)
CacheSync(s) ==
    /\ ~ mig[s].seen
    /\ mig' = [mig EXCEPT ![s].seen = TRUE]
    /\ UNCHANGED <<sts, backup, pod, pvc, pv, acked, faults>>

(* Somebody deletes the backup ConfigMap. *)
BackupLost ==
    /\ Fault("backuploss")
    /\ backup
    /\ backup' = FALSE
    /\ UNCHANGED <<sts, pod, mig, pvc, pv, acked>>
-----------------------------------------------------------------------------
PodStep(r) == StsReconcile(r) \/ PodStart(r) \/ PodGone(r) \/ PodEvicted(r)
VolumeStep(c) == Provision(c) \/ BindAvailable(c) \/ BindNamed(c) \/ PvcGone(c)
MigStep(s) == MigStart(s) \/ MigSucceed(s) \/ MigFail(s) \/ MigLost(s)
              \/ MigGone(s) \/ CacheSync(s)

ClusterNext ==
    \/ \E r \in Ordinals : PodStep(r)
    \/ \E c \in Claims : VolumeStep(c)
    \/ \E p \in PVs : ReclaimPV(p)
    \/ \E s \in Slots : AppWrite(s) \/ MigStep(s)
    \/ BackupLost
=============================================================================
