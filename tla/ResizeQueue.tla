------------------------------ MODULE ResizeQueue ------------------------------
(***************************************************************************)
(* The operator over a campaign: several VolumeResizes, one after the      *)
(* other for a StatefulSet or side by side for different ones, all served  *)
(* by the one worker SetupWithManager gives the controller, out of a cache *)
(* that lags.  Module VolumeResizeController looks at one migration one    *)
(* write at a time; here a step of a run is what happens between two of    *)
(* its waits, and what is looked at is what one migration leaves behind    *)
(* for the next: backups, claims, migrator pods, sizes, old versions.      *)
(***************************************************************************)
EXTENDS Volmig, Cursor

CONSTANTS
    MaxReplicas,   \* bound: replicas a StatefulSet is scaled to
    InitReplicas,  \* replicas of a StatefulSet at the start
    InitSize,      \* size of its claims at the start
    Need,          \* room the data of each replica takes
    MaxEdits,      \* bound: edits of a StatefulSet by its users
    Hanging        \* VolumeResizes whose migrators may hang for ever

Ordinals == 0 .. MaxReplicas - 1
Slots    == Sets \X Ordinals      \* of the one volume that is resized
Movers   == Names \X Ordinals     \* <vr>-migrator-<replica>-<volume>

ASSUME QueueAssumption ==
    /\ MaxReplicas \in Nat \ {0} /\ InitReplicas \in 1 .. MaxReplicas
    /\ InitSize \in Nat /\ \A size \in Sizes : size <= InitSize
    /\ Need \in [Slots -> 0 .. InitSize]
    /\ MaxEdits \in Nat
    /\ NoName \notin Names /\ Hanging \subseteq Names

VARIABLES
    sts,     \* each StatefulSet: up, what its users wrote, template size, and
             \* the VolumeResize that took it away
    want,    \* what its users wrote last: revision and replicas
    backup,  \* ConfigMap <vr>-sts-backup
    claim,   \* claim of each slot: size asked for, size of its volume, and
             \* whether all the data is on it
    temp,    \* temporary claim of each slot, and the VolumeResize of its label
    pod,     \* pod of each replica
    mig,     \* migrator pods, under names without a StatefulSet
    run      \* the call of Reconcile under way: name, step, copy in memory

clusterVars == <<sts, want, backup, claim, temp, pod, mig>>
vars == <<requestVars, session, clusterVars, run>>

NoBackup == [set |-> NoSet, rev |-> 0, replicas |-> 0, tmpl |-> 0]
NoClaim  == [size |-> 0, cap |-> 0, full |-> FALSE]
NoTemp   == [owner |-> NoName, cap |-> 0, full |-> FALSE, dying |-> FALSE]
NoMover  == [set |-> NoSet, st |-> "absent", dying |-> FALSE]
Idle     == [name |-> NoName, at |-> "idle", vr |-> GoneAfter(0)]

Init ==
    /\ RequestsInit /\ VolmigInit
    /\ sts = [s \in Sets |-> [up |-> TRUE, rev |-> 0, replicas |-> InitReplicas,
                              tmpl |-> InitSize, by |-> NoName]]
    /\ want = [s \in Sets |-> [rev |-> 0, replicas |-> InitReplicas]]
    /\ backup = [n \in Names |-> NoBackup]
    /\ claim = [c \in Slots |-> IF c[2] < InitReplicas
                  THEN [size |-> InitSize, cap |-> InitSize, full |-> TRUE]
                  ELSE NoClaim]
    /\ temp = [c \in Slots |-> NoTemp]
    /\ pod = [c \in Slots |-> IF c[2] < InitReplicas THEN "up" ELSE "down"]
    /\ mig = [m \in Movers |-> NoMover]
    /\ run = Idle
-----------------------------------------------------------------------------
(* The run under way. *)

At(at) == run.at = at
Cur == <<run.vr.set, run.vr.cur>>
CurMover == <<run.name, run.vr.cur>>

Goto(at) == run' = [run EXCEPT !.at = at] /\ UNCHANGED requestVars

(* A requeue or an error sends the name back to the end of the queue. *)
Requeue == run' = Idle /\ queue' = Added(run.name) /\ UNCHANGED trail

NeverGiveUp == FALSE  \* mutant: the waits have no end

(* The same after a wait of minutes, which the cache does not lag behind. *)
GiveUpWaiting == Len(trail[run.name]) = 1 /\ Requeue

NeverRefused == FALSE  \* mutant: the last write wins

(* The copy the run works with is not the one that is stored. *)
Refused == run.vr # Stored(run.name)

(* A write of the VolumeResize.  When it is refused, the error sends the name
   back; else the run goes on or ends. *)
Save(v, at) ==
    /\ HasRoom(run.name)
    /\ IF Refused THEN Requeue
       ELSE /\ Store(run.name, v)
            /\ IF at = "idle" THEN run' = Idle /\ queue' = Added(run.name)
               ELSE run' = [run EXCEPT !.at = at, !.vr = v] /\ UNCHANGED queue

Fail == Save([run.vr EXCEPT !.phase = "Failed"], "idle")

(* handleSyncing goes on to the next slot, or ends the migration. *)
Advanced(v) ==
    LET next == NextCursor(<<"data">>, v.total - 1, v.cur, "data")
    IN  IF next = Done THEN [v EXCEPT !.phase = "Completed", !.cur = 0]
        ELSE [v EXCEPT !.cur = next[1]]

NeverCompleted(v) == FALSE  \* mutant: a completed slot is not looked for

SlotCompleted(v) == v.cur \in v.done

(* Where Reconcile takes a VolumeResize it reads from the cache. *)
Route(v) ==
    CASE v.phase = "Gone"       -> "idle"
      [] v.phase # "Gone" /\ v.deleting -> "deletion"
      [] v.phase # "Gone" /\ ~ v.deleting /\ ~ v.finalizer -> "finalizer"
      [] OTHER -> CASE v.phase = "Pending"    -> "pending"
                    [] v.phase = "Validating" -> "validating"
                    [] v.phase = "Syncing" -> IF SlotCompleted(v)
                                              THEN "advance" ELSE "prepare"
                    [] OTHER -> "idle"

(* The worker takes the next name. *)
Begin ==
    /\ run = Idle /\ queue # << >>
    /\ LET n == Head(queue)
       IN  run' = IF Route(Cached(n)) = "idle" THEN Idle
                  ELSE [name |-> n, at |-> Route(Cached(n)), vr |-> Cached(n)]
    /\ queue' = Tail(queue)
    /\ UNCHANGED <<trail, session, clusterVars>>
-----------------------------------------------------------------------------
(* The phase handlers up to Syncing. *)

AddFinalizer ==
    /\ At("finalizer")
    /\ Save([run.vr EXCEPT !.finalizer = TRUE], "idle")
    /\ UNCHANGED <<session, clusterVars>>

HandlePending ==
    /\ At("pending")
    /\ Save([run.vr EXCEPT !.phase = "Validating"], "idle")
    /\ UNCHANGED <<session, clusterVars>>

NotCompared(v) == TRUE  \* mutant: the size is not looked at

(* validateSizeReduction asks the claim of replica 0 for all of them. *)
Smaller(v) == v.size < claim[<<v.set, 0>>].size

HandleValidating ==
    /\ At("validating")
    /\ LET s == sts[run.vr.set]
       IN  IF s.up /\ Smaller(run.vr)
           THEN Save([run.vr EXCEPT !.phase = "Syncing", !.total = s.replicas], "idle")
           ELSE Fail
    /\ UNCHANGED <<session, clusterVars>>
-----------------------------------------------------------------------------
(* handleSyncing, for the slot of the cursor. *)

AdvanceCompleted ==
    /\ At("advance")
    /\ Save(Advanced(run.vr), "idle")
    /\ UNCHANGED <<session, clusterVars>>

(* A replica that has no claim yet fails the migration; createTempPVC takes a
   claim that is there, whoever made it. *)
Prepare ==
    /\ At("prepare")
    /\ IF claim[Cur] = NoClaim THEN Fail /\ UNCHANGED temp
       ELSE /\ temp' = [temp EXCEPT ![Cur] =
                          IF @ = NoTemp THEN [NoTemp EXCEPT !.owner = run.name,
                                                            !.cap = run.vr.size] ELSE @]
            /\ Goto(IF run.vr.stsDeleted THEN "stop" ELSE "backup")
    /\ UNCHANGED <<session, sts, want, backup, claim, pod, mig>>

SpecOf(s) == [set |-> s, rev |-> sts[s].rev, replicas |-> sts[s].replicas,
              tmpl |-> sts[s].tmpl]

(* Mutant: the first backup in the namespace is enough for everybody. *)
BackupOnce ==
    LET s == run.vr.set IN
    /\ At("backup")
    /\ backup' = [backup EXCEPT ![run.name] =
                    IF \E n \in Names : backup[n].set = s
                    THEN backup[CHOOSE n \in Names : backup[n].set = s]
                    ELSE SpecOf(s)]
    /\ Goto(IF sts[s].up THEN "delete" ELSE "stop")
    /\ UNCHANGED <<session, sts, want, claim, temp, pod, mig>>

(* A backup that is there is kept; a StatefulSet that is not there is not
   missed. *)
BackupSts ==
    LET s == run.vr.set IN
    /\ At("backup")
    /\ backup' = [backup EXCEPT ![run.name] =
                    IF sts[s].up /\ @ = NoBackup THEN SpecOf(s) ELSE @]
    /\ Goto(IF sts[s].up THEN "delete" ELSE "stop")
    /\ UNCHANGED <<session, sts, want, claim, temp, pod, mig>>

DeleteSts ==
    /\ At("delete")
    /\ sts' = [sts EXCEPT ![run.vr.set] = [@ EXCEPT !.up = FALSE, !.by = run.name]]
    /\ Save([run.vr EXCEPT !.stsDeleted = TRUE], "stop")
    /\ UNCHANGED <<session, want, backup, claim, temp, pod, mig>>

StopPod ==
    /\ At("stop")
    /\ pod' = [pod EXCEPT ![Cur] = IF @ = "up" THEN "ending" ELSE @]
    /\ Goto("await")
    /\ UNCHANGED <<session, sts, want, backup, claim, temp, mig>>

NotAwaited == TRUE  \* mutant: the migrator does not wait for the pod

PodIsGone == pod[Cur] = "down"

(* Two minutes, then the run is given up for the time being; a migrator pod
   of that name is taken as it is. *)
AwaitPod ==
    /\ At("await")
    /\ IF PodIsGone
       THEN /\ mig' = [mig EXCEPT ![CurMover] =
                         IF @ = NoMover THEN [NoMover EXCEPT !.set = run.vr.set,
                                                             !.st = "pending"] ELSE @]
            /\ Goto("copy")
       ELSE GiveUpWaiting /\ UNCHANGED mig
    /\ UNCHANGED <<session, sts, want, backup, claim, temp, pod>>

NeverFailed == FALSE  \* mutant: a migrator that failed is good enough

CopyUnderWay == mig[CurMover].st \in {"pending", "running"}
CopyFailed == mig[CurMover].st = "bad"

(* An hour, then a copy under way is left for later; a pod that is not
   found is taken for one that is finished. *)
AwaitCopy ==
    /\ At("copy")
    /\ mig' = [mig EXCEPT ![CurMover].dying =
                 @ \/ (mig[CurMover] # NoMover /\ ~ CopyUnderWay /\ ~ CopyFailed)]
    /\ \/ CopyUnderWay /\ GiveUpWaiting
       \/ CopyFailed /\ Fail
       \/ ~ CopyUnderWay /\ ~ CopyFailed /\ Goto("swap")
    /\ UNCHANGED <<session, sts, want, backup, claim, temp, pod>>

(* replacePVC and the write that follows it.  No pod has the claim mounted
   here (SwapsOnlyStopped), so the claims go when they are told to. *)
Swap ==
    /\ At("swap") /\ pod[Cur] = "down"
    /\ IF temp[Cur] = NoTemp THEN Fail /\ UNCHANGED <<claim, temp>>
       ELSE /\ claim' = [claim EXCEPT ![Cur] =
                           [size |-> run.vr.size, cap |-> temp[Cur].cap,
                            full |-> temp[Cur].full]]
            /\ temp' = [temp EXCEPT ![Cur] = NoTemp]
            /\ Save([run.vr EXCEPT !.done = @ \cup {run.vr.cur}], "recreate")
    /\ UNCHANGED <<session, sts, want, backup, pod, mig>>

OldTemplate(b) == b.tmpl  \* mutant: the template keeps its size

NewTemplate(b) == run.vr.size

(* The StatefulSet of the backup, with the new size in its template; one
   that is already there is left alone. *)
Recreate ==
    LET b == backup[run.name] IN
    /\ At("recreate")
    /\ IF b = NoBackup THEN Fail /\ UNCHANGED sts
       ELSE /\ sts' = [sts EXCEPT ![b.set] =
                         IF @.up THEN @
                         ELSE [up |-> TRUE, rev |-> b.rev, replicas |-> b.replicas,
                               tmpl |-> NewTemplate(b), by |-> NoName]]
            /\ Save([run.vr EXCEPT !.stsDeleted = FALSE], "check")
    /\ UNCHANGED <<session, want, backup, claim, temp, pod, mig>>

CheckPod ==
    /\ At("check")
    /\ IF pod[Cur] = "down" THEN Requeue ELSE Save(Advanced(run.vr), "idle")
    /\ UNCHANGED <<session, clusterVars>>

NotListed(c) == FALSE  \* mutant: the temporary claims are not listed

Labelled(c) == temp[c].owner = run.name

(* handleDeletion: what carries the label of this VolumeResize goes. *)
HandleDeletion ==
    /\ At("deletion")
    /\ temp' = [c \in Slots |-> IF Labelled(c)
                  THEN [temp[c] EXCEPT !.dying = TRUE] ELSE temp[c]]
    /\ mig' = [m \in Movers |-> IF m[1] = run.name /\ mig[m] # NoMover
                  THEN [mig[m] EXCEPT !.dying = TRUE] ELSE mig[m]]
    /\ Save(GoneAfter(run.vr.incarnation), "idle")
    /\ UNCHANGED <<session, sts, want, backup, claim, pod>>

HandleSyncing ==
    \/ AdvanceCompleted \/ Prepare \/ BackupSts \/ DeleteSts \/ StopPod \/ AwaitPod
    \/ AwaitCopy \/ Swap \/ Recreate \/ CheckPod

Reconcile ==
    \/ Begin \/ AddFinalizer \/ HandlePending \/ HandleValidating
    \/ HandleSyncing \/ HandleDeletion
-----------------------------------------------------------------------------
(* The cluster: the StatefulSet controller, the migrators, the deletes. *)

Rest == UNCHANGED <<requestVars, session, run>>

(* A pod starts when its claim fits its volume; a new replica gets a claim
   of the template's size. *)
StartPod(c) ==
    LET s == sts[c[1]] IN
    /\ s.up /\ c[2] < s.replicas
    /\ pod[c] = "down" /\ claim[c].size <= claim[c].cap
    /\ pod' = [pod EXCEPT ![c] = "up"]
    /\ claim' = [claim EXCEPT ![c] = IF @ = NoClaim
                   THEN [size |-> s.tmpl, cap |-> s.tmpl, full |-> TRUE] ELSE @]
    /\ UNCHANGED <<sts, want, backup, temp, mig>> /\ Rest

PodEnds(c) ==
    /\ pod[c] = "ending"
    /\ pod' = [pod EXCEPT ![c] = "down"]
    /\ UNCHANGED <<sts, want, backup, claim, temp, mig>> /\ Rest

PrunePod(c) ==
    /\ sts[c[1]].up /\ c[2] >= sts[c[1]].replicas /\ pod[c] = "up"
    /\ pod' = [pod EXCEPT ![c] = "ending"]
    /\ UNCHANGED <<sts, want, backup, claim, temp, mig>> /\ Rest

SlotOf(m) == <<mig[m].set, m[2]>>

MigStarts(m) ==
    /\ mig[m].st = "pending" /\ ~ mig[m].dying
    /\ temp[SlotOf(m)] # NoTemp /\ ~ temp[SlotOf(m)].dying
    /\ mig' = [mig EXCEPT ![m].st = "running"]
    /\ UNCHANGED <<sts, want, backup, claim, temp, pod>> /\ Rest

(* The copy is whole when there is room and nobody wrote meanwhile. *)
MigEnds(m) ==
    /\ mig[m].st = "running" /\ temp[SlotOf(m)].cap >= Need[SlotOf(m)]
    /\ mig' = [mig EXCEPT ![m].st = "ok"]
    /\ temp' = [temp EXCEPT ![SlotOf(m)].full =
                  claim[SlotOf(m)].full /\ pod[SlotOf(m)] = "down"]
    /\ UNCHANGED <<sts, want, backup, claim, pod>> /\ Rest

MigFails(m) ==
    /\ mig[m].st = "running" /\ temp[SlotOf(m)].cap < Need[SlotOf(m)]
    /\ mig' = [mig EXCEPT ![m].st = "bad"]
    /\ UNCHANGED <<sts, want, backup, claim, temp, pod>> /\ Rest

MigGoes(m) ==
    /\ mig[m].dying
    /\ mig' = [mig EXCEPT ![m] = NoMover]
    /\ UNCHANGED <<sts, want, backup, claim, temp, pod>> /\ Rest

TempGoes(c) ==
    /\ temp[c].dying
    /\ \A m \in Movers : mig[m].st = "running" => SlotOf(m) # c
    /\ temp' = [temp EXCEPT ![c] = NoTemp]
    /\ UNCHANGED <<sts, want, backup, claim, pod, mig>> /\ Rest

ClusterStep ==
    \/ \E c \in Slots : StartPod(c) \/ PodEnds(c) \/ PrunePod(c) \/ TempGoes(c)
    \/ \E m \in Movers : MigStarts(m) \/ MigEnds(m) \/ MigFails(m) \/ MigGoes(m)
-----------------------------------------------------------------------------
(* The users, apart from volmig. *)

Quiet(s) == \A n \in Names : About(n, s) => ~ Unended(n)

(* kubectl apply: a new revision, scaled or not. *)
Edit(s) ==
    /\ sts[s].up /\ want[s].rev < MaxEdits
    /\ Quiet(s) \/ "busyEdit" \in Habits
    /\ \E replicas \in 1 .. MaxReplicas :
          LET new == [rev |-> want[s].rev + 1, replicas |-> replicas]
          IN  /\ want' = [want EXCEPT ![s] = new]
              /\ sts' = [sts EXCEPT ![s] = [@ EXCEPT !.rev = new.rev,
                                                     !.replicas = replicas]]
    /\ UNCHANGED <<backup, claim, temp, pod, mig>> /\ Rest

(* "The backup ConfigMap contains the original StatefulSet spec for manual
   recovery". *)
Restore(s) ==
    LET b == backup[sts[s].by] IN
    /\ ~ sts[s].up /\ Quiet(s) /\ b.set = s
    /\ sts' = [sts EXCEPT ![s] = [up |-> TRUE, rev |-> b.rev, replicas |-> b.replicas,
                                  tmpl |-> b.tmpl, by |-> NoName]]
    /\ UNCHANGED <<want, backup, claim, temp, pod, mig>> /\ Rest

UserStep ==
    \/ \E t \in Terminals : VolmigStep(t) /\ UNCHANGED <<clusterVars, run>>
    \/ \E s \in Sets : Edit(s) \/ Restore(s)

Informer(n) == CatchUp(n, run.name = n) /\ UNCHANGED <<session, clusterVars, run>>

Next ==
    \/ Reconcile
    \/ \E n \in Names : Informer(n)
    \/ ClusterStep
    \/ UserStep

Spec == Init /\ [][Next]_vars

(***************************************************************************)
(* The worker, the informer and the cluster keep working, and a watch      *)
(* keeps polling.  No user has to do anything, and the migrators of a      *)
(* hanging VolumeResize need not end.  The queue is first in, first out:   *)
(* nothing stronger than WF is asked of it.                                *)
(***************************************************************************)
Fairness ==
    /\ WF_vars(Reconcile)
    /\ \A n \in Names : WF_vars(Informer(n))
    /\ \A c \in Slots :
          WF_vars(StartPod(c)) /\ WF_vars(PodEnds(c)) /\ WF_vars(TempGoes(c))
    /\ \A m \in Movers :
          /\ WF_vars(MigStarts(m)) /\ WF_vars(MigGoes(m))
          /\ m[1] \notin Hanging => WF_vars(MigEnds(m) \/ MigFails(m))
    /\ \A t \in Terminals : WF_vars(Poll(t) /\ UNCHANGED <<clusterVars, run>>)

FairSpec == Spec /\ Fairness
=============================================================================
