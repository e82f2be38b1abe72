------------------------- MODULE ResizeQueueProperties -------------------------
(***************************************************************************)
(* What the users of several VolumeResizes rely on: what one migration     *)
(* leaves behind does not harm the next, and the sole worker gets to all.  *)
(***************************************************************************)
EXTENDS ResizeQueue

RequestRecords ==
    [incarnation : Nat, set : Sets \cup {NoSet}, size : Sizes \cup {0},
     phase : Phases, cur : Ordinals, total : 0 .. MaxReplicas,
     done : SUBSET Ordinals, stsDeleted : BOOLEAN, finalizer : BOOLEAN,
     deleting : BOOLEAN]
Steps == {"idle", "deletion", "finalizer", "pending", "validating", "advance",
          "prepare", "backup", "delete", "stop", "await", "copy", "swap",
          "recreate", "check"}
AnySize == Sizes \cup {0, InitSize}

(* Every variable keeps its type, and the cache its bound. *)
QueueTypeOK ==
    /\ \A n \in Names :
          /\ Len(trail[n]) \in 1 .. Lag + 1
          /\ \A i \in 1 .. Len(trail[n]) : trail[n][i] \in RequestRecords
    /\ \A i \in 1 .. Len(queue) :
          queue[i] \in Names /\ \A j \in 1 .. i - 1 : queue[j] # queue[i]
    /\ session \in [Terminals ->
          [cmd : {"none", "create", "delete", "watch"}, name : Names \cup {NoName},
           set : Sets \cup {NoSet}, size : Sizes \cup {0}]]
    /\ sts \in [Sets -> [up : BOOLEAN, rev : 0 .. MaxEdits,
                         replicas : 1 .. MaxReplicas, tmpl : AnySize,
                         by : Names \cup {NoName}]]
    /\ want \in [Sets -> [rev : 0 .. MaxEdits, replicas : 1 .. MaxReplicas]]
    /\ backup \in [Names -> [set : Sets \cup {NoSet}, rev : 0 .. MaxEdits,
                             replicas : 0 .. MaxReplicas, tmpl : AnySize]]
    /\ claim \in [Slots -> [size : AnySize, cap : AnySize, full : BOOLEAN]]
    /\ temp \in [Slots -> [owner : Names \cup {NoName}, cap : AnySize,
                           full : BOOLEAN, dying : BOOLEAN]]
    /\ pod \in [Slots -> {"up", "ending", "down"}]
    /\ mig \in [Movers -> [set : Sets \cup {NoSet}, dying : BOOLEAN,
                  st : {"absent", "pending", "running", "ok", "bad"}]]
    /\ run \in [name : Names \cup {NoName}, at : Steps, vr : RequestRecords]
-----------------------------------------------------------------------------
(* The StatefulSets. *)

(* While a StatefulSet is away, the backup under the name of the VolumeResize
   that took it away is what its users wrote last: what recreateSTS and a
   recovery by hand bring back is theirs (statefulset.go:96-144). *)
AwayIsBackedUp ==
    \A s \in Sets : ~ sts[s].up =>
        LET b == backup[sts[s].by]
        IN  b.set = s /\ [rev |-> b.rev, replicas |-> b.replicas] = want[s]

(* A StatefulSet that is there is the one its users wrote last: no migration
   takes an edit back, however old the backup it recreates from. *)
ReturnsAsWanted ==
    \A s \in Sets : sts[s].up =>
        [rev |-> sts[s].rev, replicas |-> sts[s].replicas] = want[s]
-----------------------------------------------------------------------------
(* The data. *)

(* No claim ever loses data, whatever migrations before left in the temporary
   claims and under the names of the migrator pods. *)
ClaimsKeepData == \A c \in Slots : claim[c] # NoClaim => claim[c].full

(* A claim fits the volume it is bound to: else its pod never starts again.
   createTempPVC takes a temporary claim as it finds it (pvc.go:60-63). *)
ClaimsFit == \A c \in Slots : claim[c].size <= claim[c].cap

(* No claim grows: validateSizeReduction looks at replica 0 alone, and the
   others are never smaller than it. *)
NeverGrows == [][\A c \in Slots :
                    claim[c] # NoClaim => claim'[c].size <= claim[c].size]_vars

(* A copy fails only where the data does not fit the size that was asked for:
   a smaller temporary claim an earlier attempt left behind is not used. *)
FailsForLackOfRoom ==
    \A m \in Movers : mig[m].st = "bad" => Stored(m[1]).size < Need[SlotOf(m)]

(* A migrator copies only while the pod that writes to its source is down, also
   when the migration before, or its deletion, brought the pod back. *)
CopiesStill ==
    \A m \in Movers : mig[m].st = "running" /\ ~ mig[m].dying
                         => pod[SlotOf(m)] = "down"

(* A run that is about to swap the claims of a slot finds its pod down, even if
   it was started from an old version of the VolumeResize. *)
SwapsOnlyStopped == At("swap") => pod[Cur] = "down"
-----------------------------------------------------------------------------
(* The migrations. *)

(* A slot whose completion is stored is not prepared again by a run that read
   the VolumeResize from the cache ("This ensures we don't re-process this
   replica", volumeresize_controller.go:347-348). *)
NoSlotTwice ==
    At("prepare") /\ Stored(run.name).incarnation = run.vr.incarnation
        => run.vr.cur \notin Stored(run.name).done

(* A migration that becomes Completed has moved every replica its users want
   to the new size, and new replicas get that size as well, although the
   number of replicas and the template were read long before. *)
CompletesAllReplicas ==
    [][\A n \in Names : Stored(n).phase # "Completed" /\ Stored(n)'.phase = "Completed"
          => LET s == Stored(n).set
             IN  /\ sts[s].up /\ sts[s].tmpl = Stored(n).size
                 /\ \A r \in 0 .. want[s].replicas - 1 :
                       claim[<<s, r>>].size = Stored(n).size]_vars

(* The exit code 0 of volmig watch means that the volumes have been made as
   small as that VolumeResize asks for, and hold all their data. *)
ZeroExitMeansMoved ==
    [][\A t \in Terminals :
          LET v == Stored(session[t].name)
          IN  Running(t, "watch") /\ session'[t] = Prompt /\ WatchCode(v.phase) = 0
             => v.total > 0 /\ \A r \in 0 .. v.total - 1 :
                       LET c == claim[<<v.set, r>>]
                       IN  c.size <= v.size /\ c.full]_vars

(* The life cycle of one VolumeResize of so many replicas, as it is stored; its
   cursor is set when the replicas are counted. *)
Lifecycle(n, total) == INSTANCE MigrationLifecycle WITH
    AllSlots <- (0 .. total - 1) \X {1}, NumVolumes <- 1,
    phase <- Stored(n).phase,
    cur <- IF Stored(n).total = 0 \/ Stored(n).phase = "Completed" THEN << >>
           ELSE <<Stored(n).cur, 1>>,
    done <- Stored(n).done \X {1}

(* Every VolumeResize that was made keeps to the life cycle of
   MigrationLifecycle until it is gone: out of an old copy of it no step is
   undone, done twice or left out, and none comes back from the dead. *)
EachFollowsLifecycle ==
    [][\A n \in Names :
          \/ ~ Exists(n) /\ Stored(n)'.incarnation = Stored(n).incarnation + 1
             /\ Stored(n)'.phase = "Pending"
          \/ ~ Exists(n)'
          \/ \E total \in 0 .. MaxReplicas :
                /\ Stored(n)'.total = total
                /\ [Lifecycle(n, total)!LifecycleNext]_(Lifecycle(n, total)!lifecycle)]_vars

(* The sole worker gets to every VolumeResize: each migration ends and each
   delete is carried out, also while the migrators of another one hang and the
   worker waits for them an hour at a time. *)
EveryRequestEnds ==
    \A n \in Names \ Hanging :
        Unended(n) \/ Stored(n).deleting ~> ~ Unended(n) /\ ~ Stored(n).deleting

(* A volmig watch returns, unless its migration hangs. *)
WatchersEnd ==
    \A t \in Terminals, n \in Names \ Hanging :
        session[t] = Command("watch", n) /\ Exists(n) ~> ~ Running(t, "watch")
-----------------------------------------------------------------------------
(* The order of the slots, for any spec.volumes. *)

VolumeLists == UNION {[1 .. k -> {"data", "logs"}] : k \in 1 .. 2}
Distinct(vols) == \A i, j \in 1 .. Len(vols) : vols[i] = vols[j] => i = j

(* The slots getNextVolumeReplica goes through from the first one of a replica
   on, and what it has to go through. *)
WalkFrom(vols, r, maxReplica) ==
    LET walk[k \in 0 .. Len(vols) * (maxReplica + 1 - r)] ==
            IF k = 0 THEN <<r, vols[1]>>
            ELSE NextCursor(vols, maxReplica, walk[k - 1][1], walk[k - 1][2])
    IN  walk
InOrder(vols, r, maxReplica) ==
    [k \in 0 .. Len(vols) * (maxReplica + 1 - r) |->
        IF k = Len(vols) * (maxReplica + 1 - r) THEN Done
        ELSE <<r + k \div Len(vols), vols[(k % Len(vols)) + 1]>>]

(* From the slot of the run on, every slot comes up once, replica by replica
   and in the order of spec.volumes, and then the end: if and only if the
   volumes have distinct names.  With a repeated one the cursor turns back at
   its second entry, and nothing checks for it
   (volumeresize_controller.go:526-533). *)
CursorWalksInOrder ==
    At("check") =>
        \A vols \in VolumeLists :
            WalkFrom(vols, run.vr.cur, run.vr.total - 1)
                = InOrder(vols, run.vr.cur, run.vr.total - 1) <=> Distinct(vols)
=============================================================================
