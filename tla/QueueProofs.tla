------------------------------ MODULE QueueProofs ------------------------------
(***************************************************************************)
(* The campaign: for any number of VolumeResizes, StatefulSets, replicas   *)
(* and terminals, however far the cache lags and whatever the habits of    *)
(* the users, every variable keeps its type and every VolumeResize follows *)
(* the life cycle of module MigrationLifecycle; while the cache is at most *)
(* one write behind, no slot is prepared again once it is completed.  And  *)
(* what getNextVolumeReplica does with any spec.volumes.                   *)
(***************************************************************************)
EXTENDS ResizeQueueProperties, TLAPS, WellFoundedInduction

-----------------------------------------------------------------------------
(* The invariant. *)

(* A version of a VolumeResize: its progress fits its phase. *)
VersionOK(v) ==
    /\ v \in RequestRecords
    /\ v.phase # "Gone" => v.set \in Sets
    /\ v.phase \in {"Pending", "Validating"} => v.total = 0 /\ v.cur = 0 /\ v.done = {}
    /\ v.phase = "Syncing" => v.cur < v.total /\ v.done \in {0 .. v.cur - 1, 0 .. v.cur}

TrailOK ==
    /\ trail \in [Names -> Seq(RequestRecords)]
    /\ \A n \in Names :
          /\ Len(trail[n]) \in 1 .. Lag + 1
          /\ \A i \in 1 .. Len(trail[n]) : VersionOK(trail[n][i])

QueueOK ==
    /\ queue \in Seq(Names)
    /\ \A i \in 1 .. Len(queue) : \A j \in 1 .. i - 1 : queue[j] # queue[i]

SessionOK ==
    /\ session \in [Terminals ->
          [cmd : {"none", "create", "delete", "watch"}, name : Names \cup {NoName},
           set : Sets \cup {NoSet}, size : Sizes \cup {0}]]
    /\ \A t \in Terminals :
          /\ session[t].cmd # "none" => session[t].name \in Names
          /\ session[t].cmd = "create" => session[t].set \in Sets

BeforeSwap == {"prepare", "backup", "delete", "stop", "await", "copy", "swap"}
AfterSwap  == {"advance", "recreate", "check"}

(* The run works on a version of its VolumeResize that is there, in the phase
   its step belongs to; a slot is completed from its swap on. *)
RunOK ==
    \/ run = Idle
    \/ /\ run \in [name : Names, at : Steps \ {"idle"}, vr : RequestRecords]
       /\ VersionOK(run.vr) /\ run.vr.phase # "Gone"
       /\ run.at = "pending" => run.vr.phase = "Pending"
       /\ run.at = "validating" => run.vr.phase = "Validating"
       /\ run.at \in BeforeSwap \cup AfterSwap => run.vr.phase = "Syncing"
       /\ run.at \in AfterSwap => run.vr.cur \in run.vr.done

StsOK ==
    /\ sts \in [Sets -> [up : BOOLEAN, rev : 0 .. MaxEdits,
                         replicas : 1 .. MaxReplicas, tmpl : AnySize,
                         by : Names \cup {NoName}]]
    /\ \A s \in Sets : ~ sts[s].up => sts[s].by \in Names
    /\ want \in [Sets -> [rev : 0 .. MaxEdits, replicas : 1 .. MaxReplicas]]

BackupOK ==
    /\ backup \in [Names -> [set : Sets \cup {NoSet}, rev : 0 .. MaxEdits,
                             replicas : 0 .. MaxReplicas, tmpl : AnySize]]
    /\ \A n \in Names : backup[n] # NoBackup
          => backup[n].set \in Sets /\ backup[n].replicas \in 1 .. MaxReplicas

ClaimsOK ==
    /\ claim \in [Slots -> [size : AnySize, cap : AnySize, full : BOOLEAN]]
    /\ temp \in [Slots -> [owner : Names \cup {NoName}, cap : AnySize,
                           full : BOOLEAN, dying : BOOLEAN]]

PodsOK ==
    /\ pod \in [Slots -> {"up", "ending", "down"}]
    /\ mig \in [Movers -> [set : Sets \cup {NoSet}, dying : BOOLEAN,
                  st : {"absent", "pending", "running", "ok", "bad"}]]

ClusterOK == StsOK /\ BackupOK /\ ClaimsOK /\ PodsOK

QueueInv == TrailOK /\ QueueOK /\ SessionOK /\ RunOK /\ ClusterOK

LEMMA QueueTyped == QueueInv => QueueTypeOK
  <1> SUFFICES ASSUME QueueInv PROVE QueueTypeOK
    OBVIOUS
  <1>1. \A n \in Names :
          /\ Len(trail[n]) \in 1 .. Lag + 1
          /\ \A i \in 1 .. Len(trail[n]) : trail[n][i] \in RequestRecords
    BY DEF QueueInv, TrailOK, VersionOK
  <1>2. \A i \in 1 .. Len(queue) :
          queue[i] \in Names /\ \A j \in 1 .. i - 1 : queue[j] # queue[i]
    BY DEF QueueInv, QueueOK
  <1>3. GoneAfter(0) \in RequestRecords
    BY QueueAssumption DEF GoneAfter, RequestRecords, Phases, Ordinals
  <1>4. run \in [name : Names \cup {NoName}, at : Steps, vr : RequestRecords]
    BY <1>3 DEF QueueInv, RunOK, Idle, Steps
  <1> QED
    BY <1>1, <1>2, <1>4
    DEF QueueTypeOK, QueueInv, SessionOK, ClusterOK, StsOK, BackupOK, ClaimsOK, PodsOK

-----------------------------------------------------------------------------
(* Writing a version, seeing it, and queueing a name. *)

(* What a VolumeResize shows of its progress. *)
Progress(v) == <<v.phase, v.total, v.cur, v.done>>

(* The writes of a version w over a version v that a life cycle allows. *)
Legal(v, w) ==
    \/ w.phase = "Gone"
    \/ v.phase = "Gone" /\ w.phase = "Pending" /\ w.incarnation = v.incarnation + 1
    \/ Progress(w) = Progress(v)
    \/ v.phase = "Pending" /\ w = [v EXCEPT !.phase = "Validating"]
    \/ /\ v.phase = "Validating"
       /\ \E total \in 1 .. MaxReplicas :
             w = [v EXCEPT !.phase = "Syncing", !.total = total]
    \/ v.phase = "Syncing" /\ w = [v EXCEPT !.done = @ \cup {v.cur}]
    \/ v.phase = "Syncing" /\ v.cur \in v.done /\ w = Advanced(v)
    \/ v.phase \in {"Validating", "Syncing"} /\ w = [v EXCEPT !.phase = "Failed"]

LEMMA StoredOK == ASSUME TrailOK, NEW n \in Names
                  PROVE  /\ VersionOK(Stored(n)) /\ VersionOK(Cached(n))
                         /\ trail[n] \in Seq(RequestRecords) /\ Len(trail[n]) >= 1
  <1>1. /\ trail[n] \in Seq(RequestRecords) /\ Len(trail[n]) \in 1 .. Lag + 1
        /\ \A i \in 1 .. Len(trail[n]) : VersionOK(trail[n][i])
    BY DEF TrailOK
  <1>2. 1 \in 1 .. Len(trail[n]) /\ Len(trail[n]) \in 1 .. Len(trail[n])
    BY <1>1, RequestsAssumption
  <1>3. Head(trail[n]) = trail[n][1]
    BY <1>1, <1>2
  <1> QED
    BY <1>1, <1>2, <1>3 DEF Stored, Cached

(* A write appends one version. *)
LEMMA StoreStep ==
    ASSUME TrailOK, NEW n \in Names, HasRoom(n), NEW v, VersionOK(v), Store(n, v)
    PROVE  /\ TrailOK' /\ Stored(n)' = v
           /\ \A m \in Names \ {n} : Stored(m)' = Stored(m)
  <1>1. trail[n] \in Seq(RequestRecords) /\ Len(trail[n]) \in 1 .. Lag
    <2>1. Len(trail[n]) \in 1 .. Lag + 1 /\ Len(trail[n]) <= Lag
      BY DEF TrailOK, HasRoom
    <2> QED
      BY <2>1, RequestsAssumption DEF TrailOK
  <1>2. v \in RequestRecords
    BY DEF VersionOK
  <1>3. CASE v = Stored(n)
    <2>1. trail' = [trail EXCEPT ![n] = trail[n]]
      BY <1>3 DEF Store
    <2>2. trail' = trail
      BY <2>1 DEF TrailOK
    <2> QED
      BY <1>3, <2>2 DEF TrailOK, Stored
  <1>4. CASE v # Stored(n)
    <2>1. trail' = [trail EXCEPT ![n] = Append(@, v)]
      BY <1>4 DEF Store
    <2>2. /\ trail'[n] = Append(trail[n], v)
          /\ \A m \in Names \ {n} : trail'[m] = trail[m]
          /\ trail' \in [Names -> Seq(RequestRecords)]
      BY <1>1, <1>2, <2>1 DEF TrailOK
    <2>3. Len(trail'[n]) = Len(trail[n]) + 1 /\ Len(trail'[n]) \in 1 .. Lag + 1
      BY <1>1, <1>2, <2>2, RequestsAssumption
    <2>4. \A i \in 1 .. Len(trail'[n]) : VersionOK(trail'[n][i])
      <3> SUFFICES ASSUME NEW i \in 1 .. Len(trail'[n]) PROVE VersionOK(trail'[n][i])
        OBVIOUS
      <3>1. CASE i = Len(trail[n]) + 1
        BY <1>1, <2>2, <3>1
      <3>2. CASE i \in 1 .. Len(trail[n])
        BY <1>1, <2>2, <3>2 DEF TrailOK
      <3> QED
        BY <1>1, <2>3, <3>1, <3>2
    <2>5. Stored(n)' = v
      BY <1>1, <1>2, <2>2, <2>3 DEF Stored
    <2>6. \A m \in Names \ {n} : Stored(m)' = Stored(m)
      BY <2>2 DEF Stored
    <2>7. TrailOK'
      BY <2>2, <2>3, <2>4 DEF TrailOK
    <2> QED
      BY <2>5, <2>6, <2>7
  <1> QED
    BY <1>3, <1>4

(* A name is queued once. *)
LEMMA AddedStep ==
    ASSUME QueueOK, NEW n \in Names, queue' = Added(n)
    PROVE  QueueOK'
  <1>1. CASE \E i \in 1 .. Len(queue) : queue[i] = n
    BY <1>1 DEF Added, QueueOK
  <1>2. CASE \A i \in 1 .. Len(queue) : queue[i] # n
    <2>1. queue' = Append(queue, n)
      BY <1>2 DEF Added
    <2>2. queue \in Seq(Names)
      BY DEF QueueOK
    <2>3. /\ queue' \in Seq(Names) /\ Len(queue') = Len(queue) + 1
          /\ queue'[Len(queue) + 1] = n
          /\ \A i \in 1 .. Len(queue) : queue'[i] = queue[i]
      BY <2>1, <2>2
    <2> QED
      BY <1>2, <2>2, <2>3 DEF QueueOK
  <1> QED
    BY <1>1, <1>2

-----------------------------------------------------------------------------
(* What a step of a run does to the stored versions. *)

(* Every version that is stored follows from the one before. *)
AllLegal == \A n \in Names : Legal(Stored(n), Stored(n)')

LEMMA KeptIsLegal == ASSUME UNCHANGED trail PROVE AllLegal
  BY DEF AllLegal, Legal, Stored, Progress

LEMMA RunIs == ASSUME QueueInv, run.at # "idle"
               PROVE  /\ run \in [name : Names, at : Steps \ {"idle"}, vr : RequestRecords]
                      /\ VersionOK(run.vr) /\ run.vr.phase # "Gone" /\ run.vr.set \in Sets
                      /\ run # Idle
  BY DEF QueueInv, RunOK, Idle, VersionOK

LEMMA IdleIsOK == ASSUME run' = Idle PROVE RunOK'
  BY DEF RunOK, Idle

(* A requeue, or giving up a wait, stores nothing. *)
LEMMA RequeueStep ==
    ASSUME QueueInv, run.at # "idle", Requeue \/ GiveUpWaiting
    PROVE  TrailOK' /\ QueueOK' /\ RunOK' /\ AllLegal
  <1>1. run.name \in Names
    BY RunIs
  <1>2. run' = Idle /\ queue' = Added(run.name) /\ UNCHANGED trail
    BY DEF Requeue, GiveUpWaiting
  <1>3. TrailOK'
    BY <1>2 DEF QueueInv, TrailOK
  <1> QED
    BY <1>1, <1>2, <1>3, KeptIsLegal, AddedStep, IdleIsOK DEF QueueInv

(* A write of a run is one the life cycle allows if it is one over the copy of
   the run: a copy that is not the stored one is refused. *)
LEMMA SaveStep ==
    ASSUME QueueInv, run.at # "idle",
           NEW v, VersionOK(v), NEW at, Save(v, at), Legal(run.vr, v)
    PROVE  /\ TrailOK' /\ QueueOK' /\ AllLegal
           /\ \/ run' = Idle
              \/ at # "idle" /\ run' = [run EXCEPT !.at = at, !.vr = v]
  <1>1. PICK n \in Names : n = run.name
    BY RunIs
  <1>2. CASE Refused
    <2>1. Requeue
      BY <1>2 DEF Save
    <2> QED
      BY <2>1, RequeueStep DEF Requeue
  <1>3. CASE ~ Refused
    <2>1. HasRoom(n) /\ Store(n, v)
      BY <1>1, <1>3 DEF Save
    <2>2. \/ run' = Idle /\ queue' = Added(n)
          \/ at # "idle" /\ run' = [run EXCEPT !.at = at, !.vr = v] /\ UNCHANGED queue
      BY <1>1, <1>3 DEF Save
    <2>3. QueueOK'
      BY <2>2, AddedStep DEF QueueInv, QueueOK
    <2>4. /\ TrailOK' /\ Stored(n)' = v
          /\ \A m \in Names \ {n} : Stored(m)' = Stored(m)
      BY <2>1, StoreStep DEF QueueInv
    <2>5. run.vr = Stored(n)
      BY <1>1, <1>3 DEF Refused
    <2>6. AllLegal
      BY <2>4, <2>5 DEF AllLegal, Legal, Progress
    <2> QED
      BY <2>2, <2>3, <2>4, <2>6
  <1> QED
    BY <1>2, <1>3

(* A failure ends the run. *)
LEMMA FailStep ==
    ASSUME QueueInv, run.at # "idle", Fail,
           run.vr.phase \in {"Validating", "Syncing"}
    PROVE  TrailOK' /\ QueueOK' /\ AllLegal /\ run' = Idle
  <1> DEFINE v == [run.vr EXCEPT !.phase = "Failed"]
  <1>1. VersionOK(v) /\ Legal(run.vr, v)
    BY RunIs DEF VersionOK, RequestRecords, Phases, Legal
  <1>2. Save(v, "idle")
    BY DEF Fail
  <1> HIDE DEF v
  <1> QED
    BY <1>1, <1>2, SaveStep

(* Going on stores nothing. *)
LEMMA GotoStep ==
    ASSUME QueueInv, run.at # "idle", NEW at, Goto(at)
    PROVE  /\ TrailOK' /\ QueueOK' /\ AllLegal
           /\ run' = [run EXCEPT !.at = at]
  BY KeptIsLegal DEF Goto, requestVars, QueueInv, TrailOK, QueueOK

(* The next slot, or the end, after a slot that is completed. *)
LEMMA AdvancedIs ==
    ASSUME NEW v, VersionOK(v), v.phase = "Syncing"
    PROVE  Advanced(v) = IF v.cur < v.total - 1 THEN [v EXCEPT !.cur = v.cur + 1]
                         ELSE [v EXCEPT !.phase = "Completed", !.cur = 0]
  <1>1. FirstIndex(<<"data">>, "data") = 1
    BY DEF FirstIndex
  <1>2. NextCursor(<<"data">>, v.total - 1, v.cur, "data")
          = IF v.cur < v.total - 1 THEN <<v.cur + 1, "data">> ELSE Done
    BY <1>1 DEF NextCursor
  <1>3. ASSUME NEW r PROVE <<r, "data">> # Done
    BY Zenon DEF Done
  <1>4. CASE v.cur < v.total - 1
    BY <1>2, <1>3, <1>4 DEF Advanced
  <1>5. CASE ~ (v.cur < v.total - 1)
    BY <1>2, <1>5 DEF Advanced
  <1> QED
    BY <1>4, <1>5

LEMMA AdvancedOK ==
    ASSUME NEW v, VersionOK(v), v.phase = "Syncing", v.cur \in v.done
    PROVE  VersionOK(Advanced(v)) /\ Legal(v, Advanced(v))
  <1>1. /\ v \in RequestRecords /\ v.set \in Sets /\ v.cur < v.total
        /\ v.done \in {0 .. v.cur - 1, 0 .. v.cur}
    BY DEF VersionOK
  <1>2. v.cur \in 0 .. MaxReplicas - 1 /\ v.total \in 0 .. MaxReplicas
    BY <1>1 DEF RequestRecords, Ordinals
  <1>3. v.done = 0 .. v.cur
    BY <1>1, <1>2
  <1>4. CASE v.cur < v.total - 1
    <2>1. Advanced(v) = [v EXCEPT !.cur = v.cur + 1]
      BY <1>4, AdvancedIs
    <2>2. v.cur + 1 \in 0 .. MaxReplicas - 1 /\ v.cur + 1 < v.total
          /\ v.done = 0 .. (v.cur + 1) - 1
      BY <1>2, <1>3, <1>4, QueueAssumption
    <2> QED
      BY <1>1, <2>1, <2>2 DEF VersionOK, RequestRecords, Ordinals, Legal
  <1>5. CASE ~ (v.cur < v.total - 1)
    <2>1. Advanced(v) = [v EXCEPT !.phase = "Completed", !.cur = 0]
      BY <1>5, AdvancedIs
    <2>2. 0 \in Ordinals
      BY QueueAssumption DEF Ordinals
    <2> QED
      BY <1>1, <2>1, <2>2 DEF VersionOK, RequestRecords, Phases, Legal
  <1> QED
    BY <1>4, <1>5

(* A run goes on inside handleSyncing. *)
LEMMA RunGoesOn ==
    ASSUME QueueInv, run.at # "idle", NEW at \in BeforeSwap \cup AfterSwap, NEW v,
           VersionOK(v), v.phase = "Syncing", at \in AfterSwap => v.cur \in v.done,
           run' = [run EXCEPT !.at = at, !.vr = v]
    PROVE  RunOK'
  <1>1. /\ run' \in [name : Names, at : Steps \ {"idle"}, vr : RequestRecords]
        /\ run'.at = at /\ run'.vr = v
    BY RunIs DEF VersionOK, BeforeSwap, AfterSwap, Steps
  <1>2. at \notin {"pending", "validating"}
    BY DEF BeforeSwap, AfterSwap
  <1> QED
    BY <1>1, <1>2 DEF RunOK

LEMMA RunStays ==
    ASSUME QueueInv, NEW at \in BeforeSwap, run.at \in BeforeSwap,
           run' = [run EXCEPT !.at = at]
    PROVE  RunOK'
  <1>1. run.at # "idle" /\ run.vr.phase = "Syncing" /\ at \notin AfterSwap
    BY DEF QueueInv, RunOK, Idle, BeforeSwap, AfterSwap
  <1>2. run' = [run EXCEPT !.at = at, !.vr = run.vr]
    BY <1>1, RunIs
  <1>3. PICK v : v = run.vr
    OBVIOUS
  <1> QED
    BY <1>1, <1>2, <1>3, RunIs, RunGoesOn

(* The worker takes the next name. *)
LEMMA BeginStep ==
    ASSUME QueueInv, Begin
    PROVE  TrailOK' /\ QueueOK' /\ RunOK' /\ AllLegal
  <1>1. queue # << >> /\ queue' = Tail(queue) /\ UNCHANGED trail
    BY DEF Begin
  <1>2. queue \in Seq(Names) /\ Head(queue) \in Names
    BY <1>1 DEF QueueInv, QueueOK
  <1>3. TrailOK' /\ AllLegal
    BY <1>1, KeptIsLegal DEF QueueInv, TrailOK
  <1>4. QueueOK'
    <2>1. /\ queue' \in Seq(Names) /\ Len(queue') = Len(queue) - 1
          /\ \A i \in 1 .. Len(queue') : queue'[i] = queue[i + 1]
      BY <1>1, <1>2
    <2> QED
      BY <1>2, <2>1 DEF QueueInv, QueueOK
  <1>5. PICK n \in Names : n = Head(queue)
    BY <1>2
  <1>6. PICK v : v = Cached(n)
    OBVIOUS
  <1>7. run' = IF Route(v) = "idle" THEN Idle ELSE [name |-> n, at |-> Route(v), vr |-> v]
    BY <1>5, <1>6 DEF Begin
  <1>8. VersionOK(v)
    BY <1>6, StoredOK DEF QueueInv
  <1>9. ASSUME Route(v) # "idle" PROVE RunOK'
    <2>1. /\ v \in RequestRecords /\ v.phase # "Gone"
          /\ Route(v) \in Steps \ {"idle"}
          /\ Route(v) = "pending" => v.phase = "Pending"
          /\ Route(v) = "validating" => v.phase = "Validating"
          /\ Route(v) \in BeforeSwap \cup AfterSwap => v.phase = "Syncing"
          /\ Route(v) \in AfterSwap => v.cur \in v.done
      <3>1. v \in RequestRecords /\ v.phase \in Phases
        BY <1>8 DEF VersionOK, RequestRecords
      <3>2. CASE v.phase = "Gone" \/ v.deleting \/ ~ v.finalizer
        <4>1. v.phase # "Gone" /\ Route(v) \in {"deletion", "finalizer"}
          BY <1>9, <3>2 DEF Route
        <4> QED
          BY <3>1, <4>1 DEF Steps, BeforeSwap, AfterSwap
      <3>3. CASE v.phase # "Gone" /\ ~ v.deleting /\ v.finalizer
        <4>1. Route(v) = CASE v.phase = "Pending"    -> "pending"
                           [] v.phase = "Validating" -> "validating"
                           [] v.phase = "Syncing" -> IF SlotCompleted(v)
                                                     THEN "advance" ELSE "prepare"
                           [] OTHER -> "idle"
          BY <3>3 DEF Route
        <4>2. CASE v.phase = "Pending"
          BY <3>1, <3>3, <4>1, <4>2 DEF Steps, BeforeSwap, AfterSwap
        <4>3. CASE v.phase = "Validating"
          BY <3>1, <3>3, <4>1, <4>3 DEF Steps, BeforeSwap, AfterSwap
        <4>4. CASE v.phase = "Syncing"
          BY <3>1, <3>3, <4>1, <4>4 DEF SlotCompleted, Steps, BeforeSwap, AfterSwap
        <4> QED
          BY <1>9, <4>1, <4>2, <4>3, <4>4
      <3> QED
        BY <3>2, <3>3
    <2>2. run' = [name |-> n, at |-> Route(v), vr |-> v]
      BY <1>7, <1>9
    <2>3. PICK at : at = Route(v)
      OBVIOUS
    <2>4. /\ run' \in [name : Names, at : Steps \ {"idle"}, vr : RequestRecords]
          /\ run'.at = at /\ run'.vr = v
      BY <2>1, <2>2, <2>3
    <2> QED
      BY <1>8, <2>1, <2>3, <2>4 DEF RunOK
  <1>10. ASSUME Route(v) = "idle" PROVE RunOK'
    BY <1>7, <1>10, IdleIsOK
  <1> QED
    BY <1>3, <1>4, <1>9, <1>10

(* The handlers of a single write. *)
LEMMA PhaseStep ==
    ASSUME QueueInv, AddFinalizer \/ HandlePending \/ HandleValidating
    PROVE  TrailOK' /\ QueueOK' /\ RunOK' /\ AllLegal
  <1>1. run.at # "idle"
    BY DEF AddFinalizer, HandlePending, HandleValidating, At
  <1>2. /\ VersionOK(run.vr) /\ run.vr \in RequestRecords
        /\ run.vr.phase # "Gone" /\ run.vr.set \in Sets
    BY <1>1, RunIs DEF VersionOK
  <1>3. CASE AddFinalizer
    <2> DEFINE v == [run.vr EXCEPT !.finalizer = TRUE]
    <2>1. VersionOK(v) /\ Legal(run.vr, v)
      BY <1>2 DEF VersionOK, RequestRecords, Legal, Progress
    <2>2. Save(v, "idle")
      BY <1>3 DEF AddFinalizer
    <2> HIDE DEF v
    <2> QED
      BY <1>1, <2>1, <2>2, SaveStep, IdleIsOK
  <1>4. CASE HandlePending
    <2> DEFINE v == [run.vr EXCEPT !.phase = "Validating"]
    <2>0. run.vr.phase = "Pending"
      BY <1>4 DEF HandlePending, At, QueueInv, RunOK, Idle
    <2>1. VersionOK(v) /\ Legal(run.vr, v)
      BY <1>2, <2>0 DEF VersionOK, RequestRecords, Phases, Legal
    <2>2. Save(v, "idle")
      BY <1>4 DEF HandlePending
    <2> HIDE DEF v
    <2> QED
      BY <1>1, <2>1, <2>2, SaveStep, IdleIsOK
  <1>5. CASE HandleValidating
    <2>1. run.vr.phase = "Validating"
      BY <1>5 DEF HandleValidating, At, QueueInv, RunOK, Idle
    <2>2. PICK total \in 1 .. MaxReplicas : total = sts[run.vr.set].replicas
      BY <1>2 DEF QueueInv, ClusterOK, StsOK
    <2> DEFINE v == [run.vr EXCEPT !.phase = "Syncing", !.total = total]
    <2>3. Save(v, "idle") \/ Fail
      BY <1>5, <2>2 DEF HandleValidating
    <2>4. VersionOK(v) /\ Legal(run.vr, v)
      <3>1. /\ run.vr.cur = 0 /\ run.vr.done = {} /\ total \in 0 .. MaxReplicas
            /\ 0 < total /\ {} = 0 .. 0 - 1
        BY <1>2, <2>1, QueueAssumption DEF VersionOK
      <3>2. v \in RequestRecords /\ v.phase = "Syncing" /\ v.total = total
            /\ v.cur = 0 /\ v.done = {} /\ v.set = run.vr.set
        BY <1>2, <3>1 DEF RequestRecords, Phases
      <3>3. VersionOK(v)
        BY <1>2, <3>1, <3>2 DEF VersionOK
      <3> QED
        BY <2>1, <3>3 DEF Legal
    <2> HIDE DEF v
    <2> QED
      BY <1>1, <2>1, <2>3, <2>4, SaveStep, FailStep, IdleIsOK
  <1> QED
    BY <1>3, <1>4, <1>5

(* Where a run of handleSyncing is. *)
LEMMA SyncRun ==
    ASSUME QueueInv, run.at \in BeforeSwap \cup AfterSwap
    PROVE  /\ run.at # "idle" /\ run.vr.phase = "Syncing"
           /\ VersionOK(run.vr) /\ run.vr \in RequestRecords /\ run.vr.set \in Sets
           /\ run.name \in Names
           /\ run.at \in AfterSwap => run.vr.cur \in run.vr.done
  <1>1. run.at # "idle"
    BY DEF BeforeSwap, AfterSwap
  <1> QED
    BY <1>1, RunIs DEF QueueInv, RunOK, Idle, VersionOK

(* The steps of handleSyncing that write nothing unless they fail. *)
LEMMA SilentStep ==
    ASSUME QueueInv, Prepare \/ BackupSts \/ StopPod \/ AwaitPod \/ AwaitCopy
    PROVE  TrailOK' /\ QueueOK' /\ RunOK' /\ AllLegal
  <1>1. run.at \in BeforeSwap
    BY DEF Prepare, BackupSts, StopPod, AwaitPod, AwaitCopy, At, BeforeSwap
  <1>2. run.at # "idle" /\ run.vr.phase = "Syncing"
    BY <1>1, SyncRun
  <1>3. Fail \/ GiveUpWaiting \/ \E at \in BeforeSwap : Goto(at)
    BY DEF Prepare, BackupSts, StopPod, AwaitPod, AwaitCopy, BeforeSwap
  <1>4. CASE Fail
    BY <1>2, <1>4, FailStep, IdleIsOK
  <1>5. CASE GiveUpWaiting
    BY <1>2, <1>5, RequeueStep
  <1>6. CASE \E at \in BeforeSwap : Goto(at)
    <2>1. PICK at \in BeforeSwap : Goto(at)
      BY <1>6
    <2> QED
      BY <1>1, <1>2, <2>1, GotoStep, RunStays
  <1> QED
    BY <1>3, <1>4, <1>5, <1>6

(* The delete of the StatefulSet, and its return. *)
LEMMA StsStep ==
    ASSUME QueueInv, DeleteSts \/ Recreate
    PROVE  TrailOK' /\ QueueOK' /\ RunOK' /\ AllLegal
  <1>1. /\ run.at # "idle" /\ run.vr.phase = "Syncing"
        /\ VersionOK(run.vr) /\ run.vr \in RequestRecords
    BY SyncRun DEF DeleteSts, Recreate, At, BeforeSwap, AfterSwap
  <1>2. CASE DeleteSts
    <2> DEFINE v == [run.vr EXCEPT !.stsDeleted = TRUE]
    <2>1. VersionOK(v) /\ Legal(run.vr, v) /\ v.phase = "Syncing"
      BY <1>1 DEF VersionOK, RequestRecords, Legal, Progress
    <2>2. Save(v, "stop")
      BY <1>2 DEF DeleteSts
    <2>3. "stop" \in BeforeSwap \cup AfterSwap /\ "stop" \notin AfterSwap
      BY DEF BeforeSwap, AfterSwap
    <2> HIDE DEF v
    <2>4. PICK w : w = v
      OBVIOUS
    <2>5. /\ TrailOK' /\ QueueOK' /\ AllLegal
          /\ \/ run' = Idle
             \/ run' = [run EXCEPT !.at = "stop", !.vr = w]
      BY <1>1, <2>1, <2>2, <2>4, SaveStep
    <2> QED
      BY <1>1, <2>1, <2>3, <2>4, <2>5, RunGoesOn, IdleIsOK
  <1>3. CASE Recreate
    <2> DEFINE v == [run.vr EXCEPT !.stsDeleted = FALSE]
    <2>1. VersionOK(v) /\ Legal(run.vr, v) /\ v.phase = "Syncing"
      BY <1>1 DEF VersionOK, RequestRecords, Legal, Progress
    <2>2. Save(v, "check") \/ Fail
      BY <1>3 DEF Recreate
    <2>3. "check" \in AfterSwap /\ run.at \in AfterSwap /\ v.cur \in v.done
      BY <1>1, <1>3, SyncRun DEF Recreate, At, AfterSwap, RequestRecords
    <2> HIDE DEF v
    <2>4. PICK w : w = v
      OBVIOUS
    <2>5. ASSUME Save(w, "check")
          PROVE  /\ TrailOK' /\ QueueOK' /\ AllLegal
                 /\ \/ run' = Idle
                    \/ run' = [run EXCEPT !.at = "check", !.vr = w]
      BY <1>1, <2>1, <2>4, <2>5, SaveStep
    <2> QED
      BY <1>1, <2>1, <2>2, <2>3, <2>4, <2>5, RunGoesOn, FailStep, IdleIsOK
  <1> QED
    BY <1>2, <1>3

(* The swap completes the slot. *)
LEMMA SwapStep ==
    ASSUME QueueInv, Swap
    PROVE  TrailOK' /\ QueueOK' /\ RunOK' /\ AllLegal
  <1>1. /\ run.at # "idle" /\ run.vr.phase = "Syncing"
        /\ VersionOK(run.vr) /\ run.vr \in RequestRecords
    BY SyncRun DEF Swap, At, BeforeSwap
  <1> DEFINE v == [run.vr EXCEPT !.done = @ \cup {run.vr.cur}]
  <1>2. /\ v \in RequestRecords /\ v.cur \in v.done /\ v.phase = "Syncing"
        /\ v = [run.vr EXCEPT !.done = run.vr.done \cup {run.vr.cur}]
    BY <1>1 DEF RequestRecords
  <1>3. VersionOK(v) /\ Legal(run.vr, v)
    <2>1. /\ run.vr.cur \in Nat /\ run.vr.cur < run.vr.total
          /\ run.vr.done \in {0 .. run.vr.cur - 1, 0 .. run.vr.cur}
      BY <1>1, QueueAssumption DEF VersionOK, RequestRecords, Ordinals
    <2>2. run.vr.done \cup {run.vr.cur} = 0 .. run.vr.cur
      BY <2>1
    <2>3. /\ v.done = 0 .. v.cur /\ v.cur < v.total /\ v.set = run.vr.set
      BY <1>1, <2>1, <2>2 DEF RequestRecords
    <2> QED
      BY <1>1, <1>2, <2>3 DEF VersionOK, Legal
  <1>4. Save(v, "recreate") \/ Fail
    BY DEF Swap
  <1>5. "recreate" \in BeforeSwap \cup AfterSwap
    BY DEF AfterSwap
  <1> HIDE DEF v
  <1>6. PICK w : w = v
    OBVIOUS
  <1>7. ASSUME Save(w, "recreate")
        PROVE  /\ TrailOK' /\ QueueOK' /\ AllLegal
               /\ \/ run' = Idle
                  \/ run' = [run EXCEPT !.at = "recreate", !.vr = w]
    BY <1>1, <1>3, <1>6, <1>7, SaveStep
  <1> QED
    BY <1>1, <1>2, <1>3, <1>4, <1>5, <1>6, <1>7, RunGoesOn, FailStep, IdleIsOK

(* The cursor moves on, or the migration ends. *)
LEMMA AdvanceStep ==
    ASSUME QueueInv, AdvanceCompleted \/ CheckPod
    PROVE  TrailOK' /\ QueueOK' /\ RunOK' /\ AllLegal
  <1>1. /\ run.at # "idle" /\ run.vr.phase = "Syncing"
        /\ VersionOK(run.vr) /\ run.vr.cur \in run.vr.done
    BY SyncRun DEF AdvanceCompleted, CheckPod, At, AfterSwap
  <1>2. Requeue \/ Save(Advanced(run.vr), "idle")
    BY DEF AdvanceCompleted, CheckPod
  <1>3. PICK w : w = Advanced(run.vr)
    OBVIOUS
  <1>4. VersionOK(w) /\ Legal(run.vr, w)
    <2>1. PICK v : v = run.vr
      OBVIOUS
    <2> QED
      BY <1>1, <1>3, <2>1, AdvancedOK
  <1> QED
    BY <1>1, <1>2, <1>3, <1>4, SaveStep, RequeueStep, IdleIsOK

(* What is let go is gone, and stays so. *)
LEMMA GoneOK == ASSUME NEW k \in Nat PROVE VersionOK(GoneAfter(k)) /\ GoneAfter(k).phase = "Gone"
  <1>1. 0 \in Ordinals /\ 0 \in 0 .. MaxReplicas
    BY QueueAssumption DEF Ordinals
  <1> QED
    BY <1>1 DEF VersionOK, GoneAfter, RequestRecords, Phases

LEMMA DeletionStep ==
    ASSUME QueueInv, HandleDeletion
    PROVE  TrailOK' /\ QueueOK' /\ RunOK' /\ AllLegal
  <1>1. run.at # "idle" /\ run.vr.incarnation \in Nat
    BY RunIs DEF HandleDeletion, At, RequestRecords
  <1>2. PICK w : w = GoneAfter(run.vr.incarnation)
    OBVIOUS
  <1>3. VersionOK(w) /\ Legal(run.vr, w) /\ Save(w, "idle")
    BY <1>1, <1>2, GoneOK DEF Legal, HandleDeletion
  <1> QED
    BY <1>1, <1>3, SaveStep, IdleIsOK

-----------------------------------------------------------------------------
(* The commands and the informer. *)

Sessions == [cmd : {"none", "create", "delete", "watch"}, name : Names \cup {NoName},
             set : Sets \cup {NoSet}, size : Sizes \cup {0}]
SessionFits(s) ==
    /\ s \in Sessions
    /\ s.cmd # "none" => s.name \in Names
    /\ s.cmd = "create" => s.set \in Sets

LEMMA SessionStep ==
    ASSUME SessionOK, NEW t \in Terminals, NEW s, SessionFits(s), Becomes(t, s)
    PROVE  SessionOK'
  BY DEF SessionOK, SessionFits, Sessions, Becomes

LEMMA PromptFits == SessionFits(Prompt)
  BY DEF SessionFits, Sessions, Prompt

LEMMA CommandFits ==
    ASSUME NEW n \in Names, NEW cmd \in {"delete", "watch"}
    PROVE  SessionFits(Command(cmd, n))
  BY DEF SessionFits, Sessions, Prompt, Command

(* The commands that write. *)
LEMMA CreateStep ==
    ASSUME QueueInv, NEW t \in Terminals, Create(t)
    PROVE  TrailOK' /\ SessionOK' /\ AllLegal /\ UNCHANGED queue
  <1>1. PICK n \in Names : n = session[t].name
    BY DEF QueueInv, SessionOK, Create, Running
  <1>2. session[t].set \in Sets /\ session[t].size \in Sizes \cup {0}
    BY DEF QueueInv, SessionOK, Create, Running
  <1>3. CASE Exists(n)
    <2>1. UNCHANGED trail /\ Becomes(t, Prompt)
      BY <1>1, <1>3 DEF Create
    <2> QED
      BY <2>1, KeptIsLegal, SessionStep, PromptFits DEF Create, QueueInv, TrailOK
  <1>4. CASE ~ Exists(n)
    <2>1. PICK w : w = NewRequest(Stored(n).incarnation + 1, session[t].set, session[t].size)
      OBVIOUS
    <2>2. Store(n, w) /\ HasRoom(n)
      BY <1>1, <1>4, <2>1 DEF Create
    <2>3. Stored(n) \in RequestRecords /\ Stored(n).phase = "Gone"
      BY <1>4, StoredOK DEF QueueInv, VersionOK, Exists
    <2>4. /\ VersionOK(w) /\ w.phase = "Pending"
          /\ w.incarnation = Stored(n).incarnation + 1
      <3>1. 0 \in Ordinals /\ 0 \in 0 .. MaxReplicas
        BY QueueAssumption DEF Ordinals
      <3>2. w = [incarnation |-> Stored(n).incarnation + 1, set |-> session[t].set,
                 size |-> session[t].size, phase |-> "Pending",
                 cur |-> 0, total |-> 0, done |-> {}, stsDeleted |-> FALSE,
                 finalizer |-> FALSE, deleting |-> FALSE]
        BY <2>1 DEF NewRequest, GoneAfter
      <3>3. Stored(n).incarnation + 1 \in Nat
        BY <2>3 DEF RequestRecords
      <3> QED
        BY <1>2, <3>1, <3>2, <3>3 DEF VersionOK, RequestRecords, Phases
    <2>5. /\ TrailOK' /\ Stored(n)' = w
          /\ \A m \in Names \ {n} : Stored(m)' = Stored(m)
      BY <2>2, <2>4, StoreStep DEF QueueInv
    <2>6. AllLegal
      BY <2>3, <2>4, <2>5 DEF AllLegal, Legal, Progress
    <2>7. Becomes(t, Prompt) \/ Becomes(t, Command("watch", n))
      BY <1>1, <1>4 DEF Create
    <2>8. SessionOK'
      BY <2>7, SessionStep, PromptFits, CommandFits DEF QueueInv
    <2> QED
      BY <2>5, <2>6, <2>8 DEF Create
  <1> QED
    BY <1>3, <1>4

LEMMA DeleteStep ==
    ASSUME QueueInv, NEW t \in Terminals, Delete(t)
    PROVE  TrailOK' /\ SessionOK' /\ AllLegal /\ UNCHANGED queue
  <1>1. PICK n \in Names : n = session[t].name
    BY DEF QueueInv, SessionOK, Delete, Running
  <1>2. SessionOK' /\ UNCHANGED queue
    BY SessionStep, PromptFits DEF QueueInv, Delete
  <1>3. CASE ~ Exists(n)
    <2>1. UNCHANGED trail
      BY <1>1, <1>3 DEF Delete
    <2> QED
      BY <1>2, <2>1, KeptIsLegal DEF QueueInv, TrailOK
  <1>4. CASE Exists(n)
    <2>1. PICK w : w = IF Stored(n).finalizer THEN [Stored(n) EXCEPT !.deleting = TRUE]
                       ELSE GoneAfter(Stored(n).incarnation)
      OBVIOUS
    <2>2. Store(n, w) /\ HasRoom(n)
      BY <1>1, <1>4, <2>1 DEF Delete
    <2>3. VersionOK(Stored(n)) /\ Stored(n) \in RequestRecords
      BY StoredOK DEF QueueInv, VersionOK
    <2>4. VersionOK(w) /\ Legal(Stored(n), w)
      <3>1. CASE Stored(n).finalizer
        <4>1. w = [Stored(n) EXCEPT !.deleting = TRUE]
          BY <2>1, <3>1
        <4> QED
          BY <2>3, <4>1 DEF VersionOK, RequestRecords, Legal, Progress
      <3>2. CASE ~ Stored(n).finalizer
        <4>1. w = GoneAfter(Stored(n).incarnation) /\ Stored(n).incarnation \in Nat
          BY <2>1, <2>3, <3>2 DEF RequestRecords
        <4> QED
          BY <4>1, GoneOK DEF Legal
      <3> QED
        BY <3>1, <3>2
    <2>5. /\ TrailOK' /\ Stored(n)' = w
          /\ \A m \in Names \ {n} : Stored(m)' = Stored(m)
      BY <2>2, <2>4, StoreStep DEF QueueInv
    <2>6. AllLegal
      BY <2>4, <2>5 DEF AllLegal, Legal, Progress
    <2> QED
      BY <1>2, <2>5, <2>6
  <1> QED
    BY <1>3, <1>4

(* A command keeps the versions legal, and itself to its type. *)
LEMMA CommandStep ==
    ASSUME QueueInv, NEW t \in Terminals, VolmigStep(t)
    PROVE  TrailOK' /\ QueueOK' /\ SessionOK' /\ AllLegal
  <1>1. CASE Create(t) \/ Delete(t)
    BY <1>1, CreateStep, DeleteStep DEF QueueInv, QueueOK
  <1>2. ASSUME UNCHANGED requestVars, NEW s, SessionFits(s), Becomes(t, s)
        PROVE  TrailOK' /\ QueueOK' /\ SessionOK' /\ AllLegal
    BY <1>2, SessionStep, KeptIsLegal DEF requestVars, QueueInv, TrailOK, QueueOK
  <1>3. ASSUME NEW n \in Names, NEW wish \in Wishes[n], CheckName(t, n, wish[1], wish[2])
        PROVE  TrailOK' /\ QueueOK' /\ SessionOK' /\ AllLegal
    <2>1. wish[1] \in Sets /\ wish[2] \in Sizes
      BY HabitsAssumption
    <2> DEFINE s == [Command("create", n) EXCEPT !.set = wish[1], !.size = wish[2]]
    <2>2. SessionFits(s)
      BY <2>1 DEF SessionFits, Sessions, Command, Prompt
    <2>3. UNCHANGED requestVars /\ (Becomes(t, Prompt) \/ Becomes(t, s))
      BY <1>3 DEF CheckName
    <2> HIDE DEF s
    <2> QED
      BY <1>2, <2>2, <2>3, PromptFits
  <1>4. ASSUME NEW n \in Names, LookUp(t, n) \/ Watch(t, n) \/ Follow(t, n)
        PROVE  TrailOK' /\ QueueOK' /\ SessionOK' /\ AllLegal
    <2>1. /\ UNCHANGED requestVars
          /\ \/ Becomes(t, Prompt)
             \/ \E cmd \in {"delete", "watch"} : Becomes(t, Command(cmd, n))
      BY <1>4 DEF LookUp, Watch, Follow
    <2> QED
      BY <1>2, <2>1, PromptFits, CommandFits
  <1>5. CASE Poll(t)
    BY <1>2, <1>5, PromptFits DEF Poll
  <1> QED
    BY <1>1, <1>3, <1>4, <1>5 DEF VolmigStep

(* The informer shows the next version; what is stored stays. *)
LEMMA InformerStep ==
    ASSUME QueueInv, NEW n \in Names, Informer(n)
    PROVE  TrailOK' /\ QueueOK' /\ AllLegal
  <1>1. /\ Len(trail[n]) > 1 /\ trail' = [trail EXCEPT ![n] = Tail(trail[n])]
        /\ queue' = queue \/ queue' = Added(n)
    BY DEF Informer, CatchUp, QueueInv, TrailOK
  <1>2. QueueOK'
    BY <1>1, AddedStep DEF QueueInv, QueueOK
  <1>3. /\ trail[n] \in Seq(RequestRecords) /\ Len(trail[n]) \in 1 .. Lag + 1
        /\ \A i \in 1 .. Len(trail[n]) : VersionOK(trail[n][i])
    BY DEF QueueInv, TrailOK
  <1>4. /\ Tail(trail[n]) \in Seq(RequestRecords)
        /\ Len(Tail(trail[n])) = Len(trail[n]) - 1
        /\ \A i \in 1 .. Len(trail[n]) - 1 : Tail(trail[n])[i] = trail[n][i + 1]
    BY <1>1, <1>3
  <1>5. /\ trail'[n] = Tail(trail[n])
        /\ \A m \in Names \ {n} : trail'[m] = trail[m]
        /\ trail' \in [Names -> Seq(RequestRecords)]
    BY <1>1, <1>4 DEF QueueInv, TrailOK
  <1>6. Len(trail'[n]) \in 1 .. Lag + 1
    BY <1>1, <1>3, <1>4, <1>5, RequestsAssumption
  <1>7. \A i \in 1 .. Len(trail'[n]) : VersionOK(trail'[n][i])
    <2> SUFFICES ASSUME NEW i \in 1 .. Len(trail'[n]) PROVE VersionOK(trail'[n][i])
      OBVIOUS
    <2>1. i \in 1 .. Len(trail[n]) - 1 /\ i + 1 \in 1 .. Len(trail[n])
      BY <1>3, <1>4, <1>5
    <2> QED
      BY <1>3, <1>4, <1>5, <2>1
  <1>8. TrailOK'
    BY <1>5, <1>6, <1>7 DEF QueueInv, TrailOK
  <1>9. Stored(n)' = Stored(n)
    <2>1. Len(trail[n]) - 1 \in 1 .. Len(trail[n]) - 1
      BY <1>1, <1>3
    <2> QED
      BY <1>3, <1>4, <1>5, <2>1 DEF Stored
  <1>10. AllLegal
    BY <1>5, <1>9 DEF AllLegal, Legal, Progress, Stored
  <1> QED
    BY <1>2, <1>8, <1>10

-----------------------------------------------------------------------------
(* The cluster. *)

(* Of the objects of the cluster a run touches one or two at a time. *)
LEMMA RunOnSts ==
    ASSUME QueueInv, Reconcile
    PROVE  StsOK' /\ BackupOK'
  <1>0. StsOK /\ BackupOK
    BY DEF QueueInv, ClusterOK
  <1>1. CASE UNCHANGED <<sts, want, backup>>
    BY <1>0, <1>1 DEF StsOK, BackupOK
  <1>2. CASE BackupSts
    <2>1. run.name \in Names /\ run.vr.set \in Sets /\ UNCHANGED <<sts, want>>
      BY <1>2, SyncRun DEF BackupSts, At, BeforeSwap
    <2>2. SpecOf(run.vr.set) \in [set : Sets \cup {NoSet}, rev : 0 .. MaxEdits,
                                  replicas : 0 .. MaxReplicas, tmpl : AnySize]
          /\ SpecOf(run.vr.set).set \in Sets
          /\ SpecOf(run.vr.set).replicas \in 1 .. MaxReplicas
      BY <1>0, <2>1, QueueAssumption DEF SpecOf, StsOK
    <2>3. \A n \in Names : backup'[n] \in {backup[n], SpecOf(run.vr.set)}
      BY <1>0, <1>2, <2>1 DEF BackupSts, BackupOK
    <2>4. backup' = [n \in Names |-> backup'[n]]
      BY <1>0, <1>2 DEF BackupSts, BackupOK
    <2>5. BackupOK'
      BY <1>0, <2>2, <2>3, <2>4 DEF BackupOK
    <2> QED
      BY <1>0, <2>1, <2>5 DEF StsOK
  <1>3. CASE DeleteSts
    <2>1. run.name \in Names /\ run.vr.set \in Sets
      BY <1>3, SyncRun DEF DeleteSts, At, BeforeSwap
    <2>2. /\ sts' = [sts EXCEPT ![run.vr.set] = [@ EXCEPT !.up = FALSE, !.by = run.name]]
          /\ UNCHANGED <<want, backup>>
      BY <1>3 DEF DeleteSts
    <2>3. sts[run.vr.set] \in [up : BOOLEAN, rev : 0 .. MaxEdits,
                              replicas : 1 .. MaxReplicas, tmpl : AnySize,
                              by : Names \cup {NoName}]
      BY <1>0, <2>1 DEF StsOK
    <2>4. /\ [sts[run.vr.set] EXCEPT !.up = FALSE, !.by = run.name]
               \in [up : BOOLEAN, rev : 0 .. MaxEdits,
                   replicas : 1 .. MaxReplicas, tmpl : AnySize,
                   by : Names \cup {NoName}]
          /\ [sts[run.vr.set] EXCEPT !.up = FALSE, !.by = run.name].by = run.name
      BY <2>1, <2>3
    <2>5. StsOK'
      BY <1>0, <2>1, <2>2, <2>4 DEF StsOK
    <2> QED
      BY <1>0, <2>2, <2>5 DEF BackupOK
  <1>4. CASE Recreate
    <2>1. run.name \in Names /\ run.vr.size \in Sizes \cup {0}
      BY <1>4, SyncRun DEF Recreate, At, AfterSwap, RequestRecords
    <2>2. UNCHANGED <<want, backup>>
      BY <1>4 DEF Recreate
    <2>3. CASE UNCHANGED sts
      BY <1>0, <2>2, <2>3 DEF StsOK, BackupOK
    <2>4. CASE ~ UNCHANGED sts
      <3>1. PICK b : b = backup[run.name]
        OBVIOUS
      <3>2. /\ b # NoBackup
            /\ sts' = [sts EXCEPT ![b.set] =
                         IF @.up THEN @
                         ELSE [up |-> TRUE, rev |-> b.rev, replicas |-> b.replicas,
                               tmpl |-> NewTemplate(b), by |-> NoName]]
        BY <1>4, <2>4, <3>1 DEF Recreate
      <3>3. /\ b.set \in Sets /\ b.rev \in 0 .. MaxEdits
            /\ b.replicas \in 1 .. MaxReplicas /\ NewTemplate(b) \in AnySize
        BY <1>0, <2>1, <3>1, <3>2 DEF BackupOK, NewTemplate, AnySize
      <3> QED
        BY <1>0, <2>2, <3>2, <3>3 DEF StsOK, BackupOK
    <2> QED
      BY <2>3, <2>4
  <1> QED
    BY <1>1, <1>2, <1>3, <1>4
    DEF Reconcile, Begin, AddFinalizer, HandlePending, HandleValidating, HandleSyncing,
        AdvanceCompleted, Prepare, StopPod, AwaitPod, AwaitCopy, Swap, CheckPod,
        HandleDeletion, clusterVars

LEMMA RunOnClaims ==
    ASSUME QueueInv, Reconcile
    PROVE  ClaimsOK'
  <1>0. ClaimsOK
    BY DEF QueueInv, ClusterOK
  <1>1. CASE UNCHANGED <<claim, temp>>
    BY <1>0, <1>1 DEF ClaimsOK
  <1>2. CASE Prepare
    <2>1. run.name \in Names /\ run.vr.size \in AnySize
      BY <1>2, SyncRun DEF Prepare, At, BeforeSwap, RequestRecords, AnySize
    <2>2. [NoTemp EXCEPT !.owner = run.name, !.cap = run.vr.size]
            \in [owner : Names \cup {NoName}, cap : AnySize, full : BOOLEAN, dying : BOOLEAN]
      BY <2>1 DEF NoTemp
    <2>3. UNCHANGED claim
      BY <1>2 DEF Prepare
    <2> QED
      BY <1>0, <1>2, <2>2, <2>3 DEF Prepare, ClaimsOK
  <1>3. CASE Swap
    <2>1. run.vr.size \in AnySize
      BY <1>3, SyncRun DEF Swap, At, BeforeSwap, RequestRecords, AnySize
    <2>2. NoTemp \in [owner : Names \cup {NoName}, cap : AnySize, full : BOOLEAN,
                      dying : BOOLEAN]
      BY DEF NoTemp, AnySize
    <2>3. PICK c : c = Cur
      OBVIOUS
    <2>4. \/ UNCHANGED <<claim, temp>>
          \/ /\ claim' = [claim EXCEPT ![c] = [size |-> run.vr.size, cap |-> temp[c].cap,
                                              full |-> temp[c].full]]
             /\ temp' = [temp EXCEPT ![c] = NoTemp]
      BY <1>3, <2>3 DEF Swap
    <2> DEFINE new == [size |-> run.vr.size, cap |-> temp[c].cap, full |-> temp[c].full]
    <2>5. c \in Slots => new \in [size : AnySize, cap : AnySize, full : BOOLEAN]
      BY <1>0, <2>1 DEF ClaimsOK
    <2> HIDE DEF new
    <2>6. claim' = claim \/ claim' = [claim EXCEPT ![c] = new]
      BY <2>4 DEF new
    <2>7. claim' \in [Slots -> [size : AnySize, cap : AnySize, full : BOOLEAN]]
      BY <1>0, <2>5, <2>6 DEF ClaimsOK
    <2>8. temp' \in [Slots -> [owner : Names \cup {NoName}, cap : AnySize,
                              full : BOOLEAN, dying : BOOLEAN]]
      BY <1>0, <2>2, <2>4 DEF ClaimsOK
    <2> QED
      BY <2>7, <2>8 DEF ClaimsOK
  <1>4. CASE HandleDeletion
    BY <1>0, <1>4 DEF HandleDeletion, ClaimsOK
  <1> QED
    BY <1>1, <1>2, <1>3, <1>4
    DEF Reconcile, Begin, AddFinalizer, HandlePending, HandleValidating, HandleSyncing,
        AdvanceCompleted, BackupSts, DeleteSts, StopPod, AwaitPod, AwaitCopy, Recreate,
        CheckPod, clusterVars

LEMMA RunOnPods ==
    ASSUME QueueInv, Reconcile
    PROVE  PodsOK'
  <1>0. PodsOK
    BY DEF QueueInv, ClusterOK
  <1>1. CASE UNCHANGED <<pod, mig>>
    BY <1>0, <1>1 DEF PodsOK
  <1>2. CASE StopPod
    BY <1>0, <1>2 DEF StopPod, PodsOK
  <1>3. CASE AwaitPod
    <2>1. run.vr.set \in Sets
      BY <1>3, SyncRun DEF AwaitPod, At, BeforeSwap
    <2> DEFINE new == [NoMover EXCEPT !.set = run.vr.set, !.st = "pending"]
    <2>2. new \in [set : Sets \cup {NoSet}, dying : BOOLEAN,
                 st : {"absent", "pending", "running", "ok", "bad"}]
      BY <2>1 DEF NoMover
    <2>3. PICK m : m = CurMover
      OBVIOUS
    <2>4. /\ mig' = mig \/ mig' = [mig EXCEPT ![m] = IF @ = NoMover THEN new ELSE @]
          /\ UNCHANGED pod
      BY <1>3, <2>3 DEF AwaitPod
    <2> HIDE DEF new
    <2> QED
      BY <1>0, <2>2, <2>4 DEF PodsOK
  <1>4. CASE AwaitCopy
    BY <1>0, <1>4 DEF AwaitCopy, PodsOK
  <1>5. CASE HandleDeletion
    BY <1>0, <1>5 DEF HandleDeletion, PodsOK
  <1> QED
    BY <1>1, <1>2, <1>3, <1>4, <1>5
    DEF Reconcile, Begin, AddFinalizer, HandlePending, HandleValidating, HandleSyncing,
        AdvanceCompleted, Prepare, BackupSts, DeleteSts, Swap, Recreate, CheckPod,
        clusterVars

(* The StatefulSet controller, the migrators and the deletes. *)
LEMMA ClusterStepOK ==
    ASSUME QueueInv, ClusterStep
    PROVE  ClusterOK' /\ Rest
  <1>0. StsOK /\ BackupOK /\ ClaimsOK /\ PodsOK
    BY DEF QueueInv, ClusterOK
  <1>1. ASSUME NEW c \in Slots, StartPod(c)
        PROVE  ClusterOK' /\ Rest
    <2>1. c[1] \in Sets
      BY DEF Slots
    <2>2. [size |-> sts[c[1]].tmpl, cap |-> sts[c[1]].tmpl, full |-> TRUE]
            \in [size : AnySize, cap : AnySize, full : BOOLEAN]
      BY <1>0, <2>1 DEF StsOK
    <2>3. ClaimsOK' /\ PodsOK'
      BY <1>0, <1>1, <2>2 DEF StartPod, ClaimsOK, PodsOK
    <2> QED
      BY <1>0, <1>1, <2>3 DEF StartPod, ClusterOK, StsOK, BackupOK
  <1>2. ASSUME NEW c \in Slots, PodEnds(c) \/ PrunePod(c)
        PROVE  ClusterOK' /\ Rest
    BY <1>0, <1>2 DEF PodEnds, PrunePod, ClusterOK, StsOK, BackupOK, ClaimsOK, PodsOK
  <1>3. ASSUME NEW c \in Slots, TempGoes(c)
        PROVE  ClusterOK' /\ Rest
    <2>1. NoTemp \in [owner : Names \cup {NoName}, cap : AnySize, full : BOOLEAN,
                      dying : BOOLEAN]
      BY DEF NoTemp, AnySize
    <2> QED
      BY <1>0, <1>3, <2>1 DEF TempGoes, ClusterOK, StsOK, BackupOK, ClaimsOK, PodsOK
  <1>4. ASSUME NEW m \in Movers, MigStarts(m) \/ MigFails(m)
        PROVE  ClusterOK' /\ Rest
    <2>1. \/ mig' = [mig EXCEPT ![m].st = "running"]
          \/ mig' = [mig EXCEPT ![m].st = "bad"]
      BY <1>4 DEF MigStarts, MigFails
    <2>2. UNCHANGED <<sts, want, backup, claim, temp, pod>> /\ Rest
      BY <1>4 DEF MigStarts, MigFails
    <2>3. PodsOK'
      BY <1>0, <2>1, <2>2 DEF PodsOK
    <2> QED
      BY <1>0, <2>2, <2>3 DEF ClusterOK, StsOK, BackupOK, ClaimsOK
  <1>5. ASSUME NEW m \in Movers, MigEnds(m)
        PROVE  ClusterOK' /\ Rest
    <2>1. PodsOK'
      BY <1>0, <1>5 DEF MigEnds, PodsOK
    <2>2. PICK s : s = SlotOf(m)
      OBVIOUS
    <2>3. /\ UNCHANGED <<sts, want, backup, claim, pod>> /\ Rest
          /\ temp' = [temp EXCEPT ![s].full = claim[s].full /\ pod[s] = "down"]
      BY <1>5, <2>2 DEF MigEnds
    <2>4. ClaimsOK'
      <3>1. PICK full : full = (claim[s].full /\ pod[s] = "down")
        OBVIOUS
      <3>2. full \in BOOLEAN /\ temp' = [temp EXCEPT ![s].full = full]
        BY <2>3, <3>1
      <3>3. temp' \in [Slots -> [owner : Names \cup {NoName}, cap : AnySize,
                                 full : BOOLEAN, dying : BOOLEAN]]
        BY <1>0, <3>2 DEF ClaimsOK
      <3> QED
        BY <1>0, <2>3, <3>3 DEF ClaimsOK
    <2> QED
      BY <1>0, <2>1, <2>3, <2>4 DEF ClusterOK, StsOK, BackupOK
  <1>6. ASSUME NEW m \in Movers, MigGoes(m)
        PROVE  ClusterOK' /\ Rest
    <2>1. NoMover \in [set : Sets \cup {NoSet}, dying : BOOLEAN,
                 st : {"absent", "pending", "running", "ok", "bad"}]
      BY DEF NoMover
    <2> QED
      BY <1>0, <1>6, <2>1 DEF MigGoes, ClusterOK, StsOK, BackupOK, ClaimsOK, PodsOK
  <1> QED
    BY <1>1, <1>2, <1>3, <1>4, <1>5, <1>6 DEF ClusterStep

(* Edits, and the recovery by hand. *)
LEMMA EditStep ==
    ASSUME QueueInv, NEW s \in Sets, Edit(s) \/ Restore(s)
    PROVE  ClusterOK' /\ Rest
  <1>0. StsOK /\ BackupOK /\ ClaimsOK /\ PodsOK
    BY DEF QueueInv, ClusterOK
  <1>1. UNCHANGED <<backup, claim, temp, pod, mig>> /\ Rest
    BY DEF Edit, Restore
  <1>2. StsOK'
    <2>1. CASE Edit(s)
      <3>1. PICK replicas \in 1 .. MaxReplicas :
               /\ want' = [want EXCEPT ![s] = [rev |-> want[s].rev + 1,
                                              replicas |-> replicas]]
               /\ sts' = [sts EXCEPT ![s] = [@ EXCEPT !.rev = want[s].rev + 1,
                                                     !.replicas = replicas]]
        BY <2>1 DEF Edit
      <3>2. want[s].rev + 1 \in 0 .. MaxEdits
        <4>1. want[s].rev \in 0 .. MaxEdits /\ want[s].rev < MaxEdits
          BY <1>0, <2>1 DEF Edit, StsOK
        <4> QED
          BY <4>1, QueueAssumption
      <3> QED
        BY <1>0, <3>1, <3>2 DEF StsOK
    <2>2. CASE Restore(s)
      <3>1. PICK b : b = backup[sts[s].by]
        OBVIOUS
      <3>2. /\ b.set = s /\ UNCHANGED want /\ sts[s].by \in Names
            /\ sts' = [sts EXCEPT ![s] = [up |-> TRUE, rev |-> b.rev,
                         replicas |-> b.replicas, tmpl |-> b.tmpl, by |-> NoName]]
        BY <1>0, <2>2, <3>1 DEF Restore, StsOK
      <3>3. b # NoBackup
        BY <3>2, RequestsAssumption DEF NoBackup
      <3>4. /\ b.rev \in 0 .. MaxEdits /\ b.replicas \in 1 .. MaxReplicas
            /\ b.tmpl \in AnySize
        BY <1>0, <3>1, <3>2, <3>3 DEF BackupOK
      <3> QED
        BY <1>0, <3>2, <3>4 DEF StsOK
    <2> QED
      BY <2>1, <2>2
  <1> QED
    BY <1>0, <1>1, <1>2 DEF ClusterOK, BackupOK, ClaimsOK, PodsOK

-----------------------------------------------------------------------------
(* The theorems. *)

(* Every step keeps the invariant, and every version legal. *)
LEMMA QueueStep == ASSUME QueueInv, [Next]_vars PROVE QueueInv' /\ AllLegal
  <1>1. CASE Reconcile
    <2>1. TrailOK' /\ QueueOK' /\ RunOK' /\ AllLegal
      BY <1>1, BeginStep, PhaseStep, SilentStep, StsStep, SwapStep, AdvanceStep,
         DeletionStep
      DEF Reconcile, HandleSyncing
    <2>2. UNCHANGED session
      BY <1>1
      DEF Reconcile, Begin, AddFinalizer, HandlePending, HandleValidating, HandleSyncing,
          AdvanceCompleted, Prepare, BackupSts, DeleteSts, StopPod, AwaitPod, AwaitCopy,
          Swap, Recreate, CheckPod, HandleDeletion
    <2>3. ClusterOK'
      BY <1>1, RunOnSts, RunOnClaims, RunOnPods DEF ClusterOK
    <2> QED
      BY <2>1, <2>2, <2>3 DEF QueueInv, SessionOK
  <1>2. ASSUME NEW n \in Names, Informer(n)
        PROVE  QueueInv' /\ AllLegal
    <2>1. UNCHANGED <<session, sts, want, backup, claim, temp, pod, mig, run>>
      BY <1>2 DEF Informer, clusterVars
    <2> QED
      BY <1>2, <2>1, InformerStep
      DEF QueueInv, SessionOK, RunOK, ClusterOK, StsOK, BackupOK, ClaimsOK, PodsOK
  <1>3. ASSUME ClusterOK', Rest
        PROVE  QueueInv' /\ AllLegal
    BY <1>3, KeptIsLegal
    DEF Rest, requestVars, QueueInv, TrailOK, QueueOK, SessionOK, RunOK
  <1>4. CASE ClusterStep
    BY <1>3, <1>4, ClusterStepOK
  <1>5. ASSUME NEW t \in Terminals, VolmigStep(t), UNCHANGED <<clusterVars, run>>
        PROVE  QueueInv' /\ AllLegal
    <2>1. UNCHANGED <<sts, want, backup, claim, temp, pod, mig, run>>
      BY <1>5 DEF clusterVars
    <2> QED
      BY <1>5, <2>1, CommandStep
      DEF QueueInv, RunOK, ClusterOK, StsOK, BackupOK, ClaimsOK, PodsOK
  <1>6. CASE \E s \in Sets : Edit(s) \/ Restore(s)
    BY <1>3, <1>6, EditStep
  <1>7. CASE UNCHANGED vars
    BY <1>3, <1>7
    DEF vars, clusterVars, requestVars, Rest, QueueInv, ClusterOK, StsOK, BackupOK,
        ClaimsOK, PodsOK
  <1> QED
    BY <1>1, <1>2, <1>4, <1>5, <1>6, <1>7 DEF Next, UserStep

LEMMA QueueStart == Init => QueueInv
  <1> SUFFICES ASSUME Init PROVE QueueInv
    OBVIOUS
  <1>1. TrailOK
    <2>1. VersionOK(GoneAfter(0))
      BY GoneOK
    <2>2. trail = [n \in Names |-> <<GoneAfter(0)>>]
      BY DEF Init, RequestsInit
    <2> HIDE DEF GoneAfter
    <2>3. PICK v : v = GoneAfter(0)
      OBVIOUS
    <2>4. v \in RequestRecords /\ VersionOK(v)
      BY <2>1, <2>3 DEF VersionOK
    <2>5. <<v>> \in Seq(RequestRecords) /\ Len(<<v>>) = 1 /\ <<v>>[1] = v
      BY <2>4
    <2> QED
      BY <2>2, <2>3, <2>4, <2>5, RequestsAssumption DEF TrailOK
  <1>2. QueueOK
    BY DEF Init, RequestsInit, QueueOK
  <1>3. SessionOK
    BY PromptFits DEF Init, VolmigInit, SessionOK, SessionFits, Sessions, Prompt
  <1>4. RunOK
    BY DEF Init, RunOK
  <1>5. InitReplicas \in 1 .. MaxReplicas /\ InitSize \in AnySize /\ 0 \in AnySize
        /\ 0 \in 0 .. MaxEdits /\ 0 \in 0 .. MaxReplicas
    BY QueueAssumption DEF AnySize
  <1>6. StsOK
    BY <1>5 DEF Init, StsOK
  <1>7. BackupOK
    BY <1>5 DEF Init, BackupOK, NoBackup
  <1>8. ClaimsOK
    BY <1>5 DEF Init, ClaimsOK, NoClaim, NoTemp
  <1>9. PodsOK
    BY DEF Init, PodsOK, NoMover
  <1> QED
    BY <1>1, <1>2, <1>3, <1>4, <1>6, <1>7, <1>8, <1>9 DEF QueueInv, ClusterOK

LEMMA QueueAlways == Spec => []QueueInv
  <1>1. QueueInv /\ [Next]_vars => QueueInv'
    BY QueueStep
  <1> QED
    BY <1>1, QueueStart, PTL DEF Spec

(* Every variable keeps its type: the operator indexes by the slot of its copy
   of a VolumeResize only while that is one of the StatefulSet, the cache keeps
   to its bound, and no name is in the work queue twice. *)
THEOREM QueueTypeCorrect == Spec => []QueueTypeOK
  BY QueueAlways, QueueTyped, PTL

(* A legal write is a step of the life cycle, or shows nothing. *)
LEMMA LegalFollows ==
    ASSUME QueueInv, QueueInv', AllLegal, NEW n \in Names
    PROVE  \/ ~ Exists(n) /\ Stored(n)'.incarnation = Stored(n).incarnation + 1
              /\ Stored(n)'.phase = "Pending"
           \/ ~ Exists(n)'
           \/ \E total \in 0 .. MaxReplicas :
                 /\ Stored(n)'.total = total
                 /\ [Lifecycle(n, total)!LifecycleNext]_(Lifecycle(n, total)!lifecycle)
  <1>1. PICK v : v = Stored(n)
    OBVIOUS
  <1>2. PICK w : w = Stored(n)'
    OBVIOUS
  <1>3. VersionOK(v) /\ v \in RequestRecords
    BY <1>1, StoredOK DEF QueueInv, VersionOK
  <1>4. VersionOK(w) /\ w \in RequestRecords
    <2>1. (VersionOK(Stored(n)))'
      <3>1. TrailOK'
        BY DEF QueueInv
      <3> QED
        BY <3>1, StoredOK, PTL
    <2> QED
      BY <1>2, <2>1 DEF VersionOK
  <1>5. Legal(v, w)
    BY <1>1, <1>2 DEF AllLegal
  <1>6. CASE w.phase = "Gone"
    BY <1>2, <1>6 DEF Exists
  <1>7. CASE v.phase = "Gone" /\ w.phase = "Pending" /\ w.incarnation = v.incarnation + 1
    BY <1>1, <1>2, <1>7 DEF Exists
  <1>8. PICK k \in 0 .. MaxReplicas : k = w.total
    BY <1>4 DEF RequestRecords
  <1> DEFINE All == (0 .. k - 1) \X {1}
  <1> SUFFICES ASSUME w.phase # "Gone", v.phase # "Gone"
               PROVE  [Lifecycle(n, k)!LifecycleNext]_(Lifecycle(n, k)!lifecycle)
    <2>1. w.phase = "Gone" \/ v.phase # "Gone"
          \/ (v.phase = "Gone" /\ w.phase = "Pending" /\ w.incarnation = v.incarnation + 1)
      BY <1>5 DEF Legal, Progress
    <2> QED
      BY <1>2, <1>6, <1>7, <1>8, <2>1
  <1>9. CASE Progress(w) = Progress(v)
    <2>1. UNCHANGED (Lifecycle(n, k)!lifecycle)
      BY <1>1, <1>2, <1>9 DEF Lifecycle!lifecycle, Progress
    <2> QED
      BY <2>1
  <1>10. CASE v.phase = "Pending" /\ w = [v EXCEPT !.phase = "Validating"]
    <2>1. /\ w.phase = "Validating" /\ w.done = v.done
          /\ w.total = 0 /\ v.total = 0
      BY <1>3, <1>10 DEF VersionOK, RequestRecords
    <2>2. Lifecycle(n, k)!Accept
      BY <1>1, <1>2, <1>10, <2>1 DEF Lifecycle!Accept
    <2> QED
      BY <2>2 DEF Lifecycle!LifecycleNext
  <1>11. CASE /\ v.phase = "Validating"
              /\ \E total \in 1 .. MaxReplicas :
                    w = [v EXCEPT !.phase = "Syncing", !.total = total]
    <2>1. /\ w.phase = "Syncing" /\ w.done = v.done /\ w.cur = 0
          /\ w.total # 0 /\ k >= 1
      BY <1>3, <1>8, <1>11 DEF VersionOK, RequestRecords
    <2>2. <<0, 1>> \in All /\ \A s \in All : 0 * 1 + 1 <= s[1] * 1 + s[2]
      BY <2>1
    <2>3. Lifecycle(n, k)!Start
      BY <1>1, <1>2, <1>11, <2>1, <2>2 DEF Lifecycle!Start, Lifecycle!rank
    <2> QED
      BY <2>3 DEF Lifecycle!LifecycleNext
  <1>12. CASE v.phase = "Syncing" /\ w = [v EXCEPT !.done = @ \cup {v.cur}]
    <2>1. /\ w.phase = "Syncing" /\ w.done = v.done \cup {v.cur} /\ w.cur = v.cur
          /\ w.total = v.total /\ v.total # 0
      BY <1>3, <1>12, QueueAssumption DEF VersionOK, RequestRecords, Ordinals
    <2>2. CASE v.cur \in v.done
      <3>1. w.done = v.done
        BY <2>1, <2>2
      <3>2. UNCHANGED (Lifecycle(n, k)!lifecycle)
        BY <1>1, <1>2, <1>12, <2>1, <3>1 DEF Lifecycle!lifecycle
      <3> QED
        BY <3>2
    <2>3. CASE v.cur \notin v.done
      <3>1. /\ w.done \X {1} = (v.done \X {1}) \cup {<<v.cur, 1>>}
            /\ <<v.cur, 1>> \notin v.done \X {1}
        BY <2>1, <2>3
      <3>2. Lifecycle(n, k)!CompleteVolume
        BY <1>1, <1>2, <1>12, <2>1, <3>1 DEF Lifecycle!CompleteVolume
      <3> QED
        BY <3>2 DEF Lifecycle!LifecycleNext
    <2> QED
      BY <2>2, <2>3
  <1>13. CASE v.phase = "Syncing" /\ v.cur \in v.done /\ w = Advanced(v)
    <2>1. /\ v.cur \in Nat /\ v.total \in Nat /\ v.cur < v.total
          /\ v.done \in {0 .. v.cur - 1, 0 .. v.cur}
      BY <1>3, <1>13, QueueAssumption DEF VersionOK, RequestRecords, Ordinals
    <2>2. v.done = 0 .. v.cur
      BY <1>13, <2>1
    <2>3. CASE v.cur < v.total - 1
      <3>1. w = [v EXCEPT !.cur = v.cur + 1]
        BY <1>3, <1>13, <2>3, AdvancedIs
      <3>2. /\ w.phase = "Syncing" /\ w.done = v.done /\ w.cur = v.cur + 1
            /\ w.total = v.total /\ k = v.total
        BY <1>3, <1>8, <1>13, <3>1 DEF RequestRecords
      <3>3. /\ <<v.cur, 1>> \in v.done \X {1}
            /\ <<v.cur + 1, 1>> \in All \ (v.done \X {1})
            /\ (v.cur + 1) * 1 + 1 = v.cur * 1 + 1 + 1
        BY <2>1, <2>2, <2>3, <3>2
      <3>4. Lifecycle(n, k)!Advance
        BY <1>1, <1>2, <1>13, <2>1, <3>2, <3>3 DEF Lifecycle!Advance, Lifecycle!rank
      <3> QED
        BY <3>4 DEF Lifecycle!LifecycleNext
    <2>4. CASE ~ (v.cur < v.total - 1)
      <3>1. w = [v EXCEPT !.phase = "Completed", !.cur = 0]
        BY <1>3, <1>13, <2>4, AdvancedIs
      <3>2. w.phase = "Completed" /\ w.done = v.done /\ k = v.total
        BY <1>3, <1>8, <3>1 DEF RequestRecords
      <3>3. v.done \X {1} = All
        BY <2>1, <2>2, <2>4, <3>2
      <3>4. Lifecycle(n, k)!Complete
        BY <1>1, <1>2, <1>13, <3>2, <3>3 DEF Lifecycle!Complete, Lifecycle!NoCursor
      <3> QED
        BY <3>4 DEF Lifecycle!LifecycleNext
    <2> QED
      BY <2>3, <2>4
  <1>14. CASE v.phase \in {"Validating", "Syncing"} /\ w = [v EXCEPT !.phase = "Failed"]
    <2>1. /\ w.phase = "Failed" /\ w.done = v.done /\ w.cur = v.cur
          /\ w.total = v.total
      BY <1>3, <1>14 DEF RequestRecords
    <2>2. Lifecycle(n, k)!GiveUp
      BY <1>1, <1>2, <1>14, <2>1 DEF Lifecycle!GiveUp
    <2> QED
      BY <2>2 DEF Lifecycle!LifecycleNext
  <1> QED
    BY <1>5, <1>9, <1>10, <1>11, <1>12, <1>13, <1>14 DEF Legal

(* Every VolumeResize follows the life cycle of MigrationLifecycle until it is
   gone, out of copies of it that are as old as they like: a write over a copy
   that is not the stored one is refused, and every other write is a step of the
   life cycle, or shows nothing. *)
THEOREM EachResizeFollowsLifecycle == Spec => EachFollowsLifecycle
  <1>1. QueueInv /\ QueueInv' /\ [Next]_vars
          => [\A n \in Names :
                \/ ~ Exists(n) /\ Stored(n)'.incarnation = Stored(n).incarnation + 1
                   /\ Stored(n)'.phase = "Pending"
                \/ ~ Exists(n)'
                \/ \E total \in 0 .. MaxReplicas :
                      /\ Stored(n)'.total = total
                      /\ [Lifecycle(n, total)!LifecycleNext]_(Lifecycle(n, total)!lifecycle)]_vars
    BY QueueStep, LegalFollows
  <1> QED
    BY <1>1, QueueAlways, PTL DEF Spec, EachFollowsLifecycle

-----------------------------------------------------------------------------
(* What a run reads that is one write old. *)

(* The versions of a VolumeResize grow by one write at most, and only the swap
   adds a slot to those completed. *)
Written(n) ==
    \/ trail'[n] = trail[n]
    \/ HasRoom(n) /\ \E w \in RequestRecords : trail'[n] = Append(trail[n], w)
AddsBySwap(n) ==
    Stored(n)'.done \subseteq Stored(n).done \/ (run'.name = n /\ run'.at = "recreate")
OneWrite == \A n \in Names : Written(n) /\ AddsBySwap(n)

(* The cache shows a completion unless the run that wrote it waits to go on; a
   run that prepares a slot finds it not completed. *)
SeenOK(n) ==
    /\ Len(trail[n]) > 1
          => Stored(n).done \subseteq Cached(n).done \/ (run.name = n /\ run.at = "recreate")
    /\ run.name = n /\ run.at = "prepare" => run.vr.cur \notin Stored(n).done
SeenInv == \A n \in Names : SeenOK(n)

LEMMA AppendedIs ==
    ASSUME TrailOK, NEW n \in Names, NEW w \in RequestRecords,
           trail'[n] = Append(trail[n], w)
    PROVE  /\ Stored(n)' = w /\ Cached(n)' = Cached(n)
           /\ Len(trail'[n]) = Len(trail[n]) + 1
  <1>1. trail[n] \in Seq(RequestRecords) /\ Len(trail[n]) \in Nat /\ Len(trail[n]) >= 1
    BY StoredOK DEF TrailOK
  <1>2. PICK s : s = trail[n]
    OBVIOUS
  <1>3. s \in Seq(RequestRecords) /\ Len(s) \in Nat /\ Len(s) >= 1
    BY <1>1, <1>2
  <1>4. /\ Len(Append(s, w)) = Len(s) + 1 /\ Append(s, w)[Len(s) + 1] = w
        /\ Append(s, w) \in Seq(RequestRecords) /\ Append(s, w) # << >>
        /\ Append(s, w)[1] = s[1]
    BY <1>3
  <1>5. Head(Append(s, w)) = Append(s, w)[1] /\ Head(s) = s[1]
    BY <1>3, <1>4
  <1> QED
    BY <1>2, <1>4, <1>5 DEF Stored, Cached

LEMMA NothingWritten == ASSUME UNCHANGED trail PROVE OneWrite
  BY DEF OneWrite, Written, AddsBySwap, Stored

LEMMA StoreWrites ==
    ASSUME TrailOK, NEW n \in Names, HasRoom(n), NEW v \in RequestRecords, Store(n, v),
           v.done \subseteq Stored(n).done \/ (run'.name = n /\ run'.at = "recreate")
    PROVE  OneWrite
  <1>1. trail \in [Names -> Seq(RequestRecords)]
    BY DEF TrailOK
  <1>2. CASE v = Stored(n)
    <2>1. trail' = trail
      BY <1>1, <1>2 DEF Store
    <2> QED
      BY <2>1, NothingWritten
  <1>3. CASE v # Stored(n)
    <2>1. /\ trail'[n] = Append(trail[n], v)
          /\ \A m \in Names \ {n} : trail'[m] = trail[m]
      BY <1>1, <1>3 DEF Store
    <2>2. Written(n) /\ AddsBySwap(n)
      BY <2>1, AppendedIs DEF Written, AddsBySwap
    <2>3. \A m \in Names \ {n} : Written(m) /\ AddsBySwap(m)
      BY <2>1 DEF Written, AddsBySwap, Stored
    <2> QED
      BY <2>2, <2>3 DEF OneWrite
  <1> QED
    BY <1>2, <1>3

LEMMA SaveWrites ==
    ASSUME QueueInv, run.at # "idle", NEW v \in RequestRecords, NEW at, Save(v, at),
           v.done \subseteq run.vr.done \/ at = "recreate"
    PROVE  OneWrite
  <1>1. PICK n \in Names : n = run.name
    BY RunIs
  <1>2. CASE Refused
    BY <1>2, NothingWritten DEF Save, Requeue
  <1>3. CASE ~ Refused
    <2>1. HasRoom(n) /\ Store(n, v) /\ run.vr = Stored(n)
      BY <1>1, <1>3 DEF Save, Refused
    <2>2. at = "recreate" => run'.name = n /\ run'.at = "recreate"
      <3>1. at = "recreate" => run' = [run EXCEPT !.at = at, !.vr = v]
        BY <1>3 DEF Save
      <3> QED
        BY <1>1, <3>1, RunIs
    <2> QED
      BY <2>1, <2>2, StoreWrites DEF QueueInv
  <1> QED
    BY <1>2, <1>3

LEMMA FailWrites == ASSUME QueueInv, run.at # "idle", Fail PROVE OneWrite
  <1> DEFINE v == [run.vr EXCEPT !.phase = "Failed"]
  <1>1. v \in RequestRecords /\ v.done \subseteq run.vr.done
    BY RunIs DEF RequestRecords, Phases
  <1>2. Save(v, "idle")
    BY DEF Fail
  <1> HIDE DEF v
  <1> QED
    BY <1>1, <1>2, SaveWrites

(* The writes of the operator. *)
LEMMA RunWrites == ASSUME QueueInv, Reconcile PROVE OneWrite
  <1>1. CASE UNCHANGED trail
    BY <1>1, NothingWritten
  <1>2. ASSUME run.at # "idle", NEW v \in RequestRecords, v.done \subseteq run.vr.done,
               NEW at, Save(v, at)
        PROVE  OneWrite
    BY <1>2, SaveWrites
  <1>3. CASE AddFinalizer
    <2>1. run.at # "idle" /\ Save([run.vr EXCEPT !.finalizer = TRUE], "idle")
      BY <1>3 DEF AddFinalizer, At
    <2>2. PICK v : v = [run.vr EXCEPT !.finalizer = TRUE]
      OBVIOUS
    <2>3. v \in RequestRecords /\ v.done = run.vr.done
      BY <2>1, <2>2, RunIs DEF RequestRecords
    <2> QED
      BY <1>2, <2>1, <2>2, <2>3
  <1>4. CASE HandlePending
    <2>1. run.at # "idle" /\ Save([run.vr EXCEPT !.phase = "Validating"], "idle")
      BY <1>4 DEF HandlePending, At
    <2>2. PICK v : v = [run.vr EXCEPT !.phase = "Validating"]
      OBVIOUS
    <2>3. v \in RequestRecords /\ v.done = run.vr.done
      BY <2>1, <2>2, RunIs DEF RequestRecords, Phases
    <2> QED
      BY <1>2, <2>1, <2>2, <2>3
  <1>5. CASE HandleValidating
    <2>1. run.at # "idle"
      BY <1>5 DEF HandleValidating, At
    <2>2. PICK total \in 1 .. MaxReplicas : total = sts[run.vr.set].replicas
      BY <2>1, RunIs DEF QueueInv, ClusterOK, StsOK
    <2>3. PICK v : v = [run.vr EXCEPT !.phase = "Syncing", !.total = total]
      OBVIOUS
    <2>4. Save(v, "idle") \/ Fail
      BY <1>5, <2>2, <2>3 DEF HandleValidating
    <2>5. v \in RequestRecords /\ v.done = run.vr.done
      <3>1. total \in 0 .. MaxReplicas /\ run.vr \in RequestRecords
        BY <2>1, RunIs
      <3> QED
        BY <2>3, <3>1 DEF RequestRecords, Phases
    <2> QED
      BY <1>2, <2>1, <2>4, <2>5, FailWrites
  <1>6. CASE AdvanceCompleted \/ CheckPod
    <2>1. /\ run.at # "idle" /\ run.vr.phase = "Syncing"
          /\ VersionOK(run.vr) /\ run.vr.cur \in run.vr.done
      BY <1>6, SyncRun DEF AdvanceCompleted, CheckPod, At, AfterSwap
    <2>2. UNCHANGED trail \/ Save(Advanced(run.vr), "idle")
      BY <1>6 DEF AdvanceCompleted, CheckPod, Requeue
    <2>3. PICK u : u = run.vr
      OBVIOUS
    <2>4. PICK v : v = Advanced(u)
      OBVIOUS
    <2>5. v \in RequestRecords
      BY <2>1, <2>3, <2>4, AdvancedOK DEF VersionOK
    <2>6. v.done = u.done
      <3>1. v = IF u.cur < u.total - 1 THEN [u EXCEPT !.cur = u.cur + 1]
                ELSE [u EXCEPT !.phase = "Completed", !.cur = 0]
        BY <2>1, <2>3, <2>4, AdvancedIs
      <3>2. u \in RequestRecords
        BY <2>1, <2>3 DEF VersionOK
      <3> QED
        BY <3>1, <3>2 DEF RequestRecords
    <2> QED
      BY <1>1, <1>2, <2>1, <2>2, <2>3, <2>4, <2>5, <2>6
  <1>7. CASE Prepare \/ AwaitCopy
    <2>1. run.at # "idle"
      BY <1>7 DEF Prepare, AwaitCopy, At
    <2>2. UNCHANGED trail \/ Fail
      BY <1>7 DEF Prepare, AwaitCopy, Goto, GiveUpWaiting, Requeue, requestVars
    <2> QED
      BY <1>1, <2>1, <2>2, FailWrites
  <1>8. CASE DeleteSts
    <2>1. run.at # "idle" /\ Save([run.vr EXCEPT !.stsDeleted = TRUE], "stop")
      BY <1>8 DEF DeleteSts, At
    <2>2. PICK v : v = [run.vr EXCEPT !.stsDeleted = TRUE]
      OBVIOUS
    <2>3. v \in RequestRecords /\ v.done = run.vr.done
      BY <2>1, <2>2, RunIs DEF RequestRecords
    <2> QED
      BY <1>2, <2>1, <2>2, <2>3
  <1>9. CASE Swap
    <2>1. run.at # "idle"
          /\ (Fail \/ Save([run.vr EXCEPT !.done = @ \cup {run.vr.cur}], "recreate"))
      BY <1>9 DEF Swap, At
    <2>2. PICK v : v = [run.vr EXCEPT !.done = @ \cup {run.vr.cur}]
      OBVIOUS
    <2>3. v \in RequestRecords
      BY <2>1, <2>2, RunIs DEF RequestRecords
    <2> QED
      BY <2>1, <2>2, <2>3, FailWrites, SaveWrites
  <1>10. CASE Recreate
    <2>1. run.at # "idle"
          /\ (Fail \/ Save([run.vr EXCEPT !.stsDeleted = FALSE], "check"))
      BY <1>10 DEF Recreate, At
    <2>2. PICK v : v = [run.vr EXCEPT !.stsDeleted = FALSE]
      OBVIOUS
    <2>3. v \in RequestRecords /\ v.done = run.vr.done
      BY <2>1, <2>2, RunIs DEF RequestRecords
    <2> QED
      BY <1>2, <2>1, <2>2, <2>3, FailWrites
  <1>11. CASE HandleDeletion
    <2>1. run.at # "idle" /\ Save(GoneAfter(run.vr.incarnation), "idle")
      BY <1>11 DEF HandleDeletion, At
    <2>2. PICK v : v = GoneAfter(run.vr.incarnation)
      OBVIOUS
    <2>3. v \in RequestRecords /\ v.done = {}
      BY <2>1, <2>2, RunIs, GoneOK DEF RequestRecords, VersionOK, GoneAfter
    <2> QED
      BY <1>2, <2>1, <2>2, <2>3
  <1> QED
    BY <1>1, <1>3, <1>4, <1>5, <1>6, <1>7, <1>8, <1>9, <1>10, <1>11
    DEF Reconcile, HandleSyncing, Begin, BackupSts, StopPod, AwaitPod, Goto,
        GiveUpWaiting, Requeue, requestVars

(* The writes of the commands. *)
LEMMA CommandWrites ==
    ASSUME QueueInv, NEW t \in Terminals, VolmigStep(t)
    PROVE  OneWrite
  <1>1. CASE UNCHANGED trail
    BY <1>1, NothingWritten
  <1>2. CASE Create(t)
    <2>1. PICK n \in Names : n = session[t].name
      BY <1>2 DEF QueueInv, SessionOK, Create, Running
    <2>2. session[t].set \in Sets /\ session[t].size \in Sizes \cup {0}
      BY <1>2 DEF QueueInv, SessionOK, Create, Running
    <2>3. PICK w : w = NewRequest(Stored(n).incarnation + 1, session[t].set,
                                  session[t].size)
      OBVIOUS
    <2>4. UNCHANGED trail \/ (Store(n, w) /\ HasRoom(n))
      BY <1>2, <2>1, <2>3 DEF Create
    <2>5. w \in RequestRecords /\ w.done = {}
      <3>1. 0 \in Ordinals /\ 0 \in 0 .. MaxReplicas
        BY QueueAssumption DEF Ordinals
      <3>2. Stored(n).incarnation + 1 \in Nat
        BY StoredOK DEF QueueInv, VersionOK, RequestRecords
      <3>3. w = [incarnation |-> Stored(n).incarnation + 1, set |-> session[t].set,
                 size |-> session[t].size, phase |-> "Pending",
                 cur |-> 0, total |-> 0, done |-> {}, stsDeleted |-> FALSE,
                 finalizer |-> FALSE, deleting |-> FALSE]
        BY <2>3 DEF NewRequest, GoneAfter
      <3> QED
        BY <2>2, <3>1, <3>2, <3>3 DEF RequestRecords, Phases
    <2> QED
      BY <1>1, <2>4, <2>5, StoreWrites DEF QueueInv
  <1>3. CASE Delete(t)
    <2>1. PICK n \in Names : n = session[t].name
      BY <1>3 DEF QueueInv, SessionOK, Delete, Running
    <2>2. PICK w : w = IF Stored(n).finalizer THEN [Stored(n) EXCEPT !.deleting = TRUE]
                       ELSE GoneAfter(Stored(n).incarnation)
      OBVIOUS
    <2>3. UNCHANGED trail \/ (Store(n, w) /\ HasRoom(n))
      BY <1>3, <2>1, <2>2 DEF Delete
    <2>4. Stored(n) \in RequestRecords
      BY StoredOK DEF QueueInv, VersionOK
    <2>5. w \in RequestRecords /\ w.done \subseteq Stored(n).done
      <3>1. CASE Stored(n).finalizer
        BY <2>2, <2>4, <3>1 DEF RequestRecords
      <3>2. CASE ~ Stored(n).finalizer
        <4>1. Stored(n).incarnation \in Nat /\ w = GoneAfter(Stored(n).incarnation)
          BY <2>2, <2>4, <3>2 DEF RequestRecords
        <4>2. w.done = {}
          BY <4>1 DEF GoneAfter
        <4> QED
          BY <4>1, <4>2, GoneOK DEF VersionOK
      <3> QED
        BY <3>1, <3>2
    <2> QED
      BY <1>1, <2>3, <2>5, StoreWrites DEF QueueInv
  <1> QED
    BY <1>1, <1>2, <1>3
    DEF VolmigStep, CheckName, LookUp, Watch, Follow, Poll, requestVars

(* A run past its swap waits for the cache, and only a new one prepares. *)
LEMMA RunMoves ==
    ASSUME QueueInv, Reconcile
    PROVE  /\ run.at = "recreate" => HasRoom(run.name)
           /\ run'.at = "prepare" => Begin
  <1>1. run.at = "recreate" => HasRoom(run.name)
    <2>1. run.at = "recreate" => Recreate
      BY DEF Reconcile, HandleSyncing, Begin, Idle, AddFinalizer, HandlePending,
             HandleValidating, AdvanceCompleted, Prepare, BackupSts, DeleteSts, StopPod,
             AwaitPod, AwaitCopy, Swap, CheckPod, HandleDeletion, At
    <2> QED
      BY <2>1 DEF Recreate, Save, Fail
  <1>2. ASSUME ~ Begin PROVE run'.at # "prepare"
    <2>1. run.at # "idle"
      BY <1>2 DEF Reconcile, HandleSyncing, AddFinalizer, HandlePending,
             HandleValidating, AdvanceCompleted, Prepare, BackupSts, DeleteSts, StopPod,
             AwaitPod, AwaitCopy, Swap, Recreate, CheckPod, HandleDeletion, At
    <2>2. run \in [name : Names, at : Steps \ {"idle"}, vr : RequestRecords]
      BY <2>1, RunIs
    <2>3. ASSUME NEW at \in {"idle", "stop", "recreate", "check"}, NEW v, Save(v, at)
          PROVE  run'.at # "prepare"
      <3>1. \/ run' = Idle
            \/ run' = [run EXCEPT !.at = at, !.vr = v]
        BY <2>3 DEF Save, Requeue
      <3> QED
        <4>1. Idle.at = "idle" /\ "idle" # "prepare" /\ at # "prepare"
          BY DEF Idle
        <4> HIDE DEF Idle
        <4>2. run' = [run EXCEPT !.at = at, !.vr = v] => run'.at = at
          BY <2>2
        <4> QED
          BY <3>1, <4>1, <4>2
    <2>4. Requeue \/ Fail => run'.at # "prepare"
      BY <2>3 DEF Requeue, Fail, Idle
    <2>5. ASSUME NEW at, at # "prepare", Goto(at) PROVE run'.at # "prepare"
      BY <2>2, <2>5 DEF Goto
    <2> QED
      BY <1>2, <2>3, <2>4, <2>5
      DEF Reconcile, HandleSyncing, AddFinalizer, HandlePending, HandleValidating,
          AdvanceCompleted, Prepare, BackupSts, DeleteSts, StopPod, AwaitPod, AwaitCopy,
          Swap, Recreate, CheckPod, HandleDeletion, GiveUpWaiting
  <1> QED
    BY <1>1, <1>2

(* A run that begins to prepare a slot out of a copy that is one write old. *)
LEMMA BeginSeen ==
    ASSUME QueueInv, SeenInv, Begin, NEW n \in Names, run'.name = n, run'.at = "prepare"
    PROVE  run'.vr.cur \notin Stored(n)'.done
  <1>1. run = Idle /\ UNCHANGED trail
    BY DEF Begin
  <1>2. n = Head(queue) /\ Route(Cached(n)) = "prepare" /\ run'.vr = Cached(n)
    BY DEF Begin, Idle
  <1>3. PICK v : v = Cached(n)
    OBVIOUS
  <1>4. v.cur \notin v.done
    <2>1. v.phase \in Phases
      BY <1>3, StoredOK DEF QueueInv, VersionOK, RequestRecords
    <2>2. Route(v) = "prepare"
      BY <1>2, <1>3
    <2> QED
      BY <2>1, <2>2 DEF Route, Phases, SlotCompleted
  <1>5. Stored(n).done \subseteq v.done
    <2>1. CASE Len(trail[n]) > 1
      BY <1>1, <1>3, <2>1 DEF SeenInv, SeenOK, Idle
    <2>2. CASE ~ (Len(trail[n]) > 1)
      <3>1. trail[n] \in Seq(RequestRecords) /\ Len(trail[n]) = 1
        <4>1. trail[n] \in Seq(RequestRecords) /\ Len(trail[n]) \in 1 .. Lag + 1
          BY DEF QueueInv, TrailOK
        <4>2. PICK k \in 1 .. Lag + 1 : k = Len(trail[n])
          BY <4>1
        <4>3. ~ (k > 1)
          BY <2>2, <4>2
        <4>4. k = 1
          BY <4>3, RequestsAssumption
        <4> QED
          BY <4>1, <4>2, <4>4
      <3>2. Head(trail[n]) = trail[n][1]
        BY <3>1
      <3> QED
        BY <1>3, <3>1, <3>2 DEF Stored, Cached
    <2> QED
      BY <2>1, <2>2
  <1> QED
    BY <1>1, <1>2, <1>3, <1>4, <1>5 DEF Stored

LEMMA SeenStep == ASSUME Lag = 1, QueueInv, SeenInv, [Next]_vars PROVE SeenInv'
  <1>0. \A n \in Names : /\ trail[n] \in Seq(RequestRecords)
                          /\ Len(trail[n]) \in 1 .. 2
    BY DEF QueueInv, TrailOK
  <1>1. ASSUME OneWrite,
               run' = run \/ (Reconcile /\ (run'.at = "prepare" => Begin))
        PROVE  SeenInv'
    <2> SUFFICES ASSUME NEW n \in Names PROVE SeenOK(n)'
      BY DEF SeenInv
    <2>1. SeenOK(n) /\ Written(n) /\ AddsBySwap(n)
      BY <1>1 DEF SeenInv, OneWrite
    <2>2. ASSUME Len(trail'[n]) > 1
          PROVE  \/ Stored(n)'.done \subseteq Cached(n)'.done
                 \/ run'.name = n /\ run'.at = "recreate"
      <3>1. CASE trail'[n] = trail[n]
        <4>1. Stored(n)' = Stored(n) /\ Cached(n)' = Cached(n) /\ ~ HasRoom(n)
          BY <1>0, <2>2, <3>1 DEF Stored, Cached, HasRoom
        <4>2. run.name = n /\ run.at = "recreate" => run' = run
          BY <1>1, <4>1, RunMoves
        <4> QED
          BY <2>1, <2>2, <3>1, <4>1, <4>2 DEF SeenOK
      <3>2. CASE HasRoom(n) /\ \E w \in RequestRecords : trail'[n] = Append(trail[n], w)
        <4>1. PICK w \in RequestRecords : trail'[n] = Append(trail[n], w)
          BY <3>2
        <4>2. Cached(n)' = Cached(n)
          BY <4>1, AppendedIs DEF QueueInv
        <4>3. Cached(n) = Stored(n)
          <5>1. Len(trail[n]) = 1 /\ trail[n] \in Seq(RequestRecords)
            BY <1>0, <3>2 DEF HasRoom
          <5>2. Head(trail[n]) = trail[n][1]
            BY <5>1
          <5> QED
            BY <5>1, <5>2 DEF Cached, Stored
        <4> QED
          BY <2>1, <4>2, <4>3 DEF AddsBySwap
      <3> QED
        BY <2>1, <3>1, <3>2 DEF Written
    <2>3. ASSUME run'.name = n, run'.at = "prepare"
          PROVE  run'.vr.cur \notin Stored(n)'.done
      <3>1. CASE run' = run
        BY <2>1, <2>3, <3>1 DEF SeenOK, AddsBySwap
      <3>2. CASE Begin
        BY <2>3, <3>2, BeginSeen
      <3> QED
        BY <1>1, <2>3, <3>1, <3>2
    <2> QED
      BY <2>2, <2>3 DEF SeenOK
  <1>2. CASE Reconcile
    BY <1>1, <1>2, RunWrites, RunMoves
  <1>3. ASSUME NEW m \in Names, Informer(m) PROVE SeenInv'
    <2>1. /\ Len(trail[m]) > 1 /\ trail' = [trail EXCEPT ![m] = Tail(@)]
          /\ run' = run
      BY <1>3 DEF Informer, CatchUp
    <2>2. /\ trail'[m] = Tail(trail[m])
          /\ \A n \in Names \ {m} : trail'[n] = trail[n]
      BY <2>1 DEF QueueInv, TrailOK
    <2>3. Len(trail'[m]) = 1 /\ Stored(m)' = Stored(m)
      <3>0. PICK k \in 1 .. 2 : k = Len(trail[m])
        BY <1>0
      <3>1. trail[m] \in Seq(RequestRecords) /\ Len(trail[m]) = 2
        <4>1. k > 1
          BY <2>1, <3>0
        <4>2. k = 2
          BY <4>1
        <4> QED
          BY <1>0, <3>0, <4>2
      <3>2. Len(Tail(trail[m])) = 1 /\ Tail(trail[m])[1] = trail[m][2]
        BY <3>1
      <3> QED
        BY <2>2, <3>1, <3>2 DEF Stored
    <2>4. SeenOK(m)'
      <3>1. ~ (Len(trail'[m]) > 1)
        BY <2>3
      <3>2. run'.name = m /\ run'.at = "prepare" => run'.vr.cur \notin Stored(m)'.done
        BY <2>1, <2>3 DEF SeenInv, SeenOK
      <3> QED
        BY <3>1, <3>2 DEF SeenOK
    <2>5. \A n \in Names \ {m} : SeenOK(n)'
      BY <2>1, <2>2 DEF SeenInv, SeenOK, Stored, Cached
    <2> QED
      BY <2>4, <2>5 DEF SeenInv
  <1>4. ASSUME NEW t \in Terminals, VolmigStep(t), UNCHANGED <<clusterVars, run>>
        PROVE  SeenInv'
    BY <1>1, <1>4, CommandWrites
  <1>5. CASE ClusterStep
    BY <1>1, <1>5, ClusterStepOK, NothingWritten DEF Rest, requestVars
  <1>6. CASE \E s \in Sets : Edit(s) \/ Restore(s)
    BY <1>1, <1>6, EditStep, NothingWritten DEF Rest, requestVars
  <1>7. CASE UNCHANGED vars
    BY <1>1, <1>7, NothingWritten DEF vars, requestVars
  <1> QED
    BY <1>2, <1>3, <1>4, <1>5, <1>6, <1>7 DEF Next, UserStep

(* With a cache at most one write behind no slot whose completion is stored is
   prepared again: a run that has written the completion waits with its next
   write until the cache shows it, so no run begins before, and nobody else
   completes a slot.  The users' habits do not matter. *)
THEOREM SlotsPreparedOnce == ASSUME Lag = 1 PROVE Spec => []NoSlotTwice
  <1>1. Init => SeenInv
    <2> SUFFICES ASSUME Init PROVE SeenInv
      OBVIOUS
    <2>1. run = Idle /\ \A n \in Names : trail[n] = <<GoneAfter(0)>>
      BY DEF Init, RequestsInit
    <2>2. \A n \in Names : Len(trail[n]) = 1
      <3>1. PICK v : v = GoneAfter(0)
        OBVIOUS
      <3>2. Len(<<v>>) = 1
        OBVIOUS
      <3> QED
        BY <2>1, <3>1, <3>2
    <2>3. ASSUME NEW n \in Names PROVE ~ (Len(trail[n]) > 1)
      <3>1. Len(trail[n]) = 1
        BY <2>2
      <3> QED
        BY <3>1
    <2>4. run.at # "prepare"
      BY <2>1 DEF Idle
    <2> QED
      BY <2>3, <2>4 DEF SeenInv, SeenOK
  <1>2. QueueInv /\ SeenInv /\ [Next]_vars => SeenInv'
    BY SeenStep
  <1>3. QueueInv /\ SeenInv => NoSlotTwice
    <2> SUFFICES ASSUME QueueInv, SeenInv, run.at = "prepare"
                 PROVE  run.vr.cur \notin Stored(run.name).done
      BY DEF NoSlotTwice, At
    <2>1. run.name \in Names
      BY RunIs
    <2> QED
      BY <2>1 DEF SeenInv, SeenOK
  <1> QED
    BY <1>1, <1>2, <1>3, QueueAlways, PTL DEF Spec
-----------------------------------------------------------------------------
(* The cursor: with distinct names its steps are those of the nested loop over
   replicas and volumes; with a repeated name it never gets past the second
   entry. *)

Earlier == {p \in Nat \X Nat : p[1] < p[2]}

(* A non-empty set of natural numbers has a least member. *)
LEMMA LeastMember ==
    ASSUME NEW S \in SUBSET Nat, S # {}
    PROVE  \E m \in S : \A k \in S : m <= k
<1>1. IsWellFoundedOn(Earlier, Nat)
  BY NatLessThanWellFounded DEF OpToRel, Earlier
<1>2. PICK m \in S : \A k \in S : ~ (<<k, m>> \in Earlier)
  BY <1>1, WFMin
<1>3. ASSUME NEW k \in S PROVE m <= k
  <2>1. k \in Nat /\ m \in Nat /\ ~ (<<k, m>> \in Earlier)
    BY <1>2
  <2>2. ~ (k < m)
    BY <2>1 DEF Earlier
  <2> QED
    BY <2>1, <2>2
<1> QED
  BY <1>3

(* FirstIndex, for a name that some entry has: the least of its indices. *)
LEMMA FirstIndexOfEntry ==
    ASSUME NEW vols, Len(vols) \in Nat, NEW i \in 1 .. Len(vols)
    PROVE  /\ FirstIndex(vols, vols[i]) \in 1 .. i
           /\ vols[FirstIndex(vols, vols[i])] = vols[i]
<1> DEFINE First(k) == vols[k] = vols[i] /\ \A j \in 1 .. k - 1 : vols[j] # vols[i]
           S == {k \in 1 .. Len(vols) : vols[k] = vols[i]}
<1>0. S \in SUBSET Nat /\ S # {}
  OBVIOUS
<1>1. PICK m \in S : \A k \in S : m <= k
  BY <1>0, LeastMember
<1>2. m \in 1 .. Len(vols) /\ First(m)
  BY <1>1
<1>3. FirstIndex(vols, vols[i]) = CHOOSE k \in 1 .. Len(vols) : First(k)
  BY DEF FirstIndex
<1>4. PICK c \in 1 .. Len(vols) : c = FirstIndex(vols, vols[i]) /\ First(c)
  BY <1>2, <1>3
<1> QED
  BY <1>4

(* With distinct names the cursor goes on to the next entry of the list, behind
   the last one to the next replica, and behind the last replica to the end: the
   nested loop of README.md, "For each replica (0, 1, 2, ...)". *)
THEOREM CursorSuccessor ==
    ASSUME NEW vols, Len(vols) \in Nat,
           \A i, j \in 1 .. Len(vols) : vols[i] = vols[j] => i = j,
           NEW maxReplica \in Nat, NEW r \in 0 .. maxReplica,
           NEW i \in 1 .. Len(vols)
    PROVE  NextCursor(vols, maxReplica, r, vols[i]) =
             IF i < Len(vols) THEN <<r, vols[i + 1]>>
             ELSE IF r < maxReplica THEN <<r + 1, vols[1]>>
             ELSE Done
<1>1. FirstIndex(vols, vols[i]) = i
  <2>1. FirstIndex(vols, vols[i]) \in 1 .. Len(vols)
    BY FirstIndexOfEntry
  <2> QED
    BY <2>1, FirstIndexOfEntry
<1> QED
  BY <1>1 DEF NextCursor

(* With a repeated name the cursor stays among the entries up to the second of
   the two, of the same replica: the migration never ends. *)
THEOREM RepeatedNameNeverPassed ==
    ASSUME NEW vols, Len(vols) \in Nat,
           NEW i \in 1 .. Len(vols), NEW j \in 1 .. Len(vols),
           i < j, vols[i] = vols[j],
           NEW maxReplica \in Nat, NEW r \in 0 .. maxReplica,
           NEW k \in 1 .. j
    PROVE  \E next \in 1 .. j :
               NextCursor(vols, maxReplica, r, vols[k]) = <<r, vols[next]>>
<1>1. PICK m \in 1 .. j - 1 : m = FirstIndex(vols, vols[k])
  <2>1. CASE k = j
    BY <2>1, FirstIndexOfEntry
  <2>2. CASE k < j
    BY <2>2, FirstIndexOfEntry
  <2> QED
    BY <2>1, <2>2
<1>2. NextCursor(vols, maxReplica, r, vols[k]) = <<r, vols[m + 1]>>
  BY <1>1 DEF NextCursor
<1> QED
  BY <1>2
-----------------------------------------------------------------------------
(* The whole walk of the cursor. *)

(* f is a walk of k steps from the first slot of replica r on. *)
Walks(f, k, vols, r, maxReplica) ==
    f = [i \in 0 .. k |-> IF i = 0 THEN <<r, vols[1]>>
                          ELSE NextCursor(vols, maxReplica, f[i - 1][1], f[i - 1][2])]

LEMMA WalkStep ==
    ASSUME NEW f, NEW k \in Nat, NEW vols, NEW r, NEW maxReplica,
           Walks(f, k, vols, r, maxReplica)
    PROVE  /\ f[0] = <<r, vols[1]>>
           /\ \A i \in 1 .. k :
                 f[i] = NextCursor(vols, maxReplica, f[i - 1][1], f[i - 1][2])
<1>1. ASSUME NEW i \in 0 .. k
      PROVE  f[i] = IF i = 0 THEN <<r, vols[1]>>
                    ELSE NextCursor(vols, maxReplica, f[i - 1][1], f[i - 1][2])
  BY DEF Walks
<1>2. f[0] = <<r, vols[1]>>
  BY <1>1
<1>3. ASSUME NEW i \in 1 .. k
      PROVE  f[i] = NextCursor(vols, maxReplica, f[i - 1][1], f[i - 1][2])
  BY <1>1
<1> QED
  BY <1>2, <1>3

(* There is a walk of any length: a shortest one that is missing would be the one
   before it with a step more. *)
LEMMA WalkExists ==
    ASSUME NEW k \in Nat, NEW vols, NEW r, NEW maxReplica
    PROVE  \E f : Walks(f, k, vols, r, maxReplica)
<1> DEFINE Missing == {i \in Nat : ~ \E f : Walks(f, i, vols, r, maxReplica)}
<1>1. SUFFICES ASSUME Missing # {} PROVE FALSE
  OBVIOUS
<1>2. PICK m \in Missing : \A i \in Missing : m <= i
  BY <1>1, LeastMember
<1>3. m # 0
  <2>1. Walks([i \in 0 .. 0 |-> <<r, vols[1]>>], 0, vols, r, maxReplica)
    BY DEF Walks
  <2> QED
    BY <1>2, <2>1
<1>4. m - 1 \in Nat /\ m - 1 \notin Missing
  BY <1>2, <1>3
<1>5. PICK f : Walks(f, m - 1, vols, r, maxReplica)
  BY <1>4
<1>6. PICK g : g = [i \in 0 .. m |-> IF i = m
                      THEN NextCursor(vols, maxReplica, f[m - 1][1], f[m - 1][2])
                      ELSE f[i]]
  OBVIOUS
<1>7. ASSUME NEW i \in 0 .. m
      PROVE  g[i] = IF i = 0 THEN <<r, vols[1]>>
                    ELSE NextCursor(vols, maxReplica, g[i - 1][1], g[i - 1][2])
  <2>1. CASE i = m
    <3>1. g[m - 1] = f[m - 1]
      BY <1>3, <1>4, <1>6
    <3> QED
      BY <1>3, <1>6, <2>1, <3>1
  <2>2. CASE i # m /\ i # 0
    <3>1. i \in 1 .. m - 1 /\ i - 1 \in 0 .. m
      BY <2>2
    <3>2. g[i] = f[i] /\ g[i - 1] = f[i - 1]
      BY <1>6, <3>1
    <3> QED
      BY <1>4, <1>5, <2>2, <3>1, <3>2, WalkStep
  <2>3. CASE i # m /\ i = 0
    <3>1. f[0] = <<r, vols[1]>>
      BY <1>4, <1>5, WalkStep
    <3> QED
      BY <1>6, <2>3, <3>1
  <2> QED
    BY <2>1, <2>2, <2>3
<1>8. Walks(g, m, vols, r, maxReplica)
  BY <1>6, <1>7 DEF Walks
<1> QED
  BY <1>2, <1>8

(* And only one. *)
LEMMA WalkUnique ==
    ASSUME NEW k \in Nat, NEW vols, NEW r, NEW maxReplica, NEW f, NEW g,
           Walks(f, k, vols, r, maxReplica), Walks(g, k, vols, r, maxReplica)
    PROVE  f = g
<1>f. /\ f[0] = <<r, vols[1]>>
      /\ \A i \in 1 .. k :
            f[i] = NextCursor(vols, maxReplica, f[i - 1][1], f[i - 1][2])
  BY WalkStep
<1>g. /\ g[0] = <<r, vols[1]>>
      /\ \A i \in 1 .. k :
            g[i] = NextCursor(vols, maxReplica, g[i - 1][1], g[i - 1][2])
  BY WalkStep
<1>0. f[0] = g[0]
  BY <1>f, <1>g
<1> DEFINE Differ == {i \in 0 .. k : f[i] # g[i]}
<1>1. CASE Differ = {}
  <2>1. f = [i \in 0 .. k |-> f[i]] /\ g = [i \in 0 .. k |-> g[i]]
    BY DEF Walks
  <2>2. \A i \in 0 .. k : f[i] = g[i]
    BY <1>1
  <2> QED
    BY <2>1, <2>2
<1>2. CASE Differ # {}
  <2>0. Differ \in SUBSET Nat
    OBVIOUS
  <2>1. PICK m \in Differ : \A i \in Differ : m <= i
    BY <1>2, <2>0, LeastMember
  <2>2. m # 0
    BY <1>0, <2>1
  <2>3. m \in 1 .. k /\ m - 1 \in 0 .. k /\ m - 1 \notin Differ
    BY <2>1, <2>2
  <2>4. f[m - 1] = g[m - 1]
    BY <2>3
  <2>5. f[m] = NextCursor(vols, maxReplica, f[m - 1][1], f[m - 1][2])
    BY <1>f, <2>3
  <2>6. g[m] = NextCursor(vols, maxReplica, g[m - 1][1], g[m - 1][2])
    BY <1>g, <2>3
  <2> QED
    BY <2>1, <2>4, <2>5, <2>6
<1> QED
  BY <1>1, <1>2

LEMMA WalkFromWalks ==
    ASSUME NEW vols, NEW r, NEW maxReplica, NEW k \in Nat,
           k = Len(vols) * (maxReplica + 1 - r)
    PROVE  Walks(WalkFrom(vols, r, maxReplica), k, vols, r, maxReplica)
<1>1. PICK f : Walks(f, k, vols, r, maxReplica)
  BY WalkExists
<1> QED
  BY <1>1 DEF Walks, WalkFrom

LEMMA DividedIs ==
    ASSUME NEW d \in Nat \ {0}, NEW i \in Nat
    PROVE  i \div d \in Nat /\ (i % d) \in 0 .. d - 1 /\ i = d * (i \div d) + (i % d)
OBVIOUS

LEMMA DividesTo ==
    ASSUME NEW d \in Nat \ {0}, NEW q \in Nat, NEW m \in 0 .. d - 1, NEW i, i = d * q + m
    PROVE  i \div d = q /\ (i % d) = m
OBVIOUS

(* The index after one in a row of d, and after the last of a row. *)
LEMMA DividesOn ==
    ASSUME NEW d \in Nat \ {0}, NEW q \in Nat, NEW m \in 0 .. d - 1, NEW i \in Nat,
           i - 1 = d * q + m, m + 1 < d
    PROVE  i \div d = q /\ (i % d) = m + 1
<1>1. PICK e \in 0 .. d - 1 : e = m + 1
  OBVIOUS
<1>2. i = d * q + e
  BY <1>1
<1>3. i \div d = q /\ (i % d) = e
  BY <1>2, DividesTo
<1> QED
  BY <1>1, <1>3

LEMMA DividesOver ==
    ASSUME NEW d \in Nat \ {0}, NEW q \in Nat, NEW m \in 0 .. d - 1, NEW i \in Nat,
           i - 1 = d * q + m, ~ (m + 1 < d)
    PROVE  i \div d = q + 1 /\ (i % d) = 0
<1>1. PICK p \in Nat : p = q + 1
  OBVIOUS
<1>2. m + 1 = d /\ i = d * q + d
  OBVIOUS
<1>3. d * p = d * q + d
  BY <1>1
<1>4. i = d * p + 0 /\ 0 \in 0 .. d - 1
  BY <1>2, <1>3
<1> QED
  BY <1>1, <1>4, DividesTo

LEMMA SameRow ==
    ASSUME NEW d \in Nat \ {0}, NEW i \in Nat \ {0}, ((i - 1) % d) + 1 < d
    PROVE  i \div d = (i - 1) \div d /\ (i % d) = ((i - 1) % d) + 1
<1>1. PICK q \in Nat, m \in 0 .. d - 1 :
         q = (i - 1) \div d /\ m = ((i - 1) % d) /\ i - 1 = d * q + m
  <2>1. i - 1 \in Nat
    OBVIOUS
  <2> QED
    BY <2>1, DividedIs
<1>2. i \in Nat /\ i - 1 = d * q + m /\ m + 1 < d
  BY <1>1
<1>3. i \div d = q /\ (i % d) = m + 1
  BY <1>2, DividesOn
<1> QED
  BY <1>1, <1>3

LEMMA TimesNat == ASSUME NEW d \in Nat, NEW h \in Nat PROVE d * h \in Nat
OBVIOUS

LEMMA TimesLess ==
    ASSUME NEW d \in Nat \ {0}, NEW q \in Nat, NEW h \in Nat, d * q < d * h
    PROVE  q <= h - 1
OBVIOUS

LEMMA TimesNext ==
    ASSUME NEW d \in Nat \ {0}, NEW q \in Nat, NEW h \in Nat, q <= h - 1
    PROVE  d * q + d <= d * h
OBVIOUS

LEMMA TimesCancel ==
    ASSUME NEW d \in Nat \ {0}, NEW q \in Nat, NEW h \in Nat
    PROVE  d * (q + 1) + 0 = d * h <=> q + 1 = h
OBVIOUS

(* With distinct names the walk is the nested loop. *)
LEMMA LoopWalks ==
    ASSUME NEW vols, Len(vols) \in Nat \ {0}, Distinct(vols),
           NEW maxReplica \in Nat, NEW r \in 0 .. maxReplica,
           NEW k \in Nat, k = Len(vols) * (maxReplica + 1 - r)
    PROVE  Walks(InOrder(vols, r, maxReplica), k, vols, r, maxReplica)
<1>1. PICK d \in Nat \ {0} : d = Len(vols)
  OBVIOUS
<1>2. PICK h \in Nat \ {0} : h = maxReplica + 1 - r /\ k = d * h
  BY <1>1
<1>3. PICK g : g = [i \in 0 .. k |-> IF i = k THEN Done
                      ELSE <<r + i \div d, vols[(i % d) + 1]>>]
  OBVIOUS
<1>4. g = InOrder(vols, r, maxReplica)
  BY <1>1, <1>3 DEF InOrder
<1>5. k > 0
  BY <1>2
<1>6. ASSUME NEW i \in 0 .. k
      PROVE  g[i] = IF i = 0 THEN <<r, vols[1]>>
                    ELSE NextCursor(vols, maxReplica, g[i - 1][1], g[i - 1][2])
  <2>1. CASE i = 0
    <3>1. i \div d = 0 /\ (i % d) = 0
      BY <2>1
    <3>2. r + 0 = r /\ 0 + 1 = 1
      OBVIOUS
    <3> QED
      BY <1>3, <1>5, <2>1, <3>1, <3>2
  <2>2. CASE i # 0
    <3>1. i - 1 \in Nat /\ i - 1 \in 0 .. k /\ i - 1 # k
      BY <2>2
    <3>2. PICK q \in Nat, m \in 0 .. d - 1 :
             q = (i - 1) \div d /\ m = (i - 1) % d /\ i - 1 = d * q + m
      <4>1. PICK e \in Nat : e = i - 1
        BY <3>1
      <4>2. e \div d \in Nat /\ (e % d) \in 0 .. d - 1 /\ e = d * (e \div d) + (e % d)
        BY DividedIs
      <4>3. PICK q \in Nat, m \in 0 .. d - 1 : q = e \div d /\ m = (e % d)
        BY <4>2
      <4> QED
        BY <4>1, <4>2, <4>3
    <3>3. g[i - 1] = <<r + q, vols[m + 1]>>
      BY <1>3, <3>1, <3>2
    <3>4. q <= h - 1
      <4>1. d * q < d * h
        BY <1>2, <3>1, <3>2
      <4> QED
        BY <1>2, <3>2, <4>1, TimesLess
    <3>5. r + q \in 0 .. maxReplica /\ m + 1 \in 1 .. Len(vols)
      BY <1>1, <1>2, <3>2, <3>4
    <3>6. NextCursor(vols, maxReplica, r + q, vols[m + 1]) =
             IF m + 1 < d THEN <<r + q, vols[m + 2]>>
             ELSE IF r + q < maxReplica THEN <<r + q + 1, vols[1]>>
             ELSE Done
      <4>1. PICK j \in 1 .. Len(vols) : j = m + 1
        BY <3>5
      <4>2. PICK s \in 0 .. maxReplica : s = r + q
        BY <3>5
      <4>3. NextCursor(vols, maxReplica, s, vols[j]) =
               IF j < Len(vols) THEN <<s, vols[j + 1]>>
               ELSE IF s < maxReplica THEN <<s + 1, vols[1]>>
               ELSE Done
        BY CursorSuccessor DEF Distinct
      <4>4. j + 1 = m + 2
        BY <3>2, <4>1
      <4> QED
        BY <1>1, <4>1, <4>2, <4>3, <4>4
    <3>7. CASE m + 1 < d
      <4>1. i = d * q + (m + 1) /\ m + 1 \in 0 .. d - 1
        BY <3>2, <3>7
      <4>2. i \div d = q /\ (i % d) = m + 1
        <5>1. i \in Nat
          OBVIOUS
        <5>2. ((i - 1) % d) + 1 < d
          BY <3>2, <3>7
        <5> QED
          BY <2>2, <3>2, <5>1, <5>2, SameRow
      <4>3. i # k
        <5>1. d * h # d * q + (m + 1)
          <6>1. d * q + d <= d * h
            BY <1>2, <3>2, <3>4, TimesNext
          <6> QED
            BY <1>2, <3>2, <3>7, <6>1
        <5> QED
          BY <1>2, <4>1, <5>1
      <4>4. g[i] = <<r + q, vols[m + 1 + 1]>>
        BY <1>3, <4>2, <4>3
      <4>5. m + 1 + 1 = m + 2
        BY <3>2
      <4> QED
        BY <2>2, <3>3, <3>6, <3>7, <4>4, <4>5
    <3>8. CASE ~ (m + 1 < d)
      <4>1. m + 1 = d /\ i = d * (q + 1) + 0 /\ q + 1 \in Nat /\ 0 \in 0 .. d - 1
        BY <1>2, <3>2, <3>8
      <4>2. i \div d = q + 1 /\ (i % d) = 0
        <5>1. i \in Nat
          OBVIOUS
        <5> QED
          BY <3>2, <3>8, <5>1, DividesOver
      <4>3. i = k <=> ~ (r + q < maxReplica)
        <5>1. i = k <=> q + 1 = h
          BY <1>2, <3>2, <4>1, TimesCancel
        <5> QED
          BY <1>2, <3>2, <3>4, <5>1
      <4>4. CASE i = k
        <5>1. NextCursor(vols, maxReplica, r + q, vols[m + 1]) = Done
          BY <3>6, <3>8, <4>3, <4>4
        <5>2. g[i] = Done
          BY <1>3, <4>4
        <5> QED
          BY <2>2, <3>3, <5>1, <5>2
      <4>5. CASE i # k
        <5>1. g[i] = <<r + (q + 1), vols[0 + 1]>>
          BY <1>3, <4>2, <4>5
        <5>2. r + (q + 1) = r + q + 1 /\ 0 + 1 = 1
          BY <3>2
        <5> QED
          BY <2>2, <3>3, <3>6, <3>8, <4>3, <4>5, <5>1, <5>2
      <4> QED
        BY <4>4, <4>5
    <3> QED
      BY <3>7, <3>8
  <2> QED
    BY <2>1, <2>2
<1> QED
  BY <1>3, <1>4, <1>6 DEF Walks

(* A walk whose every step from the first j entries leads to one of them stays
   there. *)
Closed(vols, r, maxReplica, j) ==
    \A n \in 1 .. j : \E next \in 1 .. j :
        NextCursor(vols, maxReplica, r, vols[n]) = <<r, vols[next]>>

LEMMA WalkStays ==
    ASSUME NEW vols, NEW r, NEW maxReplica, NEW j \in Nat \ {0},
           Closed(vols, r, maxReplica, j),
           NEW k \in Nat, NEW f, Walks(f, k, vols, r, maxReplica)
    PROVE  \E n \in 1 .. j : f[k] = <<r, vols[n]>>
<1>0. /\ f[0] = <<r, vols[1]>>
      /\ \A i \in 1 .. k :
            f[i] = NextCursor(vols, maxReplica, f[i - 1][1], f[i - 1][2])
  <2>1. Walks(f, k, vols, r, maxReplica) /\ k \in Nat
    OBVIOUS
  <2> QED
    BY ONLY <2>1, WalkStep
<1> DEFINE Past == {m \in 0 .. k : ~ \E n \in 1 .. j : f[m] = <<r, vols[n]>>}
<1>1. SUFFICES ASSUME Past # {} PROVE FALSE
  OBVIOUS
<1>2. Past \in SUBSET Nat
  OBVIOUS
<1>3. PICK m \in Past : \A n \in Past : m <= n
  BY <1>1, <1>2, LeastMember
<1>4. m # 0
  <2>1. 1 \in 1 .. j
    OBVIOUS
  <2>2. 0 \notin Past
    BY <1>0, <2>1
  <2> QED
    BY <1>3, <2>2
<1>5. m \in 1 .. k /\ m - 1 \in 0 .. k /\ m - 1 \notin Past
  BY <1>3, <1>4
<1>6. PICK n \in 1 .. j : f[m - 1] = <<r, vols[n]>>
  BY <1>5
<1>7. f[m] = NextCursor(vols, maxReplica, r, vols[n])
  BY <1>0, <1>5, <1>6
<1>8. \E next \in 1 .. j : f[m] = <<r, vols[next]>>
  BY <1>7 DEF Closed
<1> QED
  BY <1>3, <1>8

(* With a repeated name that is the entries up to the second of the two. *)
LEMMA WalkTurnsBack ==
    ASSUME NEW vols, Len(vols) \in Nat,
           NEW i \in 1 .. Len(vols), NEW j \in 1 .. Len(vols),
           i < j, vols[i] = vols[j],
           NEW maxReplica \in Nat, NEW r \in 0 .. maxReplica,
           NEW k \in Nat, NEW f, Walks(f, k, vols, r, maxReplica)
    PROVE  \E n \in 1 .. j : f[k] = <<r, vols[n]>>
<1>1. Closed(vols, r, maxReplica, j)
  BY RepeatedNameNeverPassed DEF Closed
<1>2. j \in Nat \ {0}
  OBVIOUS
<1> QED
  BY <1>1, <1>2, WalkStays

(* No volume has the empty name. *)
Named(vols) == \A i \in 1 .. Len(vols) : vols[i] # ""

(* For any list of names the cursor, from the first slot of a replica on, visits
   every slot once, replica by replica and in the order of the list, and then
   comes to the end (getNextVolumeReplica): if and only if no name is repeated. *)
THEOREM CursorInOrder ==
    ASSUME NEW vols, Len(vols) \in Nat \ {0}, Named(vols),
           NEW maxReplica \in Nat, NEW r \in 0 .. maxReplica
    PROVE  WalkFrom(vols, r, maxReplica) = InOrder(vols, r, maxReplica) <=> Distinct(vols)
<1>1. PICK k \in Nat : k = Len(vols) * (maxReplica + 1 - r)
  <2>1. PICK d \in Nat, h \in Nat : d = Len(vols) /\ h = maxReplica + 1 - r
    <3>1. PICK d \in Nat : d = Len(vols)
      OBVIOUS
    <3>2. maxReplica + 1 - r \in Nat
      OBVIOUS
    <3> QED
      BY <3>1, <3>2
  <2>2. d * h \in Nat
    BY TimesNat
  <2> QED
    BY <2>1, <2>2
<1>2. Walks(WalkFrom(vols, r, maxReplica), k, vols, r, maxReplica)
  BY <1>1, WalkFromWalks
<1>3. ASSUME Distinct(vols)
      PROVE  WalkFrom(vols, r, maxReplica) = InOrder(vols, r, maxReplica)
  <2>1. Walks(InOrder(vols, r, maxReplica), k, vols, r, maxReplica)
    BY <1>1, <1>3, LoopWalks
  <2> QED
    BY <1>2, <2>1, WalkUnique
<1>4. ASSUME ~ Distinct(vols)
      PROVE  WalkFrom(vols, r, maxReplica) # InOrder(vols, r, maxReplica)
  <2>0. PICK a \in 1 .. Len(vols), b \in 1 .. Len(vols) : a # b /\ vols[a] = vols[b]
    BY <1>4 DEF Distinct
  <2>1. PICK i \in 1 .. Len(vols), j \in 1 .. Len(vols) : i < j /\ vols[i] = vols[j]
    <3>0. PICK len \in Nat : len = Len(vols)
      OBVIOUS
    <3>1. a < b \/ b < a
      BY <2>0, <3>0
    <3> QED
      BY <2>0, <3>1
  <2>2. PICK n \in 1 .. j : WalkFrom(vols, r, maxReplica)[k] = <<r, vols[n]>>
    <3>1. PICK f : f = WalkFrom(vols, r, maxReplica)
      OBVIOUS
    <3>2. Walks(f, k, vols, r, maxReplica)
      BY <1>2, <3>1
    <3>3. \E n \in 1 .. j : f[k] = <<r, vols[n]>>
      BY <2>1, <3>2, WalkTurnsBack
    <3> QED
      BY <3>1, <3>3
  <2>3. InOrder(vols, r, maxReplica)[k] = Done
    <3>1. k \in 0 .. k
      OBVIOUS
    <3> QED
      BY <1>1, <3>1 DEF InOrder
  <2>4. <<r, vols[n]>> # Done
    <3>0. PICK len \in Nat : len = Len(vols)
      OBVIOUS
    <3>1. n \in 1 .. Len(vols)
      BY <2>1, <3>0
    <3>2. vols[n] # ""
      BY <3>1 DEF Named
    <3> QED
      BY <3>2 DEF Done
  <2> QED
    BY <2>2, <2>3, <2>4
<1> QED
  BY <1>3, <1>4

(* The cursor of a run behind its swap visits the slots that are left, in order, if
   and only if the names in spec.volumes are distinct. *)
THEOREM CursorAlwaysInOrder == Spec => []CursorWalksInOrder
<1>1. QueueInv => CursorWalksInOrder
  <2> SUFFICES ASSUME QueueInv, At("check"), NEW vols \in VolumeLists
               PROVE  WalkFrom(vols, run.vr.cur, run.vr.total - 1)
                         = InOrder(vols, run.vr.cur, run.vr.total - 1) <=> Distinct(vols)
    BY DEF CursorWalksInOrder
  <2>1. PICK v : v = run.vr
    OBVIOUS
  <2>2. VersionOK(v) /\ v.phase = "Syncing"
    BY <2>1 DEF QueueInv, RunOK, At, Idle, AfterSwap
  <2>3. v.cur \in Ordinals /\ v.total \in 0 .. MaxReplicas /\ v.cur < v.total
    BY <2>2 DEF VersionOK, RequestRecords
  <2>4. v.total - 1 \in Nat /\ v.cur \in 0 .. v.total - 1
    BY <2>3, QueueAssumption DEF Ordinals
  <2>5. PICK k \in 1 .. 2 : vols \in [1 .. k -> {"data", "logs"}]
    BY DEF VolumeLists
  <2>6. Len(vols) \in Nat \ {0} /\ Named(vols)
    <3>1. Len(vols) = k
      BY <2>5
    <3> QED
      <4>1. \A i \in 1 .. k : vols[i] \in {"data", "logs"}
        BY <2>5
      <4>2. "" \notin {"data", "logs"}
        OBVIOUS
      <4>3. Named(vols)
        BY <3>1, <4>1, <4>2, Zenon DEF Named
      <4> QED
        BY <3>1, <4>3
  <2> QED
    BY <2>1, <2>4, <2>6, CursorInOrder
<1> QED
  BY <1>1, QueueAlways, PTL
=============================================================================
