---------------------------- MODULE CampaignProofs ----------------------------
(***************************************************************************)
(* The data of a campaign: for any number of VolumeResizes, StatefulSets,  *)
(* replicas and terminals, while the users are tidy and the cache is at    *)
(* most one write behind, no migration harms what the one before left, and *)
(* none is harmed by it.                                                   *)
(***************************************************************************)
EXTENDS QueueProofs

-----------------------------------------------------------------------------
(* The condition. *)

(* What the documentation asks of the users, and the cache one write behind:
   names are not used again, a migration that failed is deleted before the
   next, and a name is for one StatefulSet. *)
TidyUse ==
    /\ Lag = 1 /\ {"reuse", "untidy"} \cap Habits = {}
    /\ \A n \in Names : \A w, x \in Wishes[n] : w[1] = x[1]

-----------------------------------------------------------------------------
(* The invariant: versions of a VolumeResize, stored, cached and in a run. *)

Marked(v)    == [v EXCEPT !.deleting = TRUE]
Failing(v)   == [v EXCEPT !.phase = "Failed"]
ToPrepare(v) == v.phase = "Syncing" /\ ~ v.deleting /\ v.cur \notin v.done

VersionFits(v) ==
    /\ v.phase \notin {"Gone", "Pending"} => v.finalizer
    /\ v.deleting => v.finalizer
    /\ v.phase = "Gone" => v.incarnation \in {0, 1} /\ v = GoneAfter(v.incarnation)
    /\ v.phase # "Gone" => v.incarnation = 1
    /\ v.phase \in {"Pending", "Validating"} => ~ v.stsDeleted
    /\ v.phase = "Completed" => v.total > 0 /\ v.done = 0 .. v.total - 1

RunFits ==
    /\ run.at # "idle" => VersionFits(run.vr)
    /\ run.vr.deleting <=> run.at = "deletion"
    /\ run.at = "finalizer" => ~ run.vr.finalizer
    /\ run.at \notin {"idle", "deletion", "finalizer"} => run.vr.finalizer
    /\ run.at \in BeforeSwap => ToPrepare(run.vr)

VersionsInv == RunFits /\ \A n \in Names : VersionFits(Stored(n)) /\ VersionFits(Cached(n))

(* A create under way is of a new name, for a StatefulSet that nobody else is
   about to migrate or migrates. *)
CreateFits(t) ==
    /\ <<session[t].set, session[t].size>> \in Wishes[session[t].name]
    /\ Stored(session[t].name) = GoneAfter(0)
    /\ \A n \in Names : About(n, session[t].set) => Stored(n).phase = "Completed"
    /\ \A u \in Terminals \ {t} : Running(u, "create") => session[u].set # session[t].set
CreateInv == \A t \in Terminals : Running(t, "create") => CreateFits(t)

(* One VolumeResize per StatefulSet, apart from those that are Completed. *)
Alone(n, m) == Exists(n) /\ Exists(m) /\ Stored(n).set = Stored(m).set
                  => "Completed" \in {Stored(n).phase, Stored(m).phase}
AloneInv == \A n \in Names : \A m \in Names \ {n} : Alone(n, m)

(* The stored version is v, apart from a delete; or v that failed. *)
Fresh(v, n)       == Stored(n) \in {v, Marked(v)}
FailedSince(v, n) == Stored(n) \in {Failing(v), Marked(Failing(v))}

Away(v) == ~ sts[v.set].up

(* What a migration can fail of after it started: a copy without room, of which
   the migrator stays; or a replica without a claim. *)
Bad(v, n) ==
    LET m == <<n, v.cur>> IN mig[m].st = "bad" /\ ~ mig[m].dying /\ v.stsDeleted
Bare(v) == InitReplicas < MaxReplicas /\ ~ v.stsDeleted /\ ~ Away(v)

(* What a run that starts from the cache finds stored. *)
Holding == {"stop", "await", "copy", "swap", "recreate"}
CacheFits(n) ==
    /\ ToPrepare(Cached(n)) =>
          \/ Fresh(Cached(n), n) /\ (Cached(n).stsDeleted \/ ~ Away(Cached(n)))
          \/ FailedSince(Cached(n), n) /\ (Bad(Cached(n), n) \/ Bare(Cached(n)))
          \/ run.name = n /\ run.at \in Holding /\ Stored(n) = run.vr
    /\ Cached(n).deleting => Stored(n) \in {Cached(n), GoneAfter(1)}
CacheInv == \A n \in Names : CacheFits(n)

(* How the copy a run holds differs from what is stored: by a delete; or by a
   failure, but then the run gets neither to the swap nor past the delete of the
   StatefulSet. *)
SyncFits(n, v) ==
    \/ Fresh(v, n)
    \/ FailedSince(v, n) /\ Bad(v, n) /\ run.at \in {"prepare", "stop", "await", "copy"}
    \/ FailedSince(v, n) /\ Bare(v) /\ run.at \in {"prepare", "backup", "delete"}
HoldsInv ==
    LET n == run.name  v == run.vr IN
    /\ run.at \in BeforeSwap => SyncFits(n, v)
    /\ run.at \in {"recreate", "check"} => Fresh(v, n)
    /\ run.at \in Holding => v.stsDeleted
    /\ run.at \in {"backup", "delete", "check"} => ~ v.stsDeleted
    /\ run.at \in {"prepare", "backup", "delete"} /\ ~ v.stsDeleted => ~ Away(v)
    /\ run.at = "recreate" => Away(v)
    /\ run.at = "deletion" => /\ Stored(n) \in {v, GoneAfter(1)}
                              /\ Cached(n) \in {v, GoneAfter(1)}

(* The annotation sts-deleted tells whether the StatefulSet is there. *)
AwayFits(n) ==
    LET v == Stored(n) IN v.phase = "Syncing" =>
        /\ v.stsDeleted /\ v.cur \notin v.done => Away(v)
        /\ ~ v.deleting /\ ~ v.stsDeleted => ~ Away(v)
        /\ v.stsDeleted /\ v.cur \in v.done /\ ~ v.deleting
              => run.name = n /\ run.at = "recreate" /\ run.vr = v
AwayInv == \A n \in Names : AwayFits(n)

(* A backup is of the StatefulSet its VolumeResize is about, and is there when
   it is needed. *)
BackupFits(n) ==
    /\ Stored(n).stsDeleted \/ Cached(n).stsDeleted => backup[n] # NoBackup
    /\ backup[n] # NoBackup => /\ Stored(n).incarnation = 1
                               /\ Exists(n) => backup[n].set = Stored(n).set
BackupInv ==
    /\ \A n \in Names : BackupFits(n)
    /\ run.vr.stsDeleted \/ run.at = "delete" => backup[run.name] # NoBackup

-----------------------------------------------------------------------------
(* The invariant: migrators, claims and temporary claims. *)

Live(m) == mig[m].st \in {"pending", "running", "ok"} /\ ~ mig[m].dying

(* A migrator that is told to go has done its slot, or its VolumeResize goes as
   well. *)
Told(m) ==
    LET n == m[1] IN
    \/ m[2] \in Stored(n).done
    \/ Stored(n).phase = "Gone"
    \/ Cached(n).deleting /\ ~ (run.name = n /\ run.at \in BeforeSwap)
    \/ run.name = n /\ run.at = "swap" /\ run.vr.cur = m[2]

(* A migrator that counts is one for the slot of the cursor, whose pod is down
   and whose StatefulSet is away. *)
MoverFits(m) ==
    LET v == Stored(m[1]) IN
    mig[m] # NoMover =>
        /\ mig[m].st # "absent" /\ mig[m].set \in Sets
        /\ v.incarnation = 1 /\ v.phase \notin {"Pending", "Validating"}
        /\ v.phase # "Gone" => mig[m].set = v.set
        /\ Live(m) => /\ v.phase = "Syncing" /\ v.cur = m[2] /\ v.cur \notin v.done
                      /\ v.stsDeleted /\ pod[SlotOf(m)] = "down"
        /\ mig[m].dying => Told(m)
        /\ mig[m].st = "bad" => v.size < Need[SlotOf(m)]

(* A run that waits for a copy, or is about to swap. *)
CopyRunFits ==
    /\ run.at \in {"copy", "swap"} /\ Fresh(run.vr, run.name) => pod[Cur] = "down"
    /\ run.at = "copy" => mig[CurMover] # NoMover
    /\ run.at = "swap" => mig[CurMover].st # "running" /\ ~ Live(CurMover)

MoverInv == CopyRunFits /\ \A m \in Movers : MoverFits(m)

(* A temporary claim belongs to the slot of the cursor of its VolumeResize, and
   goes with it. *)
TempFits(c) ==
    LET v == Stored(temp[c].owner) IN
    temp[c] # NoTemp =>
        /\ temp[c].owner \in Names /\ v.incarnation = 1
        /\ v.phase # "Gone" => temp[c].cap = v.size
        /\ ~ temp[c].dying => /\ v.phase \in {"Syncing", "Failed"}
                              /\ c = <<v.set, v.cur>> /\ v.cur \notin v.done
Holds(n, c) == temp[c] # NoTemp /\ temp[c].owner = n
CopyFits(m) ==
    /\ mig[m].st = "running" => /\ Holds(m[1], SlotOf(m))
                                /\ mig[m].dying <=> temp[SlotOf(m)].dying
    /\ mig[m].st = "ok" /\ ~ mig[m].dying =>
          /\ Holds(m[1], SlotOf(m))
          /\ temp[SlotOf(m)].full /\ ~ temp[SlotOf(m)].dying
SwapRunFits ==
    run.at = "swap" => Holds(run.name, Cur) /\ temp[Cur].full /\ ~ temp[Cur].dying
TempInv ==
    /\ \A c \in Slots : TempFits(c)
    /\ \A m \in Movers : CopyFits(m)
    /\ SwapRunFits

Whole(c) == claim[c] # NoClaim => claim[c].full
DoneFits(n) ==
    LET v == Stored(n) IN
    /\ v.phase = "Syncing" /\ v.stsDeleted => claim[<<v.set, v.cur>>] # NoClaim
    /\ v.phase = "Syncing" => \A r \in v.done : /\ claim[<<v.set, r>>] # NoClaim
                                                /\ claim[<<v.set, r>>].size = v.size
    /\ v.phase = "Completed" => \A r \in v.done : /\ claim[<<v.set, r>>].full
                                                  /\ claim[<<v.set, r>>].size <= v.size
ClaimInv ==
    /\ \A c \in Slots : Whole(c) /\ claim[c].size <= claim[c].cap
    /\ InitReplicas = MaxReplicas => \A c \in Slots : claim[c] # NoClaim
    /\ \A n \in Names : DoneFits(n)
    /\ run.at \in BeforeSwap \ {"prepare"} => claim[Cur] # NoClaim

(* The claim of replica 0 is the smallest, and no template is smaller. *)
Least(s) ==
    /\ claim[<<s, 0>>] # NoClaim /\ claim[<<s, 0>>].size <= sts[s].tmpl
    /\ \A r \in Ordinals :
          claim[<<s, r>>] # NoClaim => claim[<<s, 0>>].size <= claim[<<s, r>>].size
LeastInv ==
    /\ \A s \in Sets : Least(s)
    /\ \A n \in Names :
          /\ backup[n] # NoBackup => claim[<<backup[n].set, 0>>].size <= backup[n].tmpl
          /\ Stored(n).phase = "Syncing"
                => Stored(n).size <= claim[<<Stored(n).set, 0>>].size

(* What one migration leaves is what the next can start from: in every step of
   handleSyncing and handleDeletion, and between them, the versions, backups,
   migrators and claims agree. *)
CampaignInv ==
    /\ QueueInv /\ VersionsInv /\ CreateInv /\ AloneInv
    /\ CacheInv /\ HoldsInv /\ AwayInv /\ BackupInv
    /\ MoverInv /\ TempInv /\ ClaimInv /\ LeastInv

-----------------------------------------------------------------------------
(* Versions of one VolumeResize. *)

Alike(v, w) ==
    /\ w.incarnation = v.incarnation /\ w.set = v.set /\ w.size = v.size
    /\ w.cur = v.cur /\ w.total = v.total /\ w.done = v.done
    /\ w.stsDeleted = v.stsDeleted /\ w.finalizer = v.finalizer

Finalized(v)  == [v EXCEPT !.finalizer = TRUE]
Validated(v)  == [v EXCEPT !.phase = "Validating"]
Counted(v, k) == [v EXCEPT !.phase = "Syncing", !.total = k]
Deleted(v)    == [v EXCEPT !.stsDeleted = TRUE]
Swapped(v)    == [v EXCEPT !.done = @ \cup {v.cur}]
Returned(v)   == [v EXCEPT !.stsDeleted = FALSE]

LEMMA MarkedIs ==
    ASSUME NEW v \in RequestRecords
    PROVE  /\ Marked(v) \in RequestRecords /\ Alike(v, Marked(v))
           /\ Marked(v).phase = v.phase /\ Marked(v).deleting
           /\ v.deleting => Marked(v) = v
  BY DEF Marked, Alike, RequestRecords

LEMMA FailingIs ==
    ASSUME NEW v \in RequestRecords
    PROVE  /\ Failing(v) \in RequestRecords /\ Alike(v, Failing(v))
           /\ Failing(v).phase = "Failed" /\ Failing(v).deleting = v.deleting
  BY DEF Failing, Alike, RequestRecords, Phases

LEMMA FreshIs ==
    ASSUME NEW v \in RequestRecords, NEW n, Fresh(v, n)
    PROVE  /\ Alike(v, Stored(n)) /\ Stored(n).phase = v.phase
           /\ Stored(n) = v \/ Stored(n).deleting
  BY MarkedIs DEF Fresh, Alike

LEMMA FailedIs ==
    ASSUME NEW v \in RequestRecords, NEW n, FailedSince(v, n)
    PROVE  Alike(v, Stored(n)) /\ Stored(n).phase = "Failed"
  BY MarkedIs, FailingIs DEF FailedSince, Alike

(* The writes of the operator. *)
LEMMA WrittenIs ==
    ASSUME NEW v \in RequestRecords
    PROVE  /\ /\ Finalized(v).phase = v.phase /\ Finalized(v).set = v.set
              /\ Finalized(v).size = v.size /\ Finalized(v).incarnation = v.incarnation
              /\ Finalized(v).stsDeleted = v.stsDeleted /\ Finalized(v).finalizer
              /\ Finalized(v).deleting = v.deleting /\ Finalized(v) \in RequestRecords
              /\ Finalized(v).cur = v.cur /\ Finalized(v).done = v.done
              /\ Finalized(v).total = v.total
           /\ /\ Alike(v, Validated(v)) /\ Validated(v).phase = "Validating"
              /\ Validated(v).deleting = v.deleting /\ Validated(v) \in RequestRecords
           /\ /\ Deleted(v).phase = v.phase /\ Deleted(v).set = v.set
              /\ Deleted(v).size = v.size /\ Deleted(v).incarnation = v.incarnation
              /\ Deleted(v).stsDeleted /\ Deleted(v).finalizer = v.finalizer
              /\ Deleted(v).deleting = v.deleting /\ Deleted(v) \in RequestRecords
              /\ Deleted(v).cur = v.cur /\ Deleted(v).done = v.done
              /\ Deleted(v).total = v.total
           /\ /\ Swapped(v).phase = v.phase /\ Swapped(v).set = v.set
              /\ Swapped(v).size = v.size /\ Swapped(v).incarnation = v.incarnation
              /\ Swapped(v).stsDeleted = v.stsDeleted
              /\ Swapped(v).finalizer = v.finalizer
              /\ Swapped(v).deleting = v.deleting /\ Swapped(v) \in RequestRecords
              /\ Swapped(v).cur = v.cur /\ Swapped(v).done = v.done \cup {v.cur}
              /\ Swapped(v).total = v.total
           /\ /\ Returned(v).phase = v.phase /\ Returned(v).set = v.set
              /\ Returned(v).size = v.size /\ Returned(v).incarnation = v.incarnation
              /\ ~ Returned(v).stsDeleted /\ Returned(v).finalizer = v.finalizer
              /\ Returned(v).deleting = v.deleting /\ Returned(v) \in RequestRecords
              /\ Returned(v).cur = v.cur /\ Returned(v).done = v.done
              /\ Returned(v).total = v.total
  <1>1. /\ Finalized(v) \in RequestRecords /\ Validated(v) \in RequestRecords
        /\ Deleted(v) \in RequestRecords /\ Swapped(v) \in RequestRecords
        /\ Returned(v) \in RequestRecords
    BY DEF Finalized, Validated, Deleted, Swapped, Returned, RequestRecords, Phases
  <1>2. /\ Alike(v, Validated(v)) /\ Validated(v).phase = "Validating"
        /\ Validated(v).deleting = v.deleting
    BY DEF Validated, RequestRecords, Alike
  <1> QED
    BY <1>1, <1>2 DEF Finalized, Deleted, Swapped, Returned, RequestRecords

LEMMA CountedIs ==
    ASSUME NEW v \in RequestRecords, NEW k \in 0 .. MaxReplicas
    PROVE  /\ Counted(v, k) \in RequestRecords /\ Counted(v, k).phase = "Syncing"
           /\ Counted(v, k).total = k /\ Counted(v, k).set = v.set
           /\ Counted(v, k).size = v.size /\ Counted(v, k).incarnation = v.incarnation
           /\ Counted(v, k).stsDeleted = v.stsDeleted
           /\ Counted(v, k).finalizer = v.finalizer
           /\ Counted(v, k).deleting = v.deleting
           /\ Counted(v, k).cur = v.cur /\ Counted(v, k).done = v.done
  BY DEF Counted, RequestRecords, Phases

(* The cursor goes on only behind a slot that is done. *)
LEMMA AdvancedFits ==
    ASSUME NEW v, VersionOK(v), v.phase = "Syncing", v.cur \in v.done
    PROVE  LET w == Advanced(v) IN
           /\ w \in RequestRecords /\ w.set = v.set /\ w.size = v.size
           /\ w.incarnation = v.incarnation /\ w.stsDeleted = v.stsDeleted
           /\ w.finalizer = v.finalizer /\ w.deleting = v.deleting
           /\ w.done = v.done /\ w.total = v.total
           /\ v.cur \in Ordinals /\ v.total \in 0 .. MaxReplicas
           /\ \/ w.phase = "Syncing" /\ w.cur = v.cur + 1 /\ w.cur \notin w.done
              \/ w.phase = "Completed" /\ w.total > 0 /\ w.done = 0 .. w.total - 1
  <1>1. PICK w : w = Advanced(v)
    OBVIOUS
  <1>2. /\ v \in RequestRecords /\ v.cur < v.total
        /\ v.done \in {0 .. v.cur - 1, 0 .. v.cur}
    BY DEF VersionOK
  <1>3. v.cur \in 0 .. MaxReplicas - 1 /\ v.total \in 0 .. MaxReplicas
    BY <1>2 DEF RequestRecords, Ordinals
  <1>4. v.done = 0 .. v.cur
    BY <1>2, <1>3
  <1>5. w \in RequestRecords
    BY <1>1, AdvancedOK DEF VersionOK
  <1>6. CASE v.cur < v.total - 1
    <2>1. w = [v EXCEPT !.cur = v.cur + 1]
      BY <1>1, <1>6, AdvancedIs
    <2>2. v.cur + 1 \notin v.done
      BY <1>3, <1>4
    <2> QED
      BY <1>1, <1>2, <1>3, <1>5, <2>1, <2>2 DEF RequestRecords, Ordinals
  <1>7. CASE ~ (v.cur < v.total - 1)
    <2>1. w = [v EXCEPT !.phase = "Completed", !.cur = 0]
      BY <1>1, <1>7, AdvancedIs
    <2>2. v.total > 0 /\ v.cur = v.total - 1
      BY <1>2, <1>3, <1>7
    <2>3. v.done = 0 .. v.total - 1
      BY <1>4, <2>2
    <2> QED
      BY <1>1, <1>2, <1>3, <1>5, <2>1, <2>2, <2>3 DEF RequestRecords, Ordinals
  <1> QED
    BY <1>6, <1>7

-----------------------------------------------------------------------------
(* What a step does to what is stored, what is cached and the run. *)

Elsewhere(n) ==
    \A m \in Names \ {n} : Stored(m)' = Stored(m) /\ Cached(m)' = Cached(m)
SameVersions == \A m \in Names : Stored(m)' = Stored(m) /\ Cached(m)' = Cached(m)

(* The run is one for n, and v the copy it works with. *)
Runs(n, v) ==
    /\ n \in Names /\ n = run.name /\ v = run.vr /\ run.at # "idle"
    /\ VersionOK(v) /\ v \in RequestRecords /\ v.phase # "Gone" /\ v.set \in Sets

(* A run ends without a write, after the cache has caught up when it was
   refused one, or gave up a wait. *)
Idles      == run' = Idle /\ SameVersions
GivesUp(n) == Idles /\ Cached(n) = Stored(n)
Refuses(n) == GivesUp(n) /\ Stored(n) # run.vr

(* A run writes over its copy, which was stored and cached. *)
Writes(n, w, at) ==
    /\ Stored(n) = run.vr /\ Cached(n) = run.vr
    /\ Stored(n)' = w /\ Cached(n)' = run.vr /\ Elsewhere(n)
    /\ run' = IF at = "idle" THEN Idle ELSE [run EXCEPT !.at = at, !.vr = w]

Saves(n, w, at) == Refuses(n) \/ Writes(n, w, at)
Goes(at) == SameVersions /\ run' = [run EXCEPT !.at = at]

LEMMA RunsIs == ASSUME QueueInv, run.at # "idle" PROVE \E n, v : n \in Names /\ Runs(n, v)
  BY RunIs DEF Runs

LEMMA SameIs == UNCHANGED trail => SameVersions
  BY DEF SameVersions, Stored, Cached

(* The cache has caught up with a VolumeResize that can be written. *)
LEMMA CaughtUp ==
    ASSUME TidyUse, QueueInv, NEW n \in Names, HasRoom(n)
    PROVE  /\ Cached(n) = Stored(n) /\ Len(trail[n]) = 1
           /\ trail[n] \in Seq(RequestRecords)
  <1>1. trail[n] \in Seq(RequestRecords) /\ Len(trail[n]) \in 1 .. 2
    BY DEF TidyUse, QueueInv, TrailOK
  <1>2. Len(trail[n]) = 1
    BY <1>1 DEF HasRoom, TidyUse
  <1>3. Head(trail[n]) = trail[n][1]
    BY <1>1, <1>2
  <1> QED
    BY <1>1, <1>2, <1>3 DEF Cached, Stored

LEMMA StoreIs ==
    ASSUME TidyUse, QueueInv, NEW n \in Names, HasRoom(n),
           NEW v \in RequestRecords, Store(n, v)
    PROVE  /\ Cached(n) = Stored(n) /\ Elsewhere(n)
           /\ Stored(n)' = v /\ Cached(n)' = Stored(n)
  <1>1. Cached(n) = Stored(n)
    BY CaughtUp
  <1>2. trail \in [Names -> Seq(RequestRecords)]
    BY DEF QueueInv, TrailOK
  <1>3. CASE v = Stored(n)
    <2>1. trail' = trail
      BY <1>2, <1>3 DEF Store
    <2> QED
      BY <1>1, <1>3, <2>1, SameIs DEF SameVersions, Elsewhere
  <1>4. CASE v # Stored(n)
    <2>1. /\ trail'[n] = Append(trail[n], v)
          /\ \A m \in Names \ {n} : trail'[m] = trail[m]
      BY <1>2, <1>4 DEF Store
    <2>2. Stored(n)' = v /\ Cached(n)' = Cached(n)
      BY <2>1, AppendedIs DEF QueueInv
    <2>3. Elsewhere(n)
      BY <2>1 DEF Elsewhere, Stored, Cached
    <2> QED
      BY <1>1, <2>2, <2>3
  <1> QED
    BY <1>3, <1>4

LEMMA SaveIs ==
    ASSUME TidyUse, QueueInv, NEW n, NEW v, Runs(n, v), NEW w \in RequestRecords,
           NEW at, Save(w, at)
    PROVE  Saves(n, w, at)
  <1>1. n \in Names /\ n = run.name /\ HasRoom(n)
    BY DEF Runs, Save
  <1>2. CASE Refused
    <2>1. UNCHANGED trail /\ run' = Idle /\ Stored(n) # run.vr
      BY <1>1, <1>2 DEF Save, Requeue, Refused
    <2> QED
      BY <1>1, <2>1, SameIs, CaughtUp DEF Saves, Refuses, GivesUp, Idles
  <1>3. CASE ~ Refused
    <2>1. Store(n, w) /\ run.vr = Stored(n)
      BY <1>1, <1>3 DEF Save, Refused
    <2>2. run' = IF at = "idle" THEN Idle ELSE [run EXCEPT !.at = at, !.vr = w]
      BY <1>3 DEF Save
    <2>3. /\ Cached(n) = Stored(n) /\ Elsewhere(n)
          /\ Stored(n)' = w /\ Cached(n)' = Stored(n)
      BY <1>1, <2>1, StoreIs
    <2> QED
      BY <2>1, <2>2, <2>3 DEF Saves, Writes
  <1> QED
    BY <1>2, <1>3

LEMMA FailIs ==
    ASSUME TidyUse, QueueInv, NEW n, NEW v, Runs(n, v), Fail
    PROVE  Saves(n, Failing(v), "idle")
  <1>1. Failing(v) \in RequestRecords /\ Save(Failing(v), "idle")
    BY FailingIs DEF Fail, Failing, Runs
  <1> QED
    BY <1>1, SaveIs

LEMMA GotoIs == ASSUME NEW at, Goto(at) PROVE Goes(at)
  BY SameIs DEF Goto, Goes, requestVars

LEMMA GivesUpIs ==
    ASSUME TidyUse, QueueInv, NEW n, NEW v, Runs(n, v), GiveUpWaiting
    PROVE  GivesUp(n)
  <1>1. n \in Names /\ Len(trail[n]) = 1 /\ run' = Idle /\ UNCHANGED trail
    BY DEF GiveUpWaiting, Requeue, Runs
  <1>2. Lag = 1
    BY DEF TidyUse
  <1>3. HasRoom(n)
    BY <1>1, <1>2 DEF HasRoom
  <1> QED
    BY <1>1, <1>3, CaughtUp, SameIs DEF GivesUp, Idles

LEMMA InformerIs ==
    ASSUME TidyUse, QueueInv, NEW n \in Names, Informer(n)
    PROVE  /\ Stored(n)' = Stored(n) /\ Cached(n)' = Stored(n) /\ Elsewhere(n)
           /\ UNCHANGED <<session, clusterVars, run>>
  <1>1. trail[n] \in Seq(RequestRecords) /\ Len(trail[n]) \in 1 .. 2
    BY DEF TidyUse, QueueInv, TrailOK
  <1>2. Len(trail[n]) > 1 /\ trail' = [trail EXCEPT ![n] = Tail(@)]
    BY DEF Informer, CatchUp
  <1>3. Len(trail[n]) = 2
    <2>1. PICK k : k = Len(trail[n])
      OBVIOUS
    <2>2. k \in 1 .. 2 /\ k > 1
      BY <1>1, <1>2, <2>1
    <2> QED
      BY <2>1, <2>2
  <1>4. /\ trail'[n] = Tail(trail[n])
        /\ \A m \in Names \ {n} : trail'[m] = trail[m]
    BY <1>2 DEF QueueInv, TrailOK
  <1>5. /\ Tail(trail[n]) \in Seq(RequestRecords) /\ Len(Tail(trail[n])) = 1
        /\ Tail(trail[n])[1] = trail[n][2] /\ Head(Tail(trail[n])) = Tail(trail[n])[1]
    BY <1>1, <1>3
  <1> QED
    BY <1>3, <1>4, <1>5 DEF Stored, Cached, Elsewhere, Informer

-----------------------------------------------------------------------------
(* What each step of a run does, in these terms. *)

LEMMA RouteIs ==
    ASSUME NEW v \in RequestRecords, VersionFits(v), Route(v) # "idle"
    PROVE  /\ v.phase # "Gone"
           /\ v.deleting <=> Route(v) = "deletion"
           /\ Route(v) = "finalizer" => ~ v.finalizer
           /\ Route(v) \notin {"deletion", "finalizer"} => v.finalizer
           /\ Route(v) = "prepare" => ToPrepare(v)
           /\ Route(v) \in {"deletion", "finalizer", "pending", "validating",
                            "advance", "prepare"}
  <1>1. v.phase \in Phases
    BY DEF RequestRecords
  <1>2. CASE v.phase = "Gone" \/ v.deleting
    <2>1. v.phase # "Gone" /\ v.deleting /\ Route(v) = "deletion"
      BY <1>2 DEF Route
    <2> QED
      BY <2>1
  <1>3. CASE v.phase # "Gone" /\ ~ v.deleting /\ ~ v.finalizer
    <2>1. Route(v) = "finalizer"
      BY <1>3 DEF Route
    <2> QED
      BY <1>3, <2>1
  <1>4. CASE v.phase # "Gone" /\ ~ v.deleting /\ v.finalizer
    <2>1. Route(v) = CASE v.phase = "Pending"    -> "pending"
                       [] v.phase = "Validating" -> "validating"
                       [] v.phase = "Syncing" -> IF SlotCompleted(v)
                                                 THEN "advance" ELSE "prepare"
                       [] OTHER -> "idle"
      BY <1>4 DEF Route
    <2>2. v.phase \in {"Pending", "Validating", "Syncing"}
      BY <1>1, <1>4, <2>1 DEF Phases
    <2>3. CASE v.phase = "Syncing"
      BY <1>4, <2>1, <2>3 DEF SlotCompleted, ToPrepare
    <2> QED
      BY <1>4, <2>1, <2>2, <2>3
  <1> QED
    BY <1>2, <1>3, <1>4

LEMMA BeginIs ==
    ASSUME QueueInv, Begin
    PROVE  /\ run = Idle /\ SameVersions /\ UNCHANGED <<session, clusterVars>>
           /\ \/ run' = Idle
              \/ \E n \in Names :
                    /\ run' = [name |-> n, at |-> Route(Cached(n)), vr |-> Cached(n)]
                    /\ Route(Cached(n)) # "idle"
  <1>1. Head(queue) \in Names
    BY DEF Begin, QueueInv, QueueOK
  <1>2. SameVersions
    BY SameIs DEF Begin
  <1> QED
    BY <1>1, <1>2 DEF Begin

LEMMA FirstStepsAre ==
    ASSUME TidyUse, QueueInv, NEW n, NEW v, Runs(n, v),
           AddFinalizer \/ HandlePending \/ HandleValidating
    PROVE  /\ UNCHANGED <<session, clusterVars>>
           /\ \/ run.at = "finalizer" /\ Saves(n, Finalized(v), "idle")
              \/ run.at = "pending" /\ Saves(n, Validated(v), "idle")
              \/ run.at = "validating" /\ Saves(n, Failing(v), "idle")
              \/ /\ run.at = "validating" /\ sts[v.set].up /\ Smaller(v)
                 /\ Saves(n, Counted(v, sts[v.set].replicas), "idle")
  <1>1. /\ v = run.vr /\ v \in RequestRecords /\ v.set \in Sets
        /\ Finalized(v) \in RequestRecords /\ Validated(v) \in RequestRecords
    BY WrittenIs DEF Runs
  <1>2. CASE AddFinalizer
    <2>1. run.at = "finalizer" /\ Save(Finalized(v), "idle")
      BY <1>1, <1>2 DEF AddFinalizer, At, Finalized
    <2> QED
      BY <1>1, <1>2, <2>1, SaveIs DEF AddFinalizer
  <1>3. CASE HandlePending
    <2>1. run.at = "pending" /\ Save(Validated(v), "idle")
      BY <1>1, <1>3 DEF HandlePending, At, Validated
    <2> QED
      BY <1>1, <1>3, <2>1, SaveIs DEF HandlePending
  <1>4. CASE HandleValidating
    <2>1. run.at = "validating" /\ UNCHANGED <<session, clusterVars>>
      BY <1>4 DEF HandleValidating, At
    <2>2. CASE Fail
      BY <2>1, <2>2, FailIs
    <2>3. CASE ~ Fail
      <3>1. PICK k : k = sts[v.set].replicas
        OBVIOUS
      <3>2. k \in 0 .. MaxReplicas
        BY <1>1, <3>1, QueueAssumption DEF QueueInv, ClusterOK, StsOK
      <3>3. Counted(v, k) \in RequestRecords
        BY <1>1, <3>2, CountedIs
      <3>4. /\ sts[v.set].up /\ Smaller(v) /\ Save(Counted(v, k), "idle")
        BY <1>1, <1>4, <2>3, <3>1 DEF HandleValidating, Counted
      <3> QED
        BY <2>1, <3>1, <3>3, <3>4, SaveIs
    <2> QED
      BY <2>2, <2>3
  <1> QED
    BY <1>2, <1>3, <1>4

LEMMA AdvanceIs ==
    ASSUME TidyUse, QueueInv, NEW n, NEW v, Runs(n, v), AdvanceCompleted \/ CheckPod
    PROVE  /\ run.at \in {"advance", "check"} /\ UNCHANGED <<session, clusterVars>>
           /\ \/ Saves(n, Advanced(v), "idle")
              \/ run.at = "check" /\ Idles
  <1>1. run.at \in {"advance", "check"} /\ UNCHANGED <<session, clusterVars>>
    BY DEF AdvanceCompleted, CheckPod, At
  <1>2. v.phase = "Syncing" /\ v.cur \in v.done /\ VersionOK(v) /\ v = run.vr
    BY <1>1, SyncRun DEF AfterSwap, Runs
  <1>3. Advanced(v) \in RequestRecords
    BY <1>2, AdvancedOK DEF VersionOK
  <1>4. CASE Save(Advanced(v), "idle")
    BY <1>1, <1>3, <1>4, SaveIs
  <1>5. CASE ~ Save(Advanced(v), "idle")
    <2>1. CheckPod /\ Requeue
      BY <1>2, <1>5 DEF AdvanceCompleted, CheckPod
    <2> QED
      BY <1>1, <2>1, SameIs DEF CheckPod, At, Requeue, Idles
  <1> QED
    BY <1>4, <1>5

(* The slot and the migrator of the run. *)
LEMMA CurIs ==
    ASSUME NEW n, NEW v, Runs(n, v)
    PROVE  /\ Cur = <<v.set, v.cur>> /\ Cur \in Slots
           /\ CurMover = <<n, v.cur>> /\ CurMover \in Movers
  BY DEF Runs, Cur, CurMover, Slots, Movers, RequestRecords

LEMMA PrepareIs ==
    ASSUME TidyUse, QueueInv, NEW n, NEW v, Runs(n, v), Prepare
    PROVE  LET c == <<v.set, v.cur>> IN
           /\ run.at = "prepare"
           /\ UNCHANGED <<session, sts, want, backup, claim, pod, mig>>
           /\ \/ claim[c] = NoClaim /\ Saves(n, Failing(v), "idle") /\ UNCHANGED temp
              \/ /\ claim[c] # NoClaim
                 /\ \A d \in Slots \ {c} : temp'[d] = temp[d]
                 /\ temp[c] # NoTemp => temp'[c] = temp[c]
                 /\ temp[c] = NoTemp =>
                       /\ temp'[c].owner = n /\ temp'[c].cap = v.size
                       /\ ~ temp'[c].full /\ ~ temp'[c].dying
                 /\ Goes(IF v.stsDeleted THEN "stop" ELSE "backup")
  <1>1. PICK c \in Slots : c = <<v.set, v.cur>> /\ c = Cur
    BY CurIs
  <1>2. /\ run.at = "prepare" /\ n = run.name /\ v = run.vr
        /\ UNCHANGED <<session, sts, want, backup, claim, pod, mig>>
    BY DEF Prepare, At, Runs
  <1>3. CASE claim[c] = NoClaim
    <2>1. Fail /\ UNCHANGED temp
      BY <1>1, <1>3 DEF Prepare
    <2> QED
      BY <1>1, <1>2, <1>3, <2>1, FailIs
  <1>4. CASE claim[c] # NoClaim
    <2>1. Goto(IF v.stsDeleted THEN "stop" ELSE "backup")
      BY <1>1, <1>2, <1>4 DEF Prepare
    <2>2. Goes(IF v.stsDeleted THEN "stop" ELSE "backup")
      BY <2>1, GotoIs
    <2>3. temp' = [temp EXCEPT ![c] =
                     IF @ = NoTemp THEN [NoTemp EXCEPT !.owner = n, !.cap = v.size]
                     ELSE @]
      BY <1>1, <1>2, <1>4 DEF Prepare
    <2>4. /\ \A d \in Slots \ {c} : temp'[d] = temp[d]
          /\ temp'[c] = IF temp[c] = NoTemp
                        THEN [NoTemp EXCEPT !.owner = n, !.cap = v.size] ELSE temp[c]
      BY <1>1, <2>3 DEF QueueInv, ClusterOK, ClaimsOK
    <2>5. LET new == [NoTemp EXCEPT !.owner = n, !.cap = v.size] IN
          new.owner = n /\ new.cap = v.size /\ ~ new.full /\ ~ new.dying
      BY DEF NoTemp
    <2> QED
      BY <1>1, <1>2, <1>4, <2>2, <2>4, <2>5
  <1> QED
    BY <1>3, <1>4

LEMMA BackupIs ==
    ASSUME TidyUse, QueueInv, NEW n, NEW v, Runs(n, v), BackupSts
    PROVE  /\ run.at = "backup"
           /\ UNCHANGED <<session, sts, want, claim, temp, pod, mig>>
           /\ \A m \in Names \ {n} : backup'[m] = backup[m]
           /\ backup'[n] = IF sts[v.set].up /\ backup[n] = NoBackup
                           THEN SpecOf(v.set) ELSE backup[n]
           /\ Goes(IF sts[v.set].up THEN "delete" ELSE "stop")
  <1>1. PICK at : at = IF sts[v.set].up THEN "delete" ELSE "stop"
    OBVIOUS
  <1>2. Goes(at)
    BY <1>1, GotoIs DEF BackupSts, Runs
  <1> QED
    BY <1>1, <1>2 DEF BackupSts, At, Runs, QueueInv, ClusterOK, BackupOK

LEMMA DeleteStsIs ==
    ASSUME TidyUse, QueueInv, NEW n, NEW v, Runs(n, v), DeleteSts
    PROVE  /\ run.at = "delete"
           /\ UNCHANGED <<session, want, backup, claim, temp, pod, mig>>
           /\ \A s \in Sets \ {v.set} : sts'[s] = sts[s]
           /\ ~ sts'[v.set].up /\ sts'[v.set].by = n
           /\ sts'[v.set].tmpl = sts[v.set].tmpl
           /\ Saves(n, Deleted(v), "stop")
  <1>1. n = run.name /\ v = run.vr /\ v \in RequestRecords /\ v.set \in Sets
    BY DEF Runs
  <1>2. Save(Deleted(v), "stop")
    BY <1>1 DEF DeleteSts, Deleted
  <1>3. Saves(n, Deleted(v), "stop")
    BY <1>1, <1>2, WrittenIs, SaveIs
  <1>4. sts' = [sts EXCEPT ![v.set] = [@ EXCEPT !.up = FALSE, !.by = n]]
    BY <1>1 DEF DeleteSts
  <1>5. /\ \A s \in Sets \ {v.set} : sts'[s] = sts[s]
        /\ ~ sts'[v.set].up /\ sts'[v.set].by = n
        /\ sts'[v.set].tmpl = sts[v.set].tmpl
    BY <1>1, <1>4 DEF QueueInv, ClusterOK, StsOK
  <1> QED
    BY <1>3, <1>5 DEF DeleteSts, At

LEMMA StopIs ==
    ASSUME TidyUse, QueueInv, NEW n, NEW v, Runs(n, v), StopPod
    PROVE  /\ run.at = "stop" /\ Goes("await")
           /\ UNCHANGED <<session, sts, want, backup, claim, temp, mig>>
           /\ \A c \in Slots : pod[c] = "down" <=> pod'[c] = "down"
  BY GotoIs, CurIs DEF StopPod, At, QueueInv, ClusterOK, PodsOK

LEMMA AwaitIs ==
    ASSUME TidyUse, QueueInv, NEW n, NEW v, Runs(n, v), AwaitPod
    PROVE  LET c == <<v.set, v.cur>>  m == <<n, v.cur>> IN
           /\ run.at = "await"
           /\ UNCHANGED <<session, sts, want, backup, claim, temp, pod>>
           /\ \A k \in Movers \ {m} : mig'[k] = mig[k]
           /\ \/ GivesUp(n) /\ UNCHANGED mig
              \/ /\ pod[c] = "down" /\ Goes("copy")
                 /\ mig[m] # NoMover => mig'[m] = mig[m]
                 /\ mig[m] = NoMover =>
                       /\ mig'[m].set = v.set /\ mig'[m].st = "pending"
                       /\ ~ mig'[m].dying
  <1>1. PICK c \in Slots, m \in Movers :
            c = <<v.set, v.cur>> /\ c = Cur /\ m = <<n, v.cur>> /\ m = CurMover
    BY CurIs
  <1>2. /\ run.at = "await" /\ v = run.vr
        /\ UNCHANGED <<session, sts, want, backup, claim, temp, pod>>
    BY DEF AwaitPod, At, Runs
  <1>3. CASE pod[c] = "down"
    <2>1. /\ mig' = [mig EXCEPT ![m] =
                       IF @ = NoMover THEN [NoMover EXCEPT !.set = v.set,
                                                           !.st = "pending"] ELSE @]
          /\ Goto("copy")
      BY <1>1, <1>2, <1>3 DEF AwaitPod, PodIsGone
    <2>2. /\ \A k \in Movers \ {m} : mig'[k] = mig[k]
          /\ mig'[m] = IF mig[m] = NoMover
                       THEN [NoMover EXCEPT !.set = v.set, !.st = "pending"] ELSE mig[m]
      BY <1>1, <2>1 DEF QueueInv, ClusterOK, PodsOK
    <2>3. LET new == [NoMover EXCEPT !.set = v.set, !.st = "pending"] IN
          new.set = v.set /\ new.st = "pending" /\ ~ new.dying
      BY DEF NoMover
    <2> QED
      BY <1>1, <1>2, <1>3, <2>1, <2>2, <2>3, GotoIs
  <1>4. CASE pod[c] # "down"
    <2>1. GiveUpWaiting /\ UNCHANGED mig
      BY <1>1, <1>4 DEF AwaitPod, PodIsGone
    <2> QED
      BY <1>1, <1>2, <2>1, GivesUpIs
  <1> QED
    BY <1>3, <1>4

LEMMA CopyIs ==
    ASSUME TidyUse, QueueInv, NEW n, NEW v, Runs(n, v), AwaitCopy
    PROVE  LET m == <<n, v.cur>> IN
           /\ run.at = "copy"
           /\ UNCHANGED <<session, sts, want, backup, claim, temp, pod>>
           /\ \/ GivesUp(n) /\ UNCHANGED mig
              \/ mig[m].st = "bad" /\ Saves(n, Failing(v), "idle") /\ UNCHANGED mig
              \/ /\ mig[m].st \in {"absent", "ok"} /\ Goes("swap")
                 /\ \A k \in Movers \ {m} : mig'[k] = mig[k]
                 /\ mig'[m].set = mig[m].set /\ mig'[m].st = mig[m].st
                 /\ mig[m] # NoMover => mig'[m].dying
                 /\ mig[m] = NoMover => mig'[m] = mig[m]
  <1>1. PICK m \in Movers : m = <<n, v.cur>> /\ m = CurMover
    BY CurIs
  <1>2. run.at = "copy" /\ UNCHANGED <<session, sts, want, backup, claim, temp, pod>>
    BY DEF AwaitCopy, At
  <1>3. mig \in [Movers -> [set : Sets \cup {NoSet}, dying : BOOLEAN,
                  st : {"absent", "pending", "running", "ok", "bad"}]]
    BY DEF QueueInv, ClusterOK, PodsOK
  <1>4. PICK dying \in BOOLEAN :
           /\ dying = (mig[m].dying \/ (mig[m] # NoMover /\ ~ CopyUnderWay /\ ~ CopyFailed))
           /\ mig' = [mig EXCEPT ![m].dying = dying]
    BY <1>1, <1>3 DEF AwaitCopy
  <1>5. CASE CopyUnderWay \/ CopyFailed
    <2>1. UNCHANGED mig
      <3>1. mig[m].dying \in BOOLEAN
        BY <1>3
      <3>2. dying = mig[m].dying
        BY <1>4, <1>5, <3>1
      <3>3. [mig[m] EXCEPT !.dying = mig[m].dying] = mig[m]
        BY <1>3
      <3>4. mig' = [mig EXCEPT ![m] = mig[m]]
        BY <1>4, <3>2, <3>3
      <3> QED
        BY <1>3, <3>4
    <2>2. GiveUpWaiting \/ (CopyFailed /\ Fail)
      BY <1>5 DEF AwaitCopy
    <2>3. CopyFailed => mig[m].st = "bad"
      BY <1>1 DEF CopyFailed
    <2> QED
      BY <1>1, <1>2, <2>1, <2>2, <2>3, GivesUpIs, FailIs
  <1>6. CASE ~ CopyUnderWay /\ ~ CopyFailed
    <2>1. Goto("swap")
      BY <1>6 DEF AwaitCopy
    <2>2. mig[m].st \in {"absent", "ok"}
      BY <1>1, <1>3, <1>6 DEF CopyUnderWay, CopyFailed
    <2>3. /\ \A k \in Movers \ {m} : mig'[k] = mig[k]
          /\ mig'[m].set = mig[m].set /\ mig'[m].st = mig[m].st
          /\ mig[m] # NoMover => mig'[m].dying
          /\ mig[m] = NoMover => mig'[m] = mig[m]
      BY <1>3, <1>4, <1>6 DEF NoMover
    <2> QED
      BY <1>1, <1>2, <2>1, <2>2, <2>3, GotoIs
  <1> QED
    BY <1>5, <1>6

LEMMA SwapIs ==
    ASSUME TidyUse, QueueInv, NEW n, NEW v, Runs(n, v), Swap
    PROVE  LET c == <<v.set, v.cur>> IN
           /\ run.at = "swap" /\ pod[c] = "down"
           /\ UNCHANGED <<session, sts, want, backup, pod, mig>>
           /\ temp[c] # NoTemp =>
                 /\ \A d \in Slots \ {c} : claim'[d] = claim[d] /\ temp'[d] = temp[d]
                 /\ claim'[c] = [size |-> v.size, cap |-> temp[c].cap,
                                 full |-> temp[c].full]
                 /\ temp'[c] = NoTemp /\ Saves(n, Swapped(v), "recreate")
  <1>1. PICK c \in Slots : c = <<v.set, v.cur>> /\ c = Cur
    BY CurIs
  <1>2. /\ run.at = "swap" /\ pod[c] = "down" /\ v = run.vr /\ v \in RequestRecords
        /\ UNCHANGED <<session, sts, want, backup, pod, mig>>
    BY <1>1 DEF Swap, At, Runs
  <1>3. ASSUME temp[c] # NoTemp
        PROVE  /\ \A d \in Slots \ {c} : claim'[d] = claim[d] /\ temp'[d] = temp[d]
               /\ claim'[c] = [size |-> v.size, cap |-> temp[c].cap,
                               full |-> temp[c].full]
               /\ temp'[c] = NoTemp /\ Saves(n, Swapped(v), "recreate")
    <2>1. /\ claim' = [claim EXCEPT ![c] = [size |-> v.size, cap |-> temp[c].cap,
                                            full |-> temp[c].full]]
          /\ temp' = [temp EXCEPT ![c] = NoTemp]
      BY <1>1, <1>2, <1>3 DEF Swap
    <2>2. Save(Swapped(v), "recreate")
      BY <1>1, <1>2, <1>3 DEF Swap, Swapped
    <2>3. Swapped(v) \in RequestRecords
      BY <1>2, WrittenIs
    <2>4. Saves(n, Swapped(v), "recreate")
      BY <2>2, <2>3, SaveIs
    <2> QED
      BY <1>1, <2>1, <2>4 DEF QueueInv, ClusterOK, ClaimsOK
  <1> QED
    BY <1>1, <1>2, <1>3

LEMMA RecreateIs ==
    ASSUME TidyUse, QueueInv, NEW n, NEW v, Runs(n, v), Recreate
    PROVE  LET b == backup[n] IN
           /\ run.at = "recreate"
           /\ UNCHANGED <<session, want, backup, claim, temp, pod, mig>>
           /\ b # NoBackup =>
                 /\ b.set \in Sets
                 /\ \A s \in Sets \ {b.set} : sts'[s] = sts[s]
                 /\ sts'[b.set] = IF sts[b.set].up THEN sts[b.set]
                                  ELSE [up |-> TRUE, rev |-> b.rev, replicas |-> b.replicas,
                                        tmpl |-> v.size, by |-> NoName]
                 /\ Saves(n, Returned(v), "check")
  <1>1. PICK b : b = backup[n]
    OBVIOUS
  <1>2. /\ run.at = "recreate" /\ n \in Names /\ n = run.name /\ v = run.vr
        /\ v \in RequestRecords
        /\ UNCHANGED <<session, want, backup, claim, temp, pod, mig>>
    BY DEF Recreate, At, Runs
  <1>3. ASSUME b # NoBackup
        PROVE  /\ b.set \in Sets
               /\ \A s \in Sets \ {b.set} : sts'[s] = sts[s]
               /\ sts'[b.set] = IF sts[b.set].up THEN sts[b.set]
                                ELSE [up |-> TRUE, rev |-> b.rev, replicas |-> b.replicas,
                                      tmpl |-> v.size, by |-> NoName]
               /\ Saves(n, Returned(v), "check")
    <2>1. b.set \in Sets
      BY <1>1, <1>2, <1>3 DEF QueueInv, ClusterOK, BackupOK
    <2>2. sts' = [sts EXCEPT ![b.set] =
                    IF @.up THEN @
                    ELSE [up |-> TRUE, rev |-> b.rev, replicas |-> b.replicas,
                          tmpl |-> v.size, by |-> NoName]]
      BY <1>1, <1>2, <1>3 DEF Recreate, NewTemplate
    <2>3. Save(Returned(v), "check")
      BY <1>1, <1>2, <1>3 DEF Recreate, Returned
    <2>4. Saves(n, Returned(v), "check")
      BY <1>2, <2>3, WrittenIs, SaveIs
    <2> QED
      BY <2>1, <2>2, <2>4 DEF QueueInv, ClusterOK, StsOK
  <1> QED
    BY <1>1, <1>2, <1>3

LEMMA DeletionIs ==
    ASSUME TidyUse, QueueInv, NEW n, NEW v, Runs(n, v), HandleDeletion
    PROVE  /\ run.at = "deletion"
           /\ UNCHANGED <<session, sts, want, backup, claim, pod>>
           /\ \A c \in Slots :
                 /\ temp[c].owner # n => temp'[c] = temp[c]
                 /\ temp[c].owner = n => /\ temp'[c].dying /\ temp'[c].owner = n
                                         /\ temp'[c].cap = temp[c].cap
           /\ \A m \in Movers :
                 /\ m[1] # n \/ mig[m] = NoMover => mig'[m] = mig[m]
                 /\ m[1] = n /\ mig[m] # NoMover =>
                       /\ mig'[m].dying /\ mig'[m].st = mig[m].st
                       /\ mig'[m].set = mig[m].set
           /\ Saves(n, GoneAfter(v.incarnation), "idle")
  <1>1. n = run.name /\ v = run.vr /\ v \in RequestRecords
    BY DEF Runs
  <1>2. GoneAfter(v.incarnation) \in RequestRecords
    BY <1>1, GoneOK DEF VersionOK, RequestRecords
  <1>3. Saves(n, GoneAfter(v.incarnation), "idle")
    BY <1>1, <1>2, SaveIs DEF HandleDeletion
  <1>4. /\ temp \in [Slots -> [owner : Names \cup {NoName}, cap : AnySize,
                               full : BOOLEAN, dying : BOOLEAN]]
        /\ mig \in [Movers -> [set : Sets \cup {NoSet}, dying : BOOLEAN,
                  st : {"absent", "pending", "running", "ok", "bad"}]]
    BY DEF QueueInv, ClusterOK, ClaimsOK, PodsOK
  <1>5. \A c \in Slots :
           /\ temp[c].owner # n => temp'[c] = temp[c]
           /\ temp[c].owner = n => /\ temp'[c].dying /\ temp'[c].owner = n
                                   /\ temp'[c].cap = temp[c].cap
    BY <1>1, <1>4 DEF HandleDeletion, Labelled
  <1>6. \A m \in Movers :
           /\ m[1] # n \/ mig[m] = NoMover => mig'[m] = mig[m]
           /\ m[1] = n /\ mig[m] # NoMover =>
                 /\ mig'[m].dying /\ mig'[m].st = mig[m].st
                 /\ mig'[m].set = mig[m].set
    BY <1>1, <1>4 DEF HandleDeletion
  <1> QED
    BY <1>3, <1>5, <1>6 DEF HandleDeletion, At

-----------------------------------------------------------------------------
(* The same for a run as a whole, for the commands and for the cluster. *)

(* A run that is told to swap finds its temporary claim, and one that is told to
   recreate its backup: neither fails. *)
LEMMA NothingMissing ==
    ASSUME CampaignInv, NEW n, NEW v, Runs(n, v)
    PROVE  /\ run.at = "swap" => temp[<<v.set, v.cur>>] # NoTemp
           /\ run.at = "recreate" => backup[n] # NoBackup
  <1>1. n = run.name /\ v = run.vr /\ Cur = <<v.set, v.cur>>
    BY DEF Runs, Cur
  <1>2. ASSUME run.at = "swap" PROVE temp[<<v.set, v.cur>>] # NoTemp
    BY <1>1, <1>2 DEF CampaignInv, TempInv, SwapRunFits, Holds
  <1>3. ASSUME run.at = "recreate" PROVE backup[n] # NoBackup
    <2>1. v.stsDeleted
      BY <1>1, <1>3 DEF CampaignInv, HoldsInv, Holding
    <2> QED
      BY <1>1, <2>1 DEF CampaignInv, BackupInv
  <1> QED
    BY <1>2, <1>3

(* The writes of a run, and the step it goes on with. *)
WrittenBy(v, w, at) ==
    \/ run.at = "finalizer" /\ w = Finalized(v) /\ at = "idle"
    \/ run.at = "pending" /\ w = Validated(v) /\ at = "idle"
    \/ /\ run.at = "validating" /\ w = Counted(v, sts[v.set].replicas) /\ at = "idle"
       /\ sts[v.set].up /\ Smaller(v)
    \/ run.at \in {"validating", "prepare", "copy"} /\ w = Failing(v) /\ at = "idle"
    \/ run.at \in {"advance", "check"} /\ w = Advanced(v) /\ at = "idle"
    \/ run.at = "delete" /\ w = Deleted(v) /\ at = "stop"
    \/ run.at = "swap" /\ w = Swapped(v) /\ at = "recreate"
    \/ run.at = "recreate" /\ w = Returned(v) /\ at = "check"
    \/ run.at = "deletion" /\ w = GoneAfter(v.incarnation) /\ at = "idle"

(* The steps of a run that write nothing. *)
GoesOn(v, at) ==
    \/ run.at = "prepare" /\ v.stsDeleted /\ at = "stop"
    \/ run.at = "prepare" /\ ~ v.stsDeleted /\ at = "backup"
    \/ run.at = "backup" /\ sts[v.set].up /\ at = "delete"
    \/ run.at = "backup" /\ ~ sts[v.set].up /\ at = "stop"
    \/ run.at = "stop" /\ at = "await"
    \/ run.at = "await" /\ at = "copy"
    \/ run.at = "copy" /\ at = "swap"

(* A run ends without a write when it is refused one, when it gives up a wait, or
   when the pod is not there yet. *)
Rests(n) ==
    /\ Idles
    /\ run.at # "check" => GivesUp(n)
    /\ run.at \notin {"check", "await", "copy"} => Refuses(n)

LEMMA BusyIs == ASSUME Reconcile, ~ Begin PROVE run.at # "idle"
  BY DEF Reconcile, HandleSyncing, AddFinalizer, HandlePending, HandleValidating,
         AdvanceCompleted, Prepare, BackupSts, DeleteSts, StopPod, AwaitPod, AwaitCopy,
         Swap, Recreate, CheckPod, HandleDeletion, At

(* The step a run is at tells the action. *)
LEMMA ActionIs ==
    ASSUME Reconcile, run.at # "idle"
    PROVE  /\ run.at = "finalizer" => AddFinalizer
           /\ run.at = "pending" => HandlePending
           /\ run.at = "validating" => HandleValidating
           /\ run.at = "advance" => AdvanceCompleted
           /\ run.at = "prepare" => Prepare
           /\ run.at = "backup" => BackupSts
           /\ run.at = "delete" => DeleteSts
           /\ run.at = "stop" => StopPod
           /\ run.at = "await" => AwaitPod
           /\ run.at = "copy" => AwaitCopy
           /\ run.at = "swap" => Swap
           /\ run.at = "recreate" => Recreate
           /\ run.at = "check" => CheckPod
           /\ run.at = "deletion" => HandleDeletion
           /\ ~ Begin
  BY DEF Reconcile, HandleSyncing, Begin, Idle, AddFinalizer, HandlePending,
         HandleValidating, AdvanceCompleted, Prepare, BackupSts, DeleteSts, StopPod,
         AwaitPod, AwaitCopy, Swap, Recreate, CheckPod, HandleDeletion, At

LEMMA RunShape ==
    ASSUME TidyUse, CampaignInv, NEW n, NEW v, Runs(n, v), Reconcile
    PROVE  \/ Rests(n)
           \/ \E at : GoesOn(v, at) /\ Goes(at)
           \/ \E w, at : WrittenBy(v, w, at) /\ Writes(n, w, at)
  <1>0. QueueInv /\ run.at # "idle"
    BY DEF CampaignInv, Runs
  <1>1. ASSUME NEW w, NEW at, WrittenBy(v, w, at), Saves(n, w, at)
        PROVE  Rests(n) \/ \E x, y : WrittenBy(v, x, y) /\ Writes(n, x, y)
    BY <1>1 DEF Saves, Refuses, GivesUp, Rests
  <1>2. CASE AddFinalizer \/ HandlePending \/ HandleValidating
    BY <1>0, <1>1, <1>2, FirstStepsAre DEF WrittenBy
  <1>3. CASE AdvanceCompleted \/ CheckPod
    BY <1>0, <1>1, <1>3, AdvanceIs DEF WrittenBy, Rests
  <1>4. CASE Prepare
    BY <1>0, <1>1, <1>4, PrepareIs DEF WrittenBy, GoesOn
  <1>5. CASE BackupSts
    BY <1>0, <1>5, BackupIs DEF GoesOn
  <1>6. CASE DeleteSts
    BY <1>0, <1>1, <1>6, DeleteStsIs DEF WrittenBy
  <1>7. CASE StopPod
    BY <1>0, <1>7, StopIs DEF GoesOn
  <1>8. CASE AwaitPod
    BY <1>0, <1>8, AwaitIs DEF GoesOn, GivesUp, Rests
  <1>9. CASE AwaitCopy
    BY <1>0, <1>1, <1>9, CopyIs DEF GoesOn, GivesUp, Rests, WrittenBy
  <1>10. CASE Swap
    <2>1. run.at = "swap" /\ temp[<<v.set, v.cur>>] # NoTemp
      BY <1>10, NothingMissing DEF Swap, At
    <2>2. Saves(n, Swapped(v), "recreate")
      BY <1>0, <1>10, <2>1, SwapIs
    <2> QED
      BY <1>1, <2>1, <2>2 DEF WrittenBy
  <1>11. CASE Recreate
    BY <1>0, <1>1, <1>11, RecreateIs, NothingMissing DEF WrittenBy
  <1>12. CASE HandleDeletion
    BY <1>0, <1>1, <1>12, DeletionIs DEF WrittenBy
  <1> QED
    BY <1>0, <1>2, <1>3, <1>4, <1>5, <1>6, <1>7, <1>8, <1>9, <1>10, <1>11, <1>12, ActionIs
    DEF Reconcile, HandleSyncing

(* What a step of a run leaves alone. *)
LEMMA FrameIs ==
    ASSUME TidyUse, QueueInv, NEW n, NEW v, Runs(n, v), Reconcile
    PROVE  /\ UNCHANGED <<session, want>>
           /\ run.at \notin {"delete", "recreate"} => UNCHANGED sts
           /\ run.at # "backup" => UNCHANGED backup
           /\ run.at # "swap" => UNCHANGED claim
           /\ run.at \notin {"prepare", "swap", "deletion"} => UNCHANGED temp
           /\ run.at \notin {"await", "copy", "deletion"} => UNCHANGED mig
           /\ \A c \in Slots : pod[c] = "down" <=> pod'[c] = "down"
  <1>0. run.at # "idle" /\ ~ Begin
    BY ActionIs DEF Runs
  <1>1. CASE UNCHANGED <<session, clusterVars>>
    BY <1>1 DEF clusterVars
  <1>2. CASE StopPod
    BY <1>2, StopIs
  <1>3. CASE ~ StopPod
    BY <1>0, <1>1, <1>3
    DEF Reconcile, HandleSyncing, AddFinalizer, HandlePending, HandleValidating,
        AdvanceCompleted, Prepare, BackupSts, DeleteSts, AwaitPod, AwaitCopy, Swap,
        Recreate, CheckPod, HandleDeletion, At
  <1> QED
    BY <1>2, <1>3

(* volmig create, its first call and its second. *)
LEMMA CheckNameIs ==
    ASSUME QueueInv, NEW t \in Terminals, NEW n \in Names,
           NEW wish \in Wishes[n], CheckName(t, n, wish[1], wish[2])
    PROVE  /\ SameVersions /\ \A u \in Terminals \ {t} : session'[u] = session[u]
           /\ session'[t].cmd = "create" =>
                 /\ session'[t].name = n /\ session'[t].set = wish[1]
                 /\ session'[t].size = wish[2]
                 /\ ~ Exists(n) /\ Unused(n) /\ Free(wish[1])
                 /\ \A u \in Terminals : ~ (Running(u, "create") /\ session[u].set = wish[1])
  <1>1. SameVersions
    BY SameIs DEF CheckName, requestVars
  <1>2. session' = [session EXCEPT ![t] = IF Exists(n) THEN Prompt
                      ELSE [Command("create", n) EXCEPT !.set = wish[1], !.size = wish[2]]]
    BY DEF CheckName, Becomes
  <1>3. /\ \A u \in Terminals \ {t} : session'[u] = session[u]
        /\ session'[t] = IF Exists(n) THEN Prompt
                         ELSE [Command("create", n) EXCEPT !.set = wish[1],
                                                           !.size = wish[2]]
    BY <1>2 DEF QueueInv, SessionOK
  <1>4. Prompt.cmd # "create"
    BY DEF Prompt
  <1>5. LET new == [Command("create", n) EXCEPT !.set = wish[1], !.size = wish[2]] IN
          new.name = n /\ new.set = wish[1] /\ new.size = wish[2]
    BY DEF Command, Prompt
  <1>6. /\ Unused(n) /\ Free(wish[1])
        /\ \A u \in Terminals : ~ (Running(u, "create") /\ session[u].set = wish[1])
    BY DEF CheckName
  <1> QED
    BY <1>1, <1>3, <1>4, <1>5, <1>6

LEMMA CreateIs ==
    ASSUME TidyUse, QueueInv, NEW t \in Terminals, Create(t)
    PROVE  LET n == session[t].name  s == session[t] IN
           /\ n \in Names /\ s.set \in Sets /\ s.size \in Sizes \cup {0}
           /\ Running(t, "create")
           /\ \A u \in Terminals \ {t} : session'[u] = session[u]
           /\ session'[t].cmd # "create"
           /\ \/ SameVersions
              \/ \E m \in Names :
                    /\ m = n /\ ~ Exists(m) /\ Cached(m) = Stored(m) /\ Elsewhere(m)
                    /\ Stored(m)' = NewRequest(Stored(m).incarnation + 1, s.set, s.size)
                    /\ Cached(m)' = Stored(m)
  <1>1. PICK n : n = session[t].name
    OBVIOUS
  <1>2. PICK s : s = session[t]
    OBVIOUS
  <1>3. Running(t, "create") /\ HasRoom(n)
    BY <1>1 DEF Create
  <1>4. n \in Names /\ s.set \in Sets /\ s.size \in Sizes \cup {0}
    BY <1>1, <1>2, <1>3 DEF Running, QueueInv, SessionOK
  <1>5. PICK next : next.cmd # "create" /\ Becomes(t, next)
    BY DEF Create, Command, Prompt
  <1>6. \A u \in Terminals \ {t} : session'[u] = session[u]
    BY <1>5 DEF Becomes, QueueInv, SessionOK
  <1>7. session'[t].cmd # "create"
    BY <1>5 DEF Becomes, QueueInv, SessionOK
  <1>8. CASE Exists(n)
    <2>1. UNCHANGED trail
      BY <1>1, <1>8 DEF Create
    <2> QED
      BY <1>1, <1>2, <1>3, <1>4, <1>6, <1>7, <2>1, SameIs
  <1>9. CASE ~ Exists(n)
    <2>1. PICK w : w = NewRequest(Stored(n).incarnation + 1, s.set, s.size)
      OBVIOUS
    <2>2. Store(n, w)
      BY <1>1, <1>2, <1>9, <2>1 DEF Create
    <2>3. w \in RequestRecords
      <3>1. Stored(n).incarnation \in Nat
        BY <1>4, StoredOK DEF QueueInv, VersionOK, RequestRecords
      <3>2. PICK k \in Nat : k = Stored(n).incarnation + 1
        BY <3>1
      <3>3. 0 \in Ordinals /\ 0 \in 0 .. MaxReplicas
        BY QueueAssumption DEF Ordinals
      <3> QED
        BY <1>4, <2>1, <3>2, <3>3 DEF NewRequest, GoneAfter, RequestRecords, Phases
    <2>4. /\ Cached(n) = Stored(n) /\ Elsewhere(n)
          /\ Stored(n)' = w /\ Cached(n)' = Stored(n)
      BY <1>3, <1>4, <2>2, <2>3, StoreIs
    <2> QED
      BY <1>1, <1>2, <1>3, <1>4, <1>6, <1>7, <1>9, <2>1, <2>4
  <1> QED
    BY <1>8, <1>9

LEMMA DeleteIs ==
    ASSUME TidyUse, QueueInv, NEW t \in Terminals, Delete(t)
    PROVE  /\ \A u \in Terminals \ {t} : session'[u] = session[u]
           /\ session'[t].cmd # "create"
           /\ \/ SameVersions
              \/ \E m \in Names :
                    /\ Exists(m) /\ Cached(m) = Stored(m) /\ Elsewhere(m)
                    /\ Cached(m)' = Stored(m)
                    /\ Stored(m)' = IF Stored(m).finalizer THEN Marked(Stored(m))
                                    ELSE GoneAfter(Stored(m).incarnation)
  <1>1. PICK n : n = session[t].name
    OBVIOUS
  <1>2. HasRoom(n) /\ Running(t, "delete") /\ Becomes(t, Prompt)
    BY <1>1 DEF Delete
  <1>3. n \in Names
    BY <1>1, <1>2 DEF Running, QueueInv, SessionOK
  <1>4. /\ \A u \in Terminals \ {t} : session'[u] = session[u]
        /\ session'[t].cmd # "create"
    BY <1>2 DEF Becomes, QueueInv, SessionOK, Prompt
  <1>5. CASE ~ Exists(n)
    <2>1. UNCHANGED trail
      BY <1>1, <1>5 DEF Delete
    <2> QED
      BY <1>4, <2>1, SameIs
  <1>6. CASE Exists(n)
    <2>1. PICK w : w = IF Stored(n).finalizer THEN Marked(Stored(n))
                       ELSE GoneAfter(Stored(n).incarnation)
      OBVIOUS
    <2>2. Store(n, w)
      BY <1>1, <1>6, <2>1 DEF Delete, Marked
    <2>3. Stored(n) \in RequestRecords /\ Stored(n).incarnation \in Nat
      BY <1>3, StoredOK DEF QueueInv, VersionOK, RequestRecords
    <2>4. w \in RequestRecords
      BY <2>1, <2>3, MarkedIs, GoneOK DEF VersionOK
    <2>5. /\ Cached(n) = Stored(n) /\ Elsewhere(n)
          /\ Stored(n)' = w /\ Cached(n)' = Stored(n)
      BY <1>2, <1>3, <2>2, <2>4, StoreIs
    <2> QED
      BY <1>3, <1>4, <1>6, <2>1, <2>5
  <1> QED
    BY <1>5, <1>6

(* The commands that neither write nor are about to create. *)
LEMMA OtherCommands ==
    ASSUME QueueInv, NEW t \in Terminals,
           Poll(t) \/ \E n \in Names : LookUp(t, n) \/ Watch(t, n) \/ Follow(t, n)
    PROVE  /\ SameVersions /\ \A u \in Terminals \ {t} : session'[u] = session[u]
           /\ session'[t].cmd # "create"
  <1>1. UNCHANGED trail
    BY DEF LookUp, Watch, Follow, Poll, requestVars
  <1>2. PICK next : next.cmd # "create" /\ Becomes(t, next)
    BY DEF LookUp, Watch, Follow, Poll, Command, Prompt
  <1> QED
    BY <1>1, <1>2, SameIs DEF Becomes, QueueInv, SessionOK

(* The cluster and the users of the StatefulSets leave the rest alone. *)
LEMMA RestIs == ASSUME Rest PROVE SameVersions /\ UNCHANGED <<session, run>>
  BY SameIs DEF Rest, requestVars

-----------------------------------------------------------------------------
(* Every step is one of these. *)

Creates(t, n) ==
    /\ Running(t, "create") /\ n = session[t].name /\ session'[t].cmd # "create"
    /\ Stored(n) = GoneAfter(0) /\ Cached(n) = Stored(n) /\ Elsewhere(n)
    /\ Stored(n)' = NewRequest(1, session[t].set, session[t].size)
    /\ Cached(n)' = Stored(n)

Deletes(n) ==
    /\ Exists(n) /\ Cached(n) = Stored(n) /\ Elsewhere(n)
    /\ Stored(n)' = IF Stored(n).finalizer THEN Marked(Stored(n)) ELSE GoneAfter(1)
    /\ Cached(n)' = Stored(n)

Calm == UNCHANGED <<clusterVars, run>>

LEMMA GoneIs ==
    ASSUME NEW k
    PROVE  LET v == GoneAfter(k) IN
           /\ v.phase = "Gone" /\ v.incarnation = k /\ v.set = NoSet /\ v.size = 0
           /\ ~ v.stsDeleted /\ ~ v.deleting /\ ~ v.finalizer
           /\ v.cur = 0 /\ v.total = 0 /\ v.done = {}
  BY DEF GoneAfter

LEMMA CommandIs ==
    ASSUME TidyUse, CampaignInv, NEW t \in Terminals, VolmigStep(t)
    PROVE  \/ SameVersions
           \/ \E n \in Names : Creates(t, n) \/ Deletes(n)
  <1>0. QueueInv
    BY DEF CampaignInv
  <1>1. CASE Create(t)
    <2>1. ASSUME NEW n \in Names, ~ Exists(n), Cached(n) = Stored(n), Elsewhere(n),
                 n = session[t].name, Running(t, "create"), Cached(n)' = Stored(n),
                 session'[t].cmd # "create",
                 Stored(n)' = NewRequest(Stored(n).incarnation + 1, session[t].set,
                                         session[t].size)
          PROVE  Creates(t, n)
      <3>1. Stored(n) = GoneAfter(0)
        BY <2>1 DEF CampaignInv, CreateInv, CreateFits
      <3>2. Stored(n)' = NewRequest(1, session[t].set, session[t].size)
        BY <2>1, <3>1, GoneIs
      <3> QED
        BY <2>1, <3>1, <3>2 DEF Creates
    <2> QED
      BY <1>0, <1>1, <2>1, CreateIs
  <1>2. CASE Delete(t)
    <2>1. ASSUME NEW n \in Names, Exists(n) PROVE Stored(n).incarnation = 1
      BY <2>1 DEF CampaignInv, VersionsInv, VersionFits, Exists
    <2> QED
      BY <1>0, <1>2, <2>1, DeleteIs DEF Deletes
  <1>3. ASSUME NEW n \in Names, NEW wish \in Wishes[n], CheckName(t, n, wish[1], wish[2])
        PROVE  SameVersions
    BY <1>0, <1>3, CheckNameIs
  <1>4. CASE Poll(t) \/ \E n \in Names : LookUp(t, n) \/ Watch(t, n) \/ Follow(t, n)
    BY <1>0, <1>4, OtherCommands
  <1> QED
    BY <1>1, <1>2, <1>3, <1>4 DEF VolmigStep

LEMMA StepIs ==
    ASSUME TidyUse, CampaignInv, [Next]_vars
    PROVE  \/ Begin
           \/ Reconcile /\ \E n, v : Runs(n, v)
           \/ \E n \in Names : Informer(n)
           \/ ClusterStep \/ \E s \in Sets : Edit(s) \/ Restore(s)
           \/ Calm /\ SameVersions
           \/ Calm /\ \E t \in Terminals, n \in Names : Creates(t, n)
           \/ Calm /\ \E n \in Names : Deletes(n)
  <1>0. QueueInv
    BY DEF CampaignInv
  <1>1. CASE Reconcile /\ ~ Begin
    <2>1. run.at # "idle"
      BY <1>1, BusyIs
    <2> QED
      BY <1>0, <1>1, <2>1, RunsIs
  <1>2. ASSUME NEW t \in Terminals, VolmigStep(t), UNCHANGED <<clusterVars, run>>
        PROVE  Calm /\ \/ SameVersions
                       \/ \E n \in Names : Creates(t, n) \/ Deletes(n)
    BY <1>2, CommandIs DEF Calm
  <1>3. CASE UNCHANGED vars
    BY <1>3, SameIs DEF vars, requestVars, Calm
  <1> QED
    BY <1>1, <1>2, <1>3 DEF Next, UserStep

-----------------------------------------------------------------------------
(* The versions. *)

LEMMA NewIs ==
    ASSUME NEW k, NEW s, NEW size
    PROVE  LET v == NewRequest(k, s, size) IN
           /\ v.phase = "Pending" /\ v.incarnation = k /\ v.set = s /\ v.size = size
           /\ ~ v.stsDeleted /\ ~ v.deleting
  BY DEF NewRequest, GoneAfter

LEMMA GoneFits == VersionFits(GoneAfter(1)) /\ VersionFits(GoneAfter(0))
  BY GoneIs DEF VersionFits

LEMMA NewFits ==
    ASSUME NEW s, NEW size PROVE VersionFits(NewRequest(1, s, size))
  BY NewIs DEF VersionFits

LEMMA MarkedFits ==
    ASSUME NEW v \in RequestRecords, VersionFits(v), v.finalizer, v.phase # "Gone"
    PROVE  VersionFits(Marked(v))
  BY MarkedIs DEF VersionFits, Alike

(* What the step of a run tells of its copy. *)
LEMMA RunVersion ==
    ASSUME CampaignInv, NEW n, NEW v, Runs(n, v)
    PROVE  /\ VersionFits(v) /\ v.incarnation = 1
           /\ v.deleting <=> run.at = "deletion"
           /\ run.at = "finalizer" => ~ v.finalizer /\ v.phase = "Pending"
           /\ run.at \notin {"deletion", "finalizer"} => v.finalizer
           /\ run.at = "pending" => v.phase = "Pending"
           /\ run.at = "validating" => v.phase = "Validating"
           /\ run.at \in BeforeSwap => ToPrepare(v) /\ v.phase = "Syncing" /\ v.cur \notin v.done
           /\ run.at \in AfterSwap => v.phase = "Syncing" /\ v.cur \in v.done
           /\ run.at \in BeforeSwap \cup AfterSwap
                           \cup {"finalizer", "deletion", "pending", "validating"}
  <1>1. v = run.vr /\ run.at # "idle" /\ v.phase # "Gone" /\ v.phase \in Phases
    BY DEF Runs, RequestRecords
  <1>2. /\ VersionFits(v)
        /\ v.deleting <=> run.at = "deletion"
        /\ run.at = "finalizer" => ~ v.finalizer
        /\ run.at \notin {"deletion", "finalizer"} => v.finalizer
        /\ run.at \in BeforeSwap => ToPrepare(v)
    BY <1>1 DEF CampaignInv, VersionsInv, RunFits
  <1>3. /\ run.at = "pending" => v.phase = "Pending"
        /\ run.at = "validating" => v.phase = "Validating"
        /\ run.at \in BeforeSwap \cup AfterSwap => v.phase = "Syncing"
        /\ run.at \in AfterSwap => v.cur \in v.done
        /\ run.at \in Steps
    BY <1>1 DEF CampaignInv, QueueInv, RunOK, Idle
  <1>4. run.at \in BeforeSwap \cup AfterSwap
                     \cup {"finalizer", "deletion", "pending", "validating"}
    BY <1>1, <1>3 DEF Steps, BeforeSwap, AfterSwap
  <1>5. v.incarnation = 1 /\ (~ v.finalizer => v.phase = "Pending")
    BY <1>1, <1>2 DEF VersionFits
  <1> QED
    BY <1>2, <1>3, <1>4, <1>5 DEF ToPrepare

(* What a run writes over its copy: the progress it makes, unless that is gone. *)
LEMMA WrittenIsProgress ==
    ASSUME CampaignInv, NEW n, NEW v, Runs(n, v), NEW w, NEW at, WrittenBy(v, w, at)
    PROVE  /\ w \in RequestRecords /\ VersionFits(w)
           /\ \/ /\ run.at # "deletion" /\ v.phase \in {"Pending", "Validating", "Syncing"}
                 /\ w.phase # "Gone" /\ w.set = v.set /\ w.size = v.size
                 /\ w.incarnation = 1 /\ ~ w.deleting
                 /\ run.at # "finalizer" => w.finalizer
              \/ run.at = "deletion" /\ w = GoneAfter(1) /\ at = "idle"
  <1>0. v \in RequestRecords /\ VersionOK(v) /\ v.set \in Sets
    BY DEF Runs
  <1>1. CASE run.at = "finalizer"
    <2>1. w = Finalized(v) /\ v.phase = "Pending" /\ VersionFits(v) /\ ~ v.deleting
      BY <1>1, RunVersion DEF WrittenBy
    <2> QED
      BY <1>0, <1>1, <2>1, WrittenIs DEF VersionFits
  <1>2. CASE run.at = "pending"
    <2>1. /\ w = Validated(v) /\ v.phase = "Pending" /\ VersionFits(v) /\ ~ v.deleting
          /\ v.finalizer
      BY <1>2, RunVersion DEF WrittenBy
    <2> QED
      BY <1>0, <1>2, <2>1, WrittenIs DEF VersionFits, Alike
  <1>3. CASE w = Failing(v) /\ run.at \in {"validating", "prepare", "copy"}
    <2>1. /\ v.phase \in {"Validating", "Syncing"} /\ VersionFits(v) /\ ~ v.deleting
          /\ v.finalizer
      BY <1>3, RunVersion DEF BeforeSwap
    <2> QED
      BY <1>0, <1>3, <2>1, FailingIs DEF VersionFits, Alike
  <1>4. CASE run.at = "validating" /\ w # Failing(v)
    <2>1. PICK k : k = sts[v.set].replicas
      OBVIOUS
    <2>2. k \in 0 .. MaxReplicas
      BY <1>0, <2>1, QueueAssumption DEF CampaignInv, QueueInv, ClusterOK, StsOK
    <2>3. w = Counted(v, k)
      BY <1>4, <2>1 DEF WrittenBy
    <2>4. v.phase = "Validating" /\ VersionFits(v) /\ ~ v.deleting /\ v.finalizer
      BY <1>4, RunVersion
    <2> QED
      BY <1>0, <1>4, <2>2, <2>3, <2>4, CountedIs DEF VersionFits
  <1>5. CASE run.at \in {"advance", "check"}
    <2>1. /\ w = Advanced(v) /\ v.phase = "Syncing" /\ v.cur \in v.done
          /\ VersionFits(v) /\ ~ v.deleting /\ v.finalizer
      BY <1>5, RunVersion DEF WrittenBy, AfterSwap
    <2> QED
      BY <1>0, <1>5, <2>1, AdvancedFits DEF VersionFits
  <1>6. CASE run.at \in {"delete", "swap", "recreate"}
    <2>1. /\ w \in {Deleted(v), Swapped(v), Returned(v)} /\ v.phase = "Syncing"
          /\ VersionFits(v) /\ ~ v.deleting /\ v.finalizer
      BY <1>6, RunVersion DEF WrittenBy, AfterSwap, BeforeSwap
    <2> QED
      BY <1>0, <1>6, <2>1, WrittenIs DEF VersionFits
  <1>7. CASE run.at = "deletion"
    <2>1. w = GoneAfter(1) /\ at = "idle"
      BY <1>7, RunVersion DEF WrittenBy
    <2> QED
      BY <1>7, <2>1, GoneFits, GoneOK DEF VersionOK
  <1> QED
    BY <1>1, <1>2, <1>3, <1>4, <1>5, <1>6, <1>7 DEF WrittenBy

LEMMA IdleFits == ASSUME run' = Idle PROVE RunFits'
  BY GoneIs DEF RunFits, Idle, BeforeSwap

LEMMA SameVersionsFit ==
    ASSUME VersionsInv, SameVersions, RunFits' PROVE VersionsInv'
  BY DEF VersionsInv, SameVersions

LEMMA OneVersionFits ==
    ASSUME VersionsInv, NEW n \in Names, Elsewhere(n),
           VersionFits(Stored(n)'), VersionFits(Cached(n)'), RunFits'
    PROVE  VersionsInv'
  <1>1. ASSUME NEW m \in Names PROVE VersionFits(Stored(m)') /\ VersionFits(Cached(m)')
    BY DEF VersionsInv, Elsewhere
  <1> QED
    BY <1>1 DEF VersionsInv, VersionFits

(* A run keeps the versions in order. *)
LEMMA VersionsRun ==
    ASSUME TidyUse, CampaignInv, NEW n, NEW v, Runs(n, v), Reconcile
    PROVE  VersionsInv'
  <1>0. /\ VersionsInv /\ run.at # "idle" /\ v = run.vr /\ n \in Names
        /\ run \in [name : Names, at : Steps \ {"idle"}, vr : RequestRecords]
    BY RunIs DEF CampaignInv, Runs
  <1>1. CASE Rests(n)
    BY <1>0, <1>1, IdleFits, SameVersionsFit DEF Rests, Idles
  <1>2. CASE \E at : GoesOn(v, at) /\ Goes(at)
    <2>1. PICK at \in BeforeSwap :
             /\ run.at \in BeforeSwap /\ run' = [run EXCEPT !.at = at]
             /\ SameVersions
      BY <1>2 DEF Goes, GoesOn, BeforeSwap
    <2>2. run'.at = at /\ run'.vr = v
      BY <1>0, <2>1
    <2>3. VersionFits(v) /\ ~ v.deleting /\ v.finalizer /\ ToPrepare(v)
      BY <2>1, RunVersion DEF BeforeSwap
    <2>4. RunFits'
      BY <2>2, <2>3 DEF RunFits, BeforeSwap, VersionFits, ToPrepare
    <2> QED
      BY <1>0, <2>1, <2>4, SameVersionsFit
  <1>3. ASSUME NEW w, NEW at, WrittenBy(v, w, at), Writes(n, w, at)
        PROVE  VersionsInv'
    <2>1. /\ VersionFits(w) /\ VersionFits(v)
          /\ at # "idle" => ~ w.deleting /\ w.finalizer
      BY <1>3, WrittenIsProgress, RunVersion DEF WrittenBy
    <2>2. at = "stop" => ToPrepare(w)
      <3> SUFFICES ASSUME at = "stop" PROVE ToPrepare(w)
        OBVIOUS
      <3>1. w = Deleted(v) /\ run.at \in BeforeSwap
        BY <1>3 DEF WrittenBy, BeforeSwap
      <3>2. ToPrepare(v) /\ v \in RequestRecords
        BY <3>1, RunVersion DEF Runs
      <3> QED
        BY <3>1, <3>2, WrittenIs DEF ToPrepare
    <2>3. /\ Stored(n)' = w /\ Cached(n)' = v /\ Elsewhere(n)
          /\ run' = IF at = "idle" THEN Idle ELSE [run EXCEPT !.at = at, !.vr = w]
      BY <1>0, <1>3 DEF Writes
    <2>4. RunFits'
      <3>1. CASE at = "idle"
        BY <2>3, <3>1, IdleFits
      <3>2. CASE at # "idle"
        <4>1. run'.at = at /\ run'.vr = w /\ at \in {"stop", "recreate", "check"}
          BY <1>0, <1>3, <2>3, <3>2 DEF WrittenBy
        <4> QED
          BY <2>1, <2>2, <4>1 DEF RunFits, BeforeSwap, VersionFits, ToPrepare
      <3> QED
        BY <3>1, <3>2
    <2> QED
      BY <1>0, <2>1, <2>3, <2>4, OneVersionFits
  <1> QED
    BY <1>1, <1>2, <1>3, RunShape

LEMMA VersionsBegin ==
    ASSUME CampaignInv, Begin
    PROVE  VersionsInv'
  <1>0. QueueInv /\ VersionsInv
    BY DEF CampaignInv
  <1>1. CASE run' = Idle
    BY <1>0, <1>1, BeginIs, IdleFits, SameVersionsFit
  <1>2. CASE run' # Idle
    <2>1. PICK n \in Names :
            /\ run' = [name |-> n, at |-> Route(Cached(n)), vr |-> Cached(n)]
            /\ Route(Cached(n)) # "idle"
      BY <1>0, <1>2, BeginIs
    <2>2. PICK v : v = Cached(n)
      OBVIOUS
    <2>3. v \in RequestRecords /\ VersionFits(v)
      BY <1>0, <2>2, StoredOK DEF QueueInv, VersionOK, VersionsInv
    <2>4. PICK at : at = Route(v)
      OBVIOUS
    <2>5. run'.at = at /\ run'.vr = v
      BY <2>1, <2>2, <2>4
    <2>6. /\ v.deleting <=> at = "deletion"
          /\ at = "finalizer" => ~ v.finalizer
          /\ at \notin {"deletion", "finalizer"} => v.finalizer
          /\ at = "prepare" => ToPrepare(v)
          /\ at \in {"deletion", "finalizer", "pending", "validating", "advance", "prepare"}
      BY <2>1, <2>2, <2>3, <2>4, RouteIs
    <2>7. RunFits'
      BY <2>3, <2>5, <2>6 DEF RunFits, BeforeSwap, VersionFits, ToPrepare
    <2> QED
      BY <1>0, <2>7, BeginIs, SameVersionsFit
  <1> QED
    BY <1>1, <1>2

LEMMA VersionsStep ==
    ASSUME TidyUse, CampaignInv, [Next]_vars
    PROVE  VersionsInv'
  <1>0. QueueInv /\ VersionsInv /\ RunFits
    BY DEF CampaignInv, VersionsInv
  <1>1. ASSUME SameVersions, UNCHANGED run PROVE VersionsInv'
    BY <1>0, <1>1, SameVersionsFit DEF RunFits
  <1>2. ASSUME NEW n \in Names, Elsewhere(n), UNCHANGED run,
               VersionFits(Stored(n)'), VersionFits(Cached(n)')
        PROVE  VersionsInv'
    BY <1>0, <1>2, OneVersionFits DEF RunFits
  <1>3. ASSUME NEW n \in Names, Informer(n) PROVE VersionsInv'
    <2>1. /\ Stored(n)' = Stored(n) /\ Cached(n)' = Stored(n) /\ Elsewhere(n)
          /\ UNCHANGED run
      BY <1>0, <1>3, InformerIs
    <2> QED
      BY <1>0, <1>2, <2>1 DEF VersionsInv
  <1>4. CASE ClusterStep \/ \E s \in Sets : Edit(s) \/ Restore(s)
    <2>1. Rest
      BY <1>0, <1>4, ClusterStepOK, EditStep
    <2> QED
      BY <1>1, <2>1, RestIs
  <1>5. ASSUME NEW t \in Terminals, NEW n \in Names, Creates(t, n), Calm
        PROVE  VersionsInv'
    BY <1>2, <1>5, NewFits, GoneFits DEF Creates, Calm
  <1>6. ASSUME NEW n \in Names, Deletes(n), Calm PROVE VersionsInv'
    <2>1. PICK v \in RequestRecords : v = Stored(n) /\ VersionFits(v) /\ v.phase # "Gone"
      BY <1>0, <1>6, StoredOK DEF QueueInv, VersionOK, VersionsInv, Exists, Deletes
    <2> QED
      BY <1>2, <1>6, <2>1, MarkedFits, GoneFits DEF Deletes, Calm
  <1>7. ASSUME NEW n, NEW v, Runs(n, v), Reconcile PROVE VersionsInv'
    BY <1>7, VersionsRun
  <1>8. CASE Calm /\ SameVersions
    BY <1>1, <1>8 DEF Calm
  <1> QED
    BY <1>3, <1>4, <1>5, <1>6, <1>7, <1>8, StepIs, VersionsBegin

-----------------------------------------------------------------------------
(* One VolumeResize per StatefulSet, and creates that respect it. *)

(* How a stored version changes, other than by a create. *)
Moved(n) ==
    \/ Exists(n) /\ Stored(n)' \in {Marked(Stored(n)), GoneAfter(1)}
    \/ /\ Stored(n).phase \in {"Pending", "Validating", "Syncing"}
       /\ Stored(n)'.phase # "Gone" /\ Stored(n)'.set = Stored(n).set

LEMMA StoredMoves ==
    ASSUME TidyUse, CampaignInv, [Next]_vars
    PROVE  \/ \A n \in Names : Stored(n)' = Stored(n)
           \/ \E n \in Names :
                 /\ \A m \in Names \ {n} : Stored(m)' = Stored(m)
                 /\ Moved(n) \/ \E t \in Terminals : Creates(t, n)
  <1>0. QueueInv
    BY DEF CampaignInv
  <1>1. ASSUME NEW n, NEW v, Runs(n, v), Reconcile
        PROVE  \/ \A m \in Names : Stored(m)' = Stored(m)
               \/ Moved(n) /\ \A m \in Names \ {n} : Stored(m)' = Stored(m)
    <2>1. ASSUME NEW w, NEW at, WrittenBy(v, w, at), Writes(n, w, at)
          PROVE  Moved(n) /\ \A m \in Names \ {n} : Stored(m)' = Stored(m)
      <3>1. /\ Stored(n) = v /\ Stored(n)' = w /\ v.phase # "Gone"
            /\ \A m \in Names \ {n} : Stored(m)' = Stored(m)
        BY <1>1, <2>1 DEF Runs, Writes, Elsewhere
      <3> QED
        BY <1>1, <2>1, <3>1, WrittenIsProgress DEF Moved, Exists
    <2> QED
      BY <1>1, <2>1, RunShape DEF Rests, Idles, Goes, SameVersions
  <1>2. ASSUME NEW n, NEW v, Runs(n, v) PROVE n \in Names
    BY <1>2 DEF Runs
  <1>3. ASSUME NEW n \in Names, Informer(n) PROVE \A m \in Names : Stored(m)' = Stored(m)
    BY <1>0, <1>3, InformerIs DEF Elsewhere
  <1>4. CASE ClusterStep \/ \E s \in Sets : Edit(s) \/ Restore(s)
    <2>1. Rest
      BY <1>0, <1>4, ClusterStepOK, EditStep
    <2> QED
      BY <2>1, RestIs DEF SameVersions
  <1>5. CASE Begin
    BY <1>0, <1>5, BeginIs DEF SameVersions
  <1>6. CASE SameVersions
    BY <1>6 DEF SameVersions
  <1>7. ASSUME NEW t \in Terminals, NEW n \in Names, Creates(t, n)
        PROVE  \A m \in Names \ {n} : Stored(m)' = Stored(m)
    BY <1>7 DEF Creates, Elsewhere
  <1>8. ASSUME NEW n \in Names, Deletes(n)
        PROVE  Moved(n) /\ \A m \in Names \ {n} : Stored(m)' = Stored(m)
    BY <1>8 DEF Deletes, Elsewhere, Moved
  <1> QED
    BY <1>1, <1>2, <1>3, <1>4, <1>5, <1>6, <1>7, <1>8, StepIs

LEMMA AloneStep ==
    ASSUME TidyUse, CampaignInv, [Next]_vars
    PROVE  AloneInv'
  <1>0. AloneInv /\ CreateInv /\ QueueInv
    BY DEF CampaignInv
  <1>1. SUFFICES ASSUME NEW n \in Names, NEW m \in Names \ {n} PROVE Alone(n, m)'
    BY DEF AloneInv
  <1>2. Alone(n, m) /\ Alone(m, n)
    BY <1>0 DEF AloneInv
  <1>3. ASSUME NEW k \in Names, Moved(k)
        PROVE  Exists(k)' => /\ Exists(k) /\ Stored(k)'.set = Stored(k).set
                             /\ Stored(k).phase = "Completed" => Stored(k)'.phase = "Completed"
    <2>1. Stored(k) \in RequestRecords
      BY <1>0, StoredOK DEF QueueInv, VersionOK
    <2> QED
      BY <1>3, <2>1, MarkedIs, GoneIs DEF Moved, Exists, Alike
  <1>4. ASSUME NEW k \in Names, NEW t \in Terminals, Creates(t, k), NEW j \in Names \ {k},
               Exists(j), Stored(j).set = Stored(k)'.set
        PROVE  Stored(j).phase = "Completed"
    <2>1. Stored(k)'.set = session[t].set /\ CreateFits(t)
      BY <1>0, <1>4, NewIs DEF Creates, CreateInv
    <2> QED
      BY <1>4, <2>1 DEF CreateFits, About
  <1>5. CASE \A k \in Names : Stored(k)' = Stored(k)
    BY <1>2, <1>5 DEF Alone, Exists
  <1>6. ASSUME NEW k \in Names, \A j \in Names \ {k} : Stored(j)' = Stored(j), Moved(k)
        PROVE  Alone(n, m)'
    BY <1>2, <1>3, <1>6 DEF Alone, Exists
  <1>7. ASSUME NEW k \in Names, \A j \in Names \ {k} : Stored(j)' = Stored(j),
               NEW t \in Terminals, Creates(t, k)
        PROVE  Alone(n, m)'
    BY <1>2, <1>4, <1>7 DEF Alone, Exists
  <1> QED
    BY <1>5, <1>6, <1>7, StoredMoves

(* A terminal that is about to create was so before, or has just looked. *)
LEMMA SessionMoves ==
    ASSUME TidyUse, CampaignInv, [Next]_vars
    PROVE  \/ \A u \in Terminals : session'[u].cmd = "create" => session'[u] = session[u]
           \/ \E t \in Terminals, n \in Names : \E wish \in Wishes[n] :
                 CheckName(t, n, wish[1], wish[2])
  <1>0. QueueInv
    BY DEF CampaignInv
  <1>1. ASSUME NEW t \in Terminals, VolmigStep(t)
        PROVE  \/ \A u \in Terminals : session'[u].cmd = "create" => session'[u] = session[u]
               \/ \E n \in Names : \E wish \in Wishes[n] : CheckName(t, n, wish[1], wish[2])
    <2>1. CASE Create(t)
      BY <1>0, <2>1, CreateIs
    <2>2. CASE Delete(t)
      BY <1>0, <2>2, DeleteIs
    <2>3. CASE Poll(t) \/ \E n \in Names : LookUp(t, n) \/ Watch(t, n) \/ Follow(t, n)
      BY <1>0, <2>3, OtherCommands
    <2> QED
      BY <1>1, <2>1, <2>2, <2>3 DEF VolmigStep
  <1>2. ASSUME NEW n, NEW v, Runs(n, v), Reconcile PROVE UNCHANGED session
    BY <1>0, <1>2, FrameIs
  <1>3. ASSUME NEW n \in Names, Informer(n) PROVE UNCHANGED session
    BY <1>3 DEF Informer
  <1>4. CASE ClusterStep \/ \E s \in Sets : Edit(s) \/ Restore(s)
    BY <1>0, <1>4, ClusterStepOK, EditStep, RestIs
  <1>5. CASE Begin
    BY <1>0, <1>5, BeginIs
  <1>6. CASE Reconcile
    <2>1. CASE ~ Begin
      <3>1. run.at # "idle"
        BY <1>6, <2>1, BusyIs
      <3> QED
        BY <1>0, <1>2, <1>6, <3>1, RunsIs
    <2> QED
      BY <1>5, <2>1
  <1>7. CASE UNCHANGED vars
    BY <1>7 DEF vars
  <1> QED
    BY <1>1, <1>3, <1>4, <1>6, <1>7 DEF Next, UserStep

LEMMA CreatesStep ==
    ASSUME TidyUse, CampaignInv, [Next]_vars
    PROVE  CreateInv'
  <1>0. AloneInv /\ CreateInv /\ QueueInv /\ VersionsInv
    BY DEF CampaignInv
  <1>1. ASSUME NEW t \in Terminals, NEW n \in Names, NEW wish \in Wishes[n],
               CheckName(t, n, wish[1], wish[2])
        PROVE  CreateInv'
    <2>1. SUFFICES ASSUME NEW u \in Terminals, Running(u, "create")' PROVE CreateFits(u)'
      BY DEF CreateInv
    <2>2. /\ SameVersions /\ \A x \in Terminals \ {t} : session'[x] = session[x]
          /\ session'[t].cmd = "create" =>
                /\ session'[t].name = n /\ session'[t].set = wish[1]
                /\ session'[t].size = wish[2]
                /\ ~ Exists(n) /\ Unused(n) /\ Free(wish[1])
                /\ \A x \in Terminals : ~ (Running(x, "create") /\ session[x].set = wish[1])
      BY <1>0, <1>1, CheckNameIs
    <2>3. \A k \in Names : Stored(k)' = Stored(k)
      BY <2>2 DEF SameVersions
    <2>4. CASE u # t
      <3>1. CreateFits(u) /\ session'[u] = session[u] /\ Running(u, "create")
        BY <1>0, <2>1, <2>2, <2>4 DEF CreateInv, Running
      <3>2. session[u].name \in Names
        BY <1>0, <3>1 DEF QueueInv, SessionOK, Running
      <3>3. ASSUME NEW x \in Terminals \ {u}, Running(x, "create")'
            PROVE  session'[x].set # session'[u].set
        BY <2>2, <2>4, <3>1, <3>3 DEF CreateFits, Running
      <3>4. \A k \in Names : About(k, session[u].set)' => Stored(k)'.phase = "Completed"
        BY <2>3, <3>1 DEF CreateFits, About, Exists
      <3> QED
        BY <2>3, <3>1, <3>2, <3>3, <3>4 DEF CreateFits, About, Exists, Running
    <2>5. CASE u = t
      <3>1. /\ session'[t].name = n /\ session'[t].set = wish[1]
            /\ session'[t].size = wish[2] /\ ~ Exists(n) /\ Unused(n) /\ Free(wish[1])
            /\ \A x \in Terminals : ~ (Running(x, "create") /\ session[x].set = wish[1])
        BY <2>1, <2>2, <2>5 DEF Running
      <3>2. Stored(n) = GoneAfter(0)
        <4>1. "reuse" \notin Habits
          BY DEF TidyUse
        <4>2. Stored(n).incarnation = 0 /\ Stored(n).phase = "Gone"
          BY <3>1, <4>1 DEF Unused, Exists
        <4> QED
          BY <1>0, <4>2 DEF VersionsInv, VersionFits
      <3>3. \A k \in Names : About(k, wish[1]) => Stored(k).phase = "Completed"
        <4>1. "untidy" \notin Habits
          BY DEF TidyUse
        <4> QED
          BY <3>1, <4>1 DEF Free
      <3>4. <<wish[1], wish[2]>> \in Wishes[n]
        <4>1. wish \in Sets \X Sizes
          BY HabitsAssumption
        <4> QED
          BY <4>1
      <3>5. \A x \in Terminals \ {t} : Running(x, "create")' => session'[x].set # wish[1]
        BY <2>2, <3>1 DEF Running
      <3>6. \A k \in Names : About(k, wish[1])' => Stored(k)'.phase = "Completed"
        BY <2>3, <3>3 DEF About, Exists
      <3> QED
        BY <2>3, <2>5, <3>1, <3>2, <3>4, <3>5, <3>6 DEF CreateFits, About, Exists, Running
    <2> QED
      BY <2>4, <2>5
  <1>2. CASE \A u \in Terminals : session'[u].cmd = "create" => session'[u] = session[u]
    <2>1. SUFFICES ASSUME NEW u \in Terminals, Running(u, "create")' PROVE CreateFits(u)'
      BY DEF CreateInv
    <2>2. session'[u] = session[u] /\ Running(u, "create") /\ CreateFits(u)
      BY <1>0, <1>2, <2>1 DEF CreateInv, Running
    <2>3. session[u].name \in Names
      BY <1>0, <2>2 DEF QueueInv, SessionOK, Running
    <2>4. PICK n \in Names : n = session[u].name
      BY <2>3
    <2>0. PICK s : s = session[u].set
      OBVIOUS
    <2>5. \A x \in Terminals \ {u} : Running(x, "create")' => session'[x].set # s
      BY <1>2, <2>2, <2>4, <2>0 DEF CreateFits, Running
    <2>6. Stored(n) = GoneAfter(0) /\ ~ Exists(n)
      BY <2>2, <2>4, <2>0, GoneIs DEF CreateFits, Exists
    <2>7. \A k \in Names : About(k, s) => Stored(k).phase = "Completed"
      BY <2>2, <2>4, <2>0 DEF CreateFits
    <2>8. SUFFICES Stored(n)' = GoneAfter(0)
                   /\ \A k \in Names : About(k, s)' => Stored(k)'.phase = "Completed"
      BY <2>2, <2>4, <2>0, <2>5 DEF CreateFits, About, Exists, Running
    <2>9. CASE \A k \in Names : Stored(k)' = Stored(k)
      BY <2>6, <2>7, <2>9 DEF About, Exists
    <2>10. ASSUME NEW k \in Names, \A j \in Names \ {k} : Stored(j)' = Stored(j), Moved(k)
           PROVE  Stored(n)' = GoneAfter(0)
                  /\ \A j \in Names : About(j, s)' => Stored(j)'.phase = "Completed"
      <3>1. Stored(k) \in RequestRecords
        BY <1>0, StoredOK DEF QueueInv, VersionOK
      <3>2. k # n
        BY <2>6, <2>10, GoneIs DEF Moved, Exists
      <3>3. About(k, s)' => About(k, s) /\ Stored(k)'.phase = "Completed"
        BY <2>7, <2>10, <3>1, MarkedIs, GoneIs DEF Moved, About, Exists, Alike
      <3> QED
        BY <2>6, <2>7, <2>10, <3>2, <3>3 DEF About, Exists
    <2>11. ASSUME NEW k \in Names, \A j \in Names \ {k} : Stored(j)' = Stored(j),
                  NEW t \in Terminals, Creates(t, k)
           PROVE  Stored(n)' = GoneAfter(0)
                  /\ \A j \in Names : About(j, s)' => Stored(j)'.phase = "Completed"
      <3>1. t # u /\ Running(t, "create") /\ k = session[t].name
        BY <2>1, <2>11 DEF Creates, Running
      <3>2. CreateFits(t) /\ session[t].set # s
        BY <1>0, <2>2, <2>0, <3>1 DEF CreateInv, CreateFits
      <3>3. k # n
        <4>1. /\ <<session[t].set, session[t].size>> \in Wishes[k]
              /\ <<s, session[u].size>> \in Wishes[n]
          BY <2>2, <2>4, <2>0, <3>1, <3>2 DEF CreateFits
        <4> QED
          BY <3>2, <4>1 DEF TidyUse
      <3>4. Stored(k)'.set = session[t].set
        BY <2>11, NewIs DEF Creates
      <3> QED
        BY <2>6, <2>7, <2>11, <3>2, <3>3, <3>4 DEF About, Exists
    <2> QED
      BY <2>9, <2>10, <2>11, StoredMoves
  <1> QED
    BY <1>1, <1>2, SessionMoves

-----------------------------------------------------------------------------
(* What a run finds stored. *)

Migrating == BeforeSwap \cup {"recreate", "check"}

(* What is stored differs from the copy of a run by a delete or a failure. *)
LEMMA HeldIs ==
    ASSUME CampaignInv, NEW n, NEW v, Runs(n, v), run.at \in Migrating
    PROVE  /\ Alike(v, Stored(n)) /\ Exists(n) /\ Stored(n) \in RequestRecords
           /\ Stored(n).phase \in {"Syncing", "Failed"}
           /\ \/ Fresh(v, n) /\ Stored(n).phase = "Syncing"
              \/ FailedSince(v, n) /\ Stored(n).phase = "Failed" /\ run.at \in BeforeSwap
           /\ Refuses(n) => Cached(n) = Stored(n) /\ Stored(n) # v
           /\ Stored(n) # v => Stored(n) = Marked(v) \/ Stored(n).phase = "Failed"
           /\ Stored(n) = Marked(v) => Stored(n).deleting
  <1>1. n = run.name /\ v = run.vr /\ v \in RequestRecords /\ n \in Names
    BY DEF Runs
  <1>2. v.phase = "Syncing"
    BY RunVersion DEF Migrating, AfterSwap
  <1>3. Fresh(v, n) \/ (FailedSince(v, n) /\ run.at \in BeforeSwap)
    BY <1>1 DEF CampaignInv, HoldsInv, SyncFits, Migrating
  <1>4. Stored(n) \in RequestRecords
    BY <1>1, StoredOK DEF CampaignInv, QueueInv, VersionOK
  <1>5. CASE Fresh(v, n)
    <2>1. Alike(v, Stored(n)) /\ Stored(n).phase = "Syncing"
      BY <1>1, <1>2, <1>5, FreshIs
    <2> QED
      BY <1>1, <1>4, <1>5, <2>1, MarkedIs DEF Exists, Refuses, GivesUp, Fresh
  <1>6. CASE FailedSince(v, n) /\ run.at \in BeforeSwap
    <2>1. Alike(v, Stored(n)) /\ Stored(n).phase = "Failed"
      BY <1>1, <1>6, FailedIs
    <2> QED
      BY <1>1, <1>4, <1>6, <2>1, MarkedIs DEF Exists, Refuses, GivesUp
  <1> QED
    BY <1>3, <1>5, <1>6

(* Nobody else is about its StatefulSet, or will be soon. *)
LEMMA OwnSet ==
    ASSUME CampaignInv, NEW n, NEW v, Runs(n, v), run.at \in Migrating,
           NEW m \in Names \ {n}
    PROVE  /\ Exists(m) /\ Stored(m).set = v.set => Stored(m).phase = "Completed"
           /\ ToPrepare(Cached(m)) => Cached(m).set # v.set
  <1>1. n \in Names /\ n = run.name
    BY DEF Runs
  <1>2. Exists(n) /\ Stored(n).set = v.set /\ Stored(n).phase # "Completed"
    BY HeldIs DEF Alike
  <1>3. Exists(m) /\ Stored(m).set = v.set => Stored(m).phase = "Completed"
    BY <1>1, <1>2 DEF CampaignInv, AloneInv, Alone
  <1>4. ASSUME ToPrepare(Cached(m)) PROVE Cached(m).set # v.set
    <2>1. PICK c : c = Cached(m)
      OBVIOUS
    <2>2. c \in RequestRecords /\ c.phase = "Syncing"
      BY <1>4, <2>1, StoredOK DEF CampaignInv, QueueInv, VersionOK, ToPrepare
    <2>3. Fresh(c, m) \/ FailedSince(c, m)
      BY <1>1, <1>4, <2>1 DEF CampaignInv, CacheInv, CacheFits
    <2>4. Stored(m).set = c.set /\ Stored(m).phase \in {"Syncing", "Failed"}
      BY <2>2, <2>3, FreshIs, FailedIs DEF Alike
    <2> QED
      BY <1>3, <2>1, <2>4 DEF Exists
  <1> QED
    BY <1>3, <1>4

(* A run takes away and brings back the StatefulSet it is about. *)
LEMMA StsIs ==
    ASSUME TidyUse, CampaignInv, NEW n, NEW v, Runs(n, v), Reconcile
    PROVE  /\ \A s \in Sets : sts'[s] # sts[s] => s = v.set /\ run.at \in {"delete", "recreate"}
           /\ run.at = "delete" => ~ sts'[v.set].up
           /\ run.at = "recreate" =>
                 /\ sts'[v.set].up /\ backup[n].set = v.set
                 /\ sts[v.set].up => sts'[v.set] = sts[v.set]
                 /\ ~ sts[v.set].up => sts'[v.set] =
                       [up |-> TRUE, rev |-> backup[n].rev, tmpl |-> v.size,
                        replicas |-> backup[n].replicas, by |-> NoName]
  <1>0. QueueInv /\ run.at # "idle" /\ n \in Names
    BY DEF CampaignInv, Runs
  <1>1. CASE run.at = "delete"
    BY <1>0, <1>1, ActionIs, DeleteStsIs
  <1>2. CASE run.at = "recreate"
    <2>1. PICK b : b = backup[n] /\ b # NoBackup
      BY <1>2, NothingMissing
    <2>2. b.set = v.set
      <3>1. Exists(n) /\ Stored(n).set = v.set
        BY <1>2, HeldIs DEF Migrating, Alike
      <3> QED
        BY <1>0, <2>1, <3>1 DEF CampaignInv, BackupInv, BackupFits
    <2>3. /\ b.set \in Sets
          /\ \A s \in Sets \ {b.set} : sts'[s] = sts[s]
          /\ sts'[b.set] = IF sts[b.set].up THEN sts[b.set]
                           ELSE [up |-> TRUE, rev |-> b.rev, replicas |-> b.replicas,
                                 tmpl |-> v.size, by |-> NoName]
      BY <1>0, <1>2, <2>1, ActionIs, RecreateIs
    <2> QED
      BY <1>2, <2>1, <2>2, <2>3
  <1>3. CASE run.at \notin {"delete", "recreate"}
    BY <1>0, <1>3, FrameIs
  <1> QED
    BY <1>1, <1>2, <1>3

-----------------------------------------------------------------------------
(* The annotation sts-deleted and the StatefulSet. *)

LEMMA AwayKept ==
    ASSUME NEW k \in Names, AwayFits(k), Stored(k)' = Stored(k),
           Stored(k).phase = "Syncing" => sts'[Stored(k).set].up = sts[Stored(k).set].up,
           \/ ~ (run.name = k /\ run.at = "recreate" /\ run.vr = Stored(k))
           \/ UNCHANGED run
    PROVE  AwayFits(k)'
  BY DEF AwayFits, Away

LEMMA AwayOther ==
    ASSUME TidyUse, CampaignInv, NEW n, NEW v, Runs(n, v), Reconcile,
           NEW k \in Names \ {n}, Stored(k)' = Stored(k)
    PROVE  AwayFits(k)'
  <1>1. AwayFits(k) /\ k # run.name
    BY DEF CampaignInv, AwayInv, Runs
  <1>2. ASSUME Stored(k).phase = "Syncing"
        PROVE  sts'[Stored(k).set].up = sts[Stored(k).set].up
    <2>1. Stored(k).set \in Sets
      BY <1>2, StoredOK DEF CampaignInv, QueueInv, VersionOK
    <2>2. run.at \in {"delete", "recreate"} => Stored(k).set # v.set
      BY <1>2, OwnSet DEF Migrating, BeforeSwap, Exists
    <2> QED
      BY <2>1, <2>2, StsIs
  <1> QED
    BY <1>1, <1>2, AwayKept

LEMMA AwayRun ==
    ASSUME TidyUse, CampaignInv, NEW n, NEW v, Runs(n, v), Reconcile
    PROVE  AwayFits(n)'
  <1>0. /\ n \in Names /\ n = run.name /\ v = run.vr /\ v \in RequestRecords /\ v.set \in Sets
        /\ AwayFits(n) /\ VersionOK(v)
        /\ run \in [name : Names, at : Steps \ {"idle"}, vr : RequestRecords]
    BY RunIs DEF CampaignInv, AwayInv, Runs
  <1>1. CASE Rests(n) \/ \E at : GoesOn(v, at) /\ Goes(at)
    <2>1. Stored(n)' = Stored(n)
      BY <1>0, <1>1 DEF Rests, Idles, Goes, SameVersions
    <2>2. CASE run.at \in {"delete", "recreate"}
      <3>1. Refuses(n)
        BY <1>1, <2>2 DEF Rests, GoesOn
      <3>2. run.at \in Migrating
        BY <2>2 DEF Migrating, BeforeSwap
      <3>3. /\ Alike(v, Stored(n)) /\ (Stored(n).deleting \/ Stored(n).phase = "Failed")
            /\ run.at = "recreate" => Stored(n).phase = "Syncing"
        BY <2>2, <3>1, <3>2, HeldIs DEF BeforeSwap
      <3>4. run.at = "recreate" => v.cur \in v.done
        BY RunVersion DEF AfterSwap
      <3>5. run.at = "delete" => ~ sts'[v.set].up
        BY StsIs
      <3> QED
        BY <2>1, <2>2, <3>3, <3>4, <3>5 DEF AwayFits, Away, Alike
    <2>3. CASE run.at \notin {"delete", "recreate"}
      <3>1. UNCHANGED sts
        BY <2>3, FrameIs DEF CampaignInv
      <3> QED
        BY <1>0, <2>1, <2>3, <3>1, AwayKept
    <2> QED
      BY <2>2, <2>3
  <1>2. ASSUME NEW w, NEW at, WrittenBy(v, w, at), Writes(n, w, at)
        PROVE  AwayFits(n)'
    <2>1. /\ Stored(n) = v /\ Stored(n)' = w
          /\ run' = IF at = "idle" THEN Idle ELSE [run EXCEPT !.at = at, !.vr = w]
      BY <1>0, <1>2 DEF Writes
    <2>2. CASE w.phase # "Syncing"
      BY <2>1, <2>2 DEF AwayFits
    <2>3. CASE run.at = "validating" /\ w.phase = "Syncing"
      <3>1. PICK k : k = sts[v.set].replicas
        OBVIOUS
      <3>2. k \in 0 .. MaxReplicas
        BY <1>0, <3>1, QueueAssumption DEF CampaignInv, QueueInv, ClusterOK, StsOK
      <3>3. w = Counted(v, k) /\ sts[v.set].up /\ UNCHANGED sts
        BY <1>0, <1>2, <2>3, <3>1, FailingIs, FrameIs DEF WrittenBy, CampaignInv
      <3>4. ~ v.stsDeleted
        BY <2>3, RunVersion DEF VersionFits
      <3> QED
        BY <1>0, <2>1, <3>2, <3>3, <3>4, CountedIs DEF AwayFits, Away
    <2>4. CASE run.at \in {"advance", "check"}
      <3>1. w = Advanced(v) /\ v.phase = "Syncing" /\ v.cur \in v.done /\ ~ v.deleting
        BY <1>2, <2>4, RunVersion DEF WrittenBy, AfterSwap
      <3>2. ~ v.stsDeleted /\ ~ Away(v)
        BY <1>0, <2>1, <2>4, <3>1 DEF AwayFits
      <3>3. UNCHANGED sts
        BY <2>4, FrameIs DEF CampaignInv
      <3> QED
        BY <1>0, <2>1, <3>1, <3>2, <3>3, AdvancedFits DEF AwayFits, Away
    <2>5. CASE run.at = "delete"
      <3>1. w = Deleted(v) /\ v.cur \notin v.done /\ ~ sts'[v.set].up
        BY <1>2, <2>5, RunVersion, StsIs DEF WrittenBy, BeforeSwap
      <3> QED
        BY <1>0, <2>1, <3>1, WrittenIs DEF AwayFits, Away
    <2>6. CASE run.at = "swap"
      <3>1. w = Swapped(v) /\ at = "recreate"
        BY <1>2, <2>6 DEF WrittenBy
      <3>2. v.stsDeleted
        BY <1>0, <2>6 DEF CampaignInv, HoldsInv, Holding
      <3>3. run'.name = n /\ run'.at = "recreate" /\ run'.vr = w
        BY <1>0, <2>1, <3>1
      <3> QED
        BY <1>0, <2>1, <3>1, <3>2, <3>3, WrittenIs DEF AwayFits, Away
    <2>7. CASE run.at = "recreate"
      <3>1. w = Returned(v) /\ sts'[v.set].up
        BY <1>2, <2>7, StsIs DEF WrittenBy
      <3> QED
        BY <1>0, <2>1, <3>1, WrittenIs DEF AwayFits, Away
    <2>8. CASE run.at \in {"finalizer", "pending", "deletion"}
      <3>1. w.phase # "Syncing"
        BY <1>0, <1>2, <2>8, RunVersion, WrittenIs, GoneIs DEF WrittenBy, Alike
      <3> QED
        BY <2>2, <3>1
    <2>9. CASE run.at \in {"prepare", "copy"}
      BY <1>0, <1>2, <2>2, <2>9, FailingIs DEF WrittenBy
    <2> QED
      BY <1>2, <2>2, <2>3, <2>4, <2>5, <2>6, <2>7, <2>8, <2>9 DEF WrittenBy
  <1> QED
    BY <1>1, <1>2, RunShape

LEMMA AwayStep ==
    ASSUME TidyUse, CampaignInv, [Next]_vars
    PROVE  AwayInv'
  <1>0. QueueInv /\ AwayInv
    BY DEF CampaignInv
  <1>1. ASSUME SameVersions, UNCHANGED run, \A s \in Sets : sts'[s].up = sts[s].up
        PROVE  AwayInv'
    <2>1. ASSUME NEW k \in Names PROVE AwayFits(k)'
      <3>1. Stored(k)' = Stored(k) /\ AwayFits(k)
        BY <1>0, <1>1 DEF SameVersions, AwayInv
      <3>2. Stored(k).phase = "Syncing" => Stored(k).set \in Sets
        BY <1>0, StoredOK DEF QueueInv, VersionOK
      <3> QED
        BY <1>1, <3>1, <3>2, AwayKept
    <2> QED
      BY <2>1 DEF AwayInv
  <1>2. CASE Begin
    <2>1. run = Idle /\ SameVersions /\ UNCHANGED sts
      BY <1>0, <1>2, BeginIs DEF clusterVars
    <2>2. ASSUME NEW k \in Names PROVE AwayFits(k)'
      <3>1. Stored(k)' = Stored(k) /\ AwayFits(k) /\ run.at # "recreate"
        BY <1>0, <2>1 DEF SameVersions, AwayInv, Idle
      <3> QED
        BY <2>1, <3>1, AwayKept
    <2> QED
      BY <2>2 DEF AwayInv
  <1>3. ASSUME NEW n, NEW v, Runs(n, v), Reconcile PROVE AwayInv'
    <2>1. ASSUME NEW k \in Names \ {n} PROVE AwayFits(k)'
      <3>1. Stored(k)' = Stored(k)
        BY <1>3, <2>1, RunShape DEF Rests, Idles, Goes, SameVersions, Writes, Elsewhere
      <3> QED
        BY <1>3, <2>1, <3>1, AwayOther
    <2> QED
      BY <1>3, <2>1, AwayRun DEF AwayInv
  <1>4. ASSUME NEW n \in Names, Informer(n) PROVE AwayInv'
    <2>1. Stored(n)' = Stored(n) /\ Elsewhere(n) /\ UNCHANGED <<sts, run>>
      BY <1>0, <1>4, InformerIs DEF clusterVars
    <2>2. ASSUME NEW k \in Names PROVE AwayFits(k)'
      <3>1. Stored(k)' = Stored(k) /\ AwayFits(k)
        BY <1>0, <2>1 DEF Elsewhere, AwayInv
      <3> QED
        BY <2>1, <3>1, AwayKept
    <2> QED
      BY <2>2 DEF AwayInv
  <1>5. CASE ClusterStep
    <2>1. Rest /\ UNCHANGED sts
      BY <1>0, <1>5, ClusterStepOK
      DEF ClusterStep, StartPod, PodEnds, PrunePod, TempGoes, MigStarts, MigEnds,
          MigFails, MigGoes
    <2> QED
      BY <1>1, <2>1, RestIs
  <1>6. ASSUME NEW s \in Sets, Edit(s) PROVE AwayInv'
    <2>1. Rest /\ \A x \in Sets : sts'[x].up = sts[x].up
      BY <1>0, <1>6 DEF Edit, QueueInv, ClusterOK, StsOK
    <2> QED
      BY <1>1, <2>1, RestIs
  <1>7. ASSUME NEW s \in Sets, Restore(s) PROVE AwayInv'
    <2>1. /\ Rest /\ Quiet(s) /\ \A x \in Sets \ {s} : sts'[x] = sts[x]
      BY <1>0, <1>7 DEF Restore, QueueInv, ClusterOK, StsOK
    <2>2. ASSUME NEW k \in Names PROVE AwayFits(k)'
      <3>1. Stored(k)' = Stored(k) /\ AwayFits(k) /\ UNCHANGED run
        BY <1>0, <2>1, RestIs DEF SameVersions, AwayInv
      <3>2. Stored(k).phase = "Syncing" => Stored(k).set \in Sets \ {s}
        BY <1>0, <2>1, StoredOK DEF QueueInv, VersionOK, Quiet, About, Exists, Unended, Ended
      <3> QED
        BY <2>1, <3>1, <3>2, AwayKept
    <2> QED
      BY <2>2 DEF AwayInv
  <1>8. CASE Calm /\ SameVersions
    BY <1>1, <1>8 DEF Calm, clusterVars
  <1>9. ASSUME Calm, NEW n \in Names, Elsewhere(n), AwayFits(n)'
        PROVE  AwayInv'
    <2>1. ASSUME NEW k \in Names \ {n} PROVE AwayFits(k)'
      BY <1>0, <1>9, AwayKept DEF Calm, clusterVars, Elsewhere, AwayInv
    <2> QED
      BY <1>9, <2>1 DEF AwayInv
  <1>10. ASSUME Calm, NEW t \in Terminals, NEW n \in Names, Creates(t, n)
         PROVE  AwayInv'
    <2>1. AwayFits(n)' /\ Elsewhere(n)
      BY <1>10, NewIs DEF Creates, AwayFits
    <2> QED
      BY <1>9, <1>10, <2>1
  <1>11. ASSUME Calm, NEW n \in Names, Deletes(n) PROVE AwayInv'
    <2>1. PICK v \in RequestRecords : v = Stored(n) /\ AwayFits(n) /\ Elsewhere(n)
      BY <1>0, <1>11, StoredOK DEF QueueInv, VersionOK, AwayInv, Deletes
    <2>2. Stored(n)' = Marked(v) \/ Stored(n)' = GoneAfter(1)
      BY <1>11, <2>1 DEF Deletes
    <2>3. AwayFits(n)'
      BY <1>11, <2>1, <2>2, MarkedIs, GoneIs DEF AwayFits, Away, Alike, Calm, clusterVars
    <2> QED
      BY <1>9, <1>11, <2>1, <2>3
  <1> QED
    BY <1>2, <1>3, <1>4, <1>5, <1>6, <1>7, <1>8, <1>10, <1>11, StepIs

-----------------------------------------------------------------------------
(* The backups. *)

(* What a run writes, apart from the phase, the progress and the finalizer. *)
LEMMA WrittenKeeps ==
    ASSUME CampaignInv, NEW n, NEW v, Runs(n, v), NEW w, NEW at, WrittenBy(v, w, at)
    PROVE  /\ w.incarnation = 1
           /\ w.stsDeleted => v.stsDeleted \/ run.at = "delete"
           /\ w.phase # "Gone" => w.set = v.set /\ w.size = v.size
           /\ at \in {"idle", "stop", "recreate", "check"}
  <1>0. v \in RequestRecords /\ VersionOK(v) /\ v.set \in Sets
    BY DEF Runs
  <1>1. w.incarnation = 1 /\ (w.phase # "Gone" => w.set = v.set /\ w.size = v.size)
    BY WrittenIsProgress, GoneIs
  <1>2. CASE run.at \in {"finalizer", "pending", "delete", "swap", "recreate", "deletion"}
    BY <1>0, <1>1, <1>2, WrittenIs, GoneIs DEF WrittenBy, Alike
  <1>3. CASE w = Failing(v)
    BY <1>0, <1>1, <1>3, FailingIs DEF WrittenBy, Alike
  <1>4. CASE run.at = "validating" /\ w # Failing(v)
    <2>1. PICK k : k = sts[v.set].replicas
      OBVIOUS
    <2>2. k \in 0 .. MaxReplicas
      BY <1>0, <2>1, QueueAssumption DEF CampaignInv, QueueInv, ClusterOK, StsOK
    <2>3. w = Counted(v, k) /\ at = "idle"
      BY <1>4, <2>1 DEF WrittenBy
    <2> QED
      BY <1>0, <1>1, <2>2, <2>3, CountedIs
  <1>5. CASE run.at \in {"advance", "check"}
    <2>1. w = Advanced(v) /\ v.phase = "Syncing" /\ v.cur \in v.done /\ at = "idle"
      BY <1>5, RunVersion DEF WrittenBy, AfterSwap
    <2> QED
      BY <1>0, <1>1, <2>1, AdvancedFits
  <1> QED
    BY <1>2, <1>3, <1>4, <1>5 DEF WrittenBy

LEMMA BackupRun ==
    ASSUME TidyUse, CampaignInv, NEW n, NEW v, Runs(n, v), Reconcile
    PROVE  BackupInv'
  <1>0. /\ n \in Names /\ n = run.name /\ v = run.vr /\ BackupInv
        /\ run \in [name : Names, at : Steps \ {"idle"}, vr : RequestRecords]
        /\ QueueInv
    BY RunIs DEF CampaignInv, Runs
  <1>1. run' = Idle => ~ run'.vr.stsDeleted /\ run'.at # "delete"
    BY GoneIs DEF Idle
  <1>2. v.stsDeleted \/ run.at = "delete" => backup[n] # NoBackup
    BY <1>0 DEF BackupInv
  <1>3. ASSUME SameVersions, UNCHANGED backup,
               run' = Idle \/ (run'.name = n /\ run'.vr = v /\ run'.at # "delete")
        PROVE  BackupInv'
    BY <1>0, <1>1, <1>2, <1>3 DEF SameVersions, BackupInv, BackupFits, Exists
  <1>4. CASE run.at = "backup"
    <2>1. /\ \A m \in Names \ {n} : backup'[m] = backup[m]
          /\ backup'[n] = IF sts[v.set].up /\ backup[n] = NoBackup
                          THEN SpecOf(v.set) ELSE backup[n]
          /\ Goes(IF sts[v.set].up THEN "delete" ELSE "stop")
      BY <1>0, <1>4, ActionIs, BackupIs DEF Runs
    <2>2. run'.name = n /\ run'.vr = v /\ (sts[v.set].up <=> run'.at = "delete")
      BY <1>0, <2>1 DEF Goes
    <2>3. v.set \in Sets /\ SpecOf(v.set).set = v.set /\ NoBackup.set = NoSet
      BY DEF Runs, SpecOf, NoBackup
    <2>4. SpecOf(v.set) # NoBackup
      BY <2>3, RequestsAssumption
    <2>5. Stored(n).incarnation = 1 /\ Stored(n).set = v.set
      BY <1>4, HeldIs, RunVersion DEF Migrating, BeforeSwap, Alike
    <2>6. BackupFits(n)'
      BY <1>0, <2>1, <2>3, <2>4, <2>5 DEF BackupInv, BackupFits, Goes, SameVersions, Exists
    <2>7. \A m \in Names \ {n} : BackupFits(m)'
      BY <1>0, <2>1 DEF BackupInv, BackupFits, Goes, SameVersions, Exists
    <2>8. run'.vr.stsDeleted \/ run'.at = "delete" => backup'[n] # NoBackup
      BY <1>2, <2>1, <2>2, <2>4
    <2> QED
      BY <2>2, <2>6, <2>7, <2>8 DEF BackupInv
  <1>5. CASE run.at # "backup"
    <2>0. UNCHANGED backup
      BY <1>0, <1>5, FrameIs
    <2>1. CASE Rests(n)
      BY <1>3, <2>0, <2>1 DEF Rests, Idles
    <2>2. ASSUME NEW at, GoesOn(v, at), Goes(at) PROVE BackupInv'
      <3>1. run'.name = n /\ run'.vr = v /\ run'.at # "delete"
        BY <1>0, <1>5, <2>2 DEF GoesOn, Goes
      <3> QED
        BY <1>3, <2>0, <2>2, <3>1 DEF Goes
    <2>3. ASSUME NEW w, NEW at, WrittenBy(v, w, at), Writes(n, w, at) PROVE BackupInv'
      <3>1. /\ w.incarnation = 1
            /\ w.stsDeleted => backup[n] # NoBackup
            /\ w.phase # "Gone" => w.set = v.set
            /\ at \in {"idle", "stop", "recreate", "check"}
        BY <1>2, <2>3, WrittenKeeps
      <3>2. /\ Stored(n) = v /\ Cached(n) = v /\ Stored(n)' = w /\ Cached(n)' = v
            /\ Elsewhere(n)
            /\ run' = IF at = "idle" THEN Idle ELSE [run EXCEPT !.at = at, !.vr = w]
        BY <1>0, <2>3 DEF Writes
      <3>3. run' = Idle \/ (run'.name = n /\ run'.vr = w /\ run'.at # "delete")
        BY <1>0, <3>1, <3>2
      <3>4. v.phase # "Gone"
        BY DEF Runs
      <3>5. BackupFits(n)'
        BY <1>0, <2>0, <3>1, <3>2, <3>4 DEF BackupInv, BackupFits, Exists
      <3>6. \A m \in Names \ {n} : BackupFits(m)'
        BY <1>0, <2>0, <3>2 DEF BackupInv, BackupFits, Elsewhere, Exists
      <3>7. run'.vr.stsDeleted \/ run'.at = "delete" => backup'[run'.name] # NoBackup
        BY <1>1, <2>0, <3>1, <3>3
      <3> QED
        BY <3>5, <3>6, <3>7 DEF BackupInv
    <2> QED
      BY <2>1, <2>2, <2>3, RunShape
  <1> QED
    BY <1>4, <1>5

LEMMA BackupStep ==
    ASSUME TidyUse, CampaignInv, [Next]_vars
    PROVE  BackupInv'
  <1>0. QueueInv /\ BackupInv
    BY DEF CampaignInv
  <1>1. ASSUME SameVersions, UNCHANGED <<backup, run>> PROVE BackupInv'
    BY <1>0, <1>1 DEF BackupInv, BackupFits, SameVersions, Exists
  <1>2. ASSUME NEW n \in Names, Elsewhere(n), UNCHANGED <<backup, run>>, BackupFits(n)'
        PROVE  BackupInv'
    <2>1. \A m \in Names \ {n} : BackupFits(m)'
      BY <1>0, <1>2 DEF BackupInv, BackupFits, Elsewhere, Exists
    <2>2. run'.vr.stsDeleted \/ run'.at = "delete" => backup'[run'.name] # NoBackup
      BY <1>0, <1>2 DEF BackupInv
    <2> QED
      BY <1>2, <2>1, <2>2 DEF BackupInv
  <1>3. CASE Begin
    <2>1. SameVersions /\ UNCHANGED backup
      BY <1>0, <1>3, BeginIs DEF clusterVars
    <2>2. \A m \in Names : BackupFits(m)'
      BY <1>0, <2>1 DEF BackupInv, BackupFits, SameVersions, Exists
    <2>3. CASE run' = Idle
      <3>1. ~ run'.vr.stsDeleted /\ run'.at # "delete"
        BY <2>3, GoneIs DEF Idle
      <3> QED
        BY <2>2, <3>1 DEF BackupInv
    <2>4. CASE run' # Idle
      <3>1. PICK n \in Names :
              /\ run' = [name |-> n, at |-> Route(Cached(n)), vr |-> Cached(n)]
              /\ Route(Cached(n)) # "idle"
        BY <1>0, <1>3, <2>4, BeginIs
      <3>2. PICK c : c = Cached(n)
        OBVIOUS
      <3>3. c \in RequestRecords /\ VersionFits(c)
        BY <3>2, StoredOK DEF CampaignInv, QueueInv, VersionOK, VersionsInv
      <3>4. Route(c) # "delete"
        BY <3>1, <3>2, <3>3, RouteIs
      <3>5. run'.name = n /\ run'.vr = c /\ run'.at # "delete"
        BY <3>1, <3>2, <3>4
      <3>6. c.stsDeleted => backup'[n] # NoBackup
        BY <1>0, <2>1, <3>2 DEF BackupInv, BackupFits
      <3> QED
        BY <2>2, <3>5, <3>6 DEF BackupInv
    <2> QED
      BY <2>3, <2>4
  <1>4. ASSUME NEW n, NEW v, Runs(n, v), Reconcile PROVE BackupInv'
    BY <1>4, BackupRun
  <1>5. ASSUME NEW n \in Names, Informer(n) PROVE BackupInv'
    <2>1. /\ Stored(n)' = Stored(n) /\ Cached(n)' = Stored(n) /\ Elsewhere(n)
          /\ UNCHANGED <<backup, run>>
      BY <1>0, <1>5, InformerIs DEF clusterVars
    <2>2. BackupFits(n)'
      BY <1>0, <2>1 DEF BackupInv, BackupFits, Exists
    <2> QED
      BY <1>2, <2>1, <2>2
  <1>6. CASE ClusterStep \/ \E s \in Sets : Edit(s) \/ Restore(s)
    <2>1. Rest /\ UNCHANGED backup
      BY <1>0, <1>6, ClusterStepOK, EditStep
      DEF ClusterStep, StartPod, PodEnds, PrunePod, TempGoes, MigStarts, MigEnds,
          MigFails, MigGoes, Edit, Restore
    <2> QED
      BY <1>1, <2>1, RestIs
  <1>7. CASE Calm /\ SameVersions
    BY <1>1, <1>7 DEF Calm, clusterVars
  <1>8. ASSUME Calm, NEW t \in Terminals, NEW n \in Names, Creates(t, n) PROVE BackupInv'
    <2>1. backup[n] = NoBackup /\ UNCHANGED <<backup, run>>
      BY <1>0, <1>8, GoneIs DEF BackupInv, BackupFits, Creates, Calm, clusterVars
    <2>2. BackupFits(n)'
      BY <1>8, <2>1, NewIs, GoneIs DEF BackupFits, Creates
    <2> QED
      BY <1>2, <1>8, <2>1, <2>2 DEF Creates
  <1>9. ASSUME Calm, NEW n \in Names, Deletes(n) PROVE BackupInv'
    <2>1. PICK v \in RequestRecords : v = Stored(n)
      BY <1>0, StoredOK DEF QueueInv, VersionOK
    <2>2. /\ Stored(n)' = Marked(v) \/ Stored(n)' = GoneAfter(1)
          /\ Cached(n)' = v /\ UNCHANGED <<backup, run>> /\ Exists(n)
      BY <1>9, <2>1 DEF Deletes, Calm, clusterVars
    <2>3. BackupFits(n)'
      BY <1>0, <2>1, <2>2, MarkedIs, GoneIs DEF BackupInv, BackupFits, Exists, Alike
    <2> QED
      BY <1>2, <1>9, <2>2, <2>3 DEF Deletes
  <1> QED
    BY <1>3, <1>4, <1>5, <1>6, <1>7, <1>8, <1>9, StepIs

-----------------------------------------------------------------------------
(* What a run that starts from the cache finds stored. *)

BadStays(m) == mig[m].st = "bad" /\ ~ mig[m].dying
                  => mig'[m].st = "bad" /\ ~ mig'[m].dying

(* The cluster leaves a migrator that failed as it is. *)
LEMMA ClusterBad ==
    ASSUME QueueInv, ClusterStep \/ (\E s \in Sets : Edit(s) \/ Restore(s)), NEW k \in Movers
    PROVE  BadStays(k)
  <1>0. mig \in [Movers -> [set : Sets \cup {NoSet}, dying : BOOLEAN,
                  st : {"absent", "pending", "running", "ok", "bad"}]]
    BY DEF QueueInv, ClusterOK, PodsOK
  <1>1. CASE UNCHANGED mig
    BY <1>1 DEF BadStays
  <1>2. ASSUME NEW m \in Movers, MigStarts(m) \/ MigEnds(m) \/ MigFails(m) \/ MigGoes(m)
        PROVE  BadStays(k)
    <2>1. CASE m # k
      <3>1. mig'[k] = mig[k]
        BY <1>0, <1>2, <2>1 DEF MigStarts, MigEnds, MigFails, MigGoes
      <3> QED
        BY <3>1 DEF BadStays
    <2>2. CASE m = k
      <3>1. mig[k].st # "bad" \/ mig[k].dying
        BY <1>2, <2>2 DEF MigStarts, MigEnds, MigFails, MigGoes
      <3> QED
        BY <3>1 DEF BadStays
    <2> QED
      BY <2>1, <2>2
  <1> QED
    BY <1>1, <1>2
    DEF ClusterStep, StartPod, PodEnds, PrunePod, TempGoes, Edit, Restore

(* A run leaves the migrators of the others alone, and one of its own that failed
   unless it deletes. *)
LEMMA RunMovers ==
    ASSUME TidyUse, QueueInv, NEW n, NEW v, Runs(n, v), Reconcile, NEW k \in Movers
    PROVE  /\ k[1] # n => mig'[k] = mig[k]
           /\ run.at # "deletion" \/ k[1] # n => BadStays(k)
  <1>0. run.at # "idle"
    BY DEF Runs
  <1>1. PICK m \in Movers : m = <<n, v.cur>>
    BY CurIs
  <1>2. NoMover.st = "absent"
    BY DEF NoMover
  <1>3. CASE run.at = "await"
    <2>1. /\ \A j \in Movers \ {m} : mig'[j] = mig[j]
          /\ mig[m] # NoMover => mig'[m] = mig[m]
      BY <1>0, <1>1, <1>3, ActionIs, AwaitIs
    <2> QED
      BY <1>1, <1>2, <2>1 DEF BadStays
  <1>4. CASE run.at = "copy"
    <2>1. \/ UNCHANGED mig
          \/ mig[m].st \in {"absent", "ok"} /\ \A j \in Movers \ {m} : mig'[j] = mig[j]
      BY <1>0, <1>1, <1>4, ActionIs, CopyIs
    <2> QED
      BY <1>1, <2>1 DEF BadStays
  <1>5. CASE run.at = "deletion"
    <2>1. k[1] # n => mig'[k] = mig[k]
      BY <1>0, <1>5, ActionIs, DeletionIs
    <2> QED
      BY <1>5, <2>1 DEF BadStays
  <1>6. CASE run.at \notin {"await", "copy", "deletion"}
    BY <1>6, FrameIs DEF BadStays
  <1> QED
    BY <1>3, <1>4, <1>5, <1>6

LEMMA CacheKept ==
    ASSUME QueueInv, NEW k \in Names, CacheFits(k),
           Stored(k)' = Stored(k), Cached(k)' = Cached(k),
           \A m \in Movers : m[1] = k => BadStays(m),
           ToPrepare(Cached(k)) /\ sts[Cached(k).set].up => sts'[Cached(k).set].up,
           run.name = k /\ run.at \in Holding =>
              run'.name = k /\ run'.at \in Holding /\ run'.vr = run.vr
    PROVE  CacheFits(k)'
  <1>1. PICK c \in RequestRecords : c = Cached(k)
    BY StoredOK DEF QueueInv, VersionOK
  <1>2. PICK m \in Movers : m = <<k, c.cur>> /\ m[1] = k
    <2>1. c.cur \in Ordinals
      BY DEF RequestRecords
    <2>2. <<k, c.cur>> \in Movers
      BY <2>1 DEF Movers
    <2> QED
      BY <2>2
  <1>3. Bad(c, k) => Bad(c, k)'
    BY <1>2 DEF Bad, BadStays
  <1>4. ToPrepare(c) => (~ Away(c) => ~ Away(c)')
    BY <1>1 DEF Away
  <1>5. (Fresh(c, k) => Fresh(c, k)') /\ (FailedSince(c, k) => FailedSince(c, k)')
    BY DEF Fresh, FailedSince
  <1>6. ToPrepare(c) =>
          \/ Fresh(c, k) /\ (c.stsDeleted \/ ~ Away(c))
          \/ FailedSince(c, k) /\ (Bad(c, k) \/ Bare(c))
          \/ run.name = k /\ run.at \in Holding /\ Stored(k) = run.vr
    BY <1>1 DEF CacheFits
  <1>7. ToPrepare(c) =>
          \/ Fresh(c, k)' /\ (c.stsDeleted \/ ~ Away(c)')
          \/ FailedSince(c, k)' /\ (Bad(c, k)' \/ Bare(c)')
          \/ run'.name = k /\ run'.at \in Holding /\ Stored(k)' = run'.vr
    BY <1>3, <1>4, <1>5, <1>6 DEF Bare
  <1>8. c.deleting => Stored(k)' \in {c, GoneAfter(1)}
    BY <1>1 DEF CacheFits
  <1>9. Cached(k)' = c
    BY <1>1
  <1> QED
    BY <1>7, <1>8, <1>9 DEF CacheFits, Fresh, FailedSince, Bad, Bare, Away

(* A cache that has caught up. *)
LEMMA CacheCaught ==
    ASSUME NEW k \in Names, AwayFits(k)', Cached(k)' = Stored(k)'
    PROVE  CacheFits(k)'
  <1>1. PICK c : c = Stored(k)'
    OBVIOUS
  <1>2. ToPrepare(c) => c.stsDeleted \/ ~ Away(c)'
    BY <1>1 DEF ToPrepare, AwayFits, Away
  <1> QED
    BY <1>1, <1>2 DEF CacheFits, Fresh, Away

(* A replica that fails a migration before it began has no claim yet; and a
   migrator that fails one was not told to go. *)
LEMMA FailsBad ==
    ASSUME TidyUse, CampaignInv, NEW n, NEW v, Runs(n, v), Reconcile,
           run.at \in {"prepare", "copy"}, Writes(n, Failing(v), "idle")
    PROVE  IF run.at = "copy" THEN Bad(v, n) /\ Bad(v, n)' ELSE Bare(v) /\ Bare(v)'
  <1>0. /\ v \in RequestRecords /\ n \in Names /\ v = run.vr /\ n = run.name
        /\ QueueInv /\ run.at # "idle"
        /\ run \in [name : Names, at : Steps \ {"idle"}, vr : RequestRecords]
    BY RunIs DEF CampaignInv, Runs
  <1>1. /\ Stored(n) = v /\ Cached(n) = v /\ run'.at = "idle" /\ Stored(n)' = Failing(v)
    BY <1>0 DEF Writes, Idle
  <1>2. v.phase = "Syncing" /\ ~ v.deleting /\ v.cur \notin v.done
    BY RunVersion DEF BeforeSwap
  <1>3. Stored(n)' # Stored(n)
    BY <1>0, <1>1, <1>2, FailingIs
  <1>4. CASE run.at = "prepare"
    <2>1. PICK c \in Slots : c = <<v.set, v.cur>>
      BY CurIs
    <2>2. claim[c] = NoClaim /\ UNCHANGED sts
      BY <1>0, <1>1, <1>4, <2>1, ActionIs, PrepareIs DEF Goes
    <2>3. InitReplicas < MaxReplicas
      <3>1. InitReplicas # MaxReplicas
        BY <2>1, <2>2 DEF CampaignInv, ClaimInv
      <3> QED
        BY <3>1, QueueAssumption
    <2>4. ~ v.stsDeleted
      BY <1>0, <1>1, <1>2, <2>1, <2>2 DEF CampaignInv, ClaimInv, DoneFits
    <2>5. ~ Away(v)
      BY <1>0, <1>1, <1>2, <2>4 DEF CampaignInv, AwayInv, AwayFits
    <2> QED
      BY <1>4, <2>2, <2>3, <2>4, <2>5 DEF Bare, Away
  <1>5. CASE run.at = "copy"
    <2>1. PICK m \in Movers : m = <<n, v.cur>> /\ m[1] = n /\ m[2] = v.cur
      BY CurIs
    <2>2. mig[m].st = "bad" /\ UNCHANGED mig
      BY <1>0, <1>1, <1>3, <1>5, <2>1, ActionIs, CopyIs
      DEF Goes, GivesUp, Idles, SameVersions
    <2>3. mig[m] # NoMover
      BY <2>2 DEF NoMover
    <2>4. ~ mig[m].dying
      BY <1>0, <1>1, <1>2, <1>5, <2>1, <2>3 DEF CampaignInv, MoverInv, MoverFits, Told
    <2>5. v.stsDeleted
      BY <1>0, <1>5 DEF CampaignInv, HoldsInv, Holding
    <2> QED
      BY <1>5, <2>1, <2>2, <2>4, <2>5 DEF Bad
  <1> QED
    BY <1>4, <1>5

LEMMA CacheRun ==
    ASSUME TidyUse, CampaignInv, NEW n, NEW v, Runs(n, v), Reconcile
    PROVE  CacheFits(n)'
  <1>0. /\ n \in Names /\ n = run.name /\ v = run.vr /\ v \in RequestRecords
        /\ CacheFits(n) /\ QueueInv /\ run.at # "idle" /\ v.phase # "Gone"
        /\ run \in [name : Names, at : Steps \ {"idle"}, vr : RequestRecords]
    BY RunIs DEF CampaignInv, CacheInv, Runs
  <1>1. AwayFits(n)'
    BY AwayRun
  <1>2. ASSUME SameVersions, run.at \notin {"delete", "recreate", "deletion"},
               run.at \in Holding =>
                  run'.name = n /\ run'.at \in Holding /\ run'.vr = run.vr
        PROVE  CacheFits(n)'
    <2>1. UNCHANGED sts
      BY <1>0, <1>2, FrameIs
    <2>2. \A m \in Movers : m[1] = n => BadStays(m)
      BY <1>0, <1>2, RunMovers
    <2>3. Stored(n)' = Stored(n) /\ Cached(n)' = Cached(n)
      BY <1>0, <1>2 DEF SameVersions
    <2> QED
      BY <1>0, <1>2, <2>1, <2>2, <2>3, CacheKept
  <1>3. CASE Rests(n)
    <2>1. CASE run.at = "check"
      BY <1>2, <1>3, <2>1 DEF Rests, Idles, Holding
    <2>2. CASE run.at # "check"
      <3>1. Cached(n)' = Stored(n)'
        BY <1>0, <1>3, <2>2 DEF Rests, GivesUp, Idles, SameVersions
      <3> QED
        BY <1>0, <1>1, <3>1, CacheCaught
    <2> QED
      BY <2>1, <2>2
  <1>4. ASSUME NEW at, GoesOn(v, at), Goes(at) PROVE CacheFits(n)'
    <2>1. /\ run.at \notin {"delete", "recreate", "deletion"}
          /\ run.at \in Holding => at \in Holding
      BY <1>4 DEF GoesOn, Holding
    <2>2. run'.name = n /\ run'.at = at /\ run'.vr = run.vr /\ SameVersions
      BY <1>0, <1>4 DEF Goes
    <2> QED
      BY <1>2, <2>1, <2>2
  <1>5. ASSUME NEW w, NEW at, WrittenBy(v, w, at), Writes(n, w, at) PROVE CacheFits(n)'
    <2>1. /\ Stored(n) = v /\ Cached(n) = v /\ Stored(n)' = w /\ Cached(n)' = v
          /\ run' = IF at = "idle" THEN Idle ELSE [run EXCEPT !.at = at, !.vr = w]
      BY <1>0, <1>5 DEF Writes
    <2>2. v.deleting => w = GoneAfter(1)
      BY <1>5, WrittenIsProgress, RunVersion
    <2>3. SUFFICES ASSUME ToPrepare(v)
                   PROVE  \/ FailedSince(v, n)' /\ (Bad(v, n)' \/ Bare(v)')
                          \/ run'.name = n /\ run'.at \in Holding /\ Stored(n)' = run'.vr
      BY <2>1, <2>2 DEF CacheFits, FailedSince, Bad, Bare, Away
    <2>4. run.at \in BeforeSwap
      BY <2>3, RunVersion DEF ToPrepare
    <2>5. CASE run.at \in {"prepare", "copy"}
      <3>1. w = Failing(v) /\ at = "idle"
        BY <1>5, <2>5 DEF WrittenBy
      <3>2. Bad(v, n)' \/ Bare(v)'
        BY <1>5, <2>5, <3>1, FailsBad
      <3> QED
        BY <2>1, <3>1, <3>2 DEF FailedSince
    <2>6. CASE run.at \notin {"prepare", "copy"}
      <3>1. at \in {"stop", "recreate"}
        BY <1>5, <2>4, <2>6 DEF WrittenBy, BeforeSwap
      <3>2. run'.name = n /\ run'.at = at /\ run'.vr = w
        BY <1>0, <2>1, <3>1
      <3> QED
        BY <2>1, <3>1, <3>2 DEF Holding
    <2> QED
      BY <2>5, <2>6
  <1> QED
    BY <1>3, <1>4, <1>5, RunShape

LEMMA CacheOther ==
    ASSUME TidyUse, CampaignInv, NEW n, NEW v, Runs(n, v), Reconcile,
           NEW k \in Names \ {n}
    PROVE  CacheFits(k)'
  <1>0. k # run.name /\ QueueInv /\ CacheFits(k)
    BY DEF CampaignInv, CacheInv, Runs
  <1>1. Stored(k)' = Stored(k) /\ Cached(k)' = Cached(k)
    BY RunShape DEF Rests, Idles, Goes, SameVersions, Writes, Elsewhere
  <1>2. \A m \in Movers : m[1] = k => BadStays(m)
    BY <1>0, RunMovers
  <1>3. ASSUME ToPrepare(Cached(k)) PROVE sts'[Cached(k).set] = sts[Cached(k).set]
    <2>1. Cached(k).set \in Sets
      BY <1>0, <1>3, StoredOK DEF QueueInv, VersionOK, ToPrepare
    <2>2. run.at \in {"delete", "recreate"} => Cached(k).set # v.set
      BY <1>3, OwnSet DEF Migrating, BeforeSwap
    <2> QED
      BY <2>1, <2>2, StsIs
  <1> QED
    BY <1>0, <1>1, <1>2, <1>3, CacheKept

LEMMA CacheStep ==
    ASSUME TidyUse, CampaignInv, [Next]_vars
    PROVE  CacheInv'
  <1>0. QueueInv /\ CacheInv
    BY DEF CampaignInv
  <1>1. ASSUME NEW k \in Names, Stored(k)' = Stored(k), Cached(k)' = Cached(k),
               \A m \in Movers : BadStays(m),
               \A s \in Sets : sts[s].up => sts'[s].up,
               UNCHANGED run \/ run.at \notin Holding
        PROVE  CacheFits(k)'
    <2>1. CacheFits(k) /\ (ToPrepare(Cached(k)) => Cached(k).set \in Sets)
      BY <1>0, StoredOK DEF CacheInv, QueueInv, VersionOK, ToPrepare
    <2> QED
      BY <1>0, <1>1, <2>1, CacheKept
  <1>2. ASSUME UNCHANGED clusterVars
        PROVE  /\ \A m \in Movers : BadStays(m)
               /\ \A s \in Sets : sts[s].up => sts'[s].up
    BY <1>2 DEF clusterVars, BadStays
  <1>3. CASE Begin
    <2>1. run.at \notin Holding /\ SameVersions /\ UNCHANGED clusterVars
      BY <1>0, <1>3, BeginIs DEF Idle, Holding
    <2> QED
      BY <1>1, <1>2, <2>1 DEF CacheInv, SameVersions
  <1>4. ASSUME NEW n, NEW v, Runs(n, v), Reconcile PROVE CacheInv'
    BY <1>4, CacheRun, CacheOther DEF CacheInv
  <1>5. ASSUME NEW n \in Names, Informer(n) PROVE CacheInv'
    <2>1. /\ Stored(n)' = Stored(n) /\ Cached(n)' = Stored(n) /\ Elsewhere(n)
          /\ UNCHANGED run /\ UNCHANGED clusterVars
      BY <1>0, <1>5, InformerIs
    <2>2. CacheFits(n)'
      BY <2>1, AwayStep, CacheCaught DEF AwayInv
    <2>3. \A k \in Names \ {n} : CacheFits(k)'
      BY <1>1, <1>2, <2>1 DEF Elsewhere
    <2> QED
      BY <2>2, <2>3 DEF CacheInv
  <1>6. CASE ClusterStep \/ \E s \in Sets : Edit(s) \/ Restore(s)
    <2>1. Rest
      BY <1>0, <1>6, ClusterStepOK, EditStep
    <2>2. \A m \in Movers : BadStays(m)
      BY <1>0, <1>6, ClusterBad
    <2>3. \A s \in Sets : sts[s].up => sts'[s].up
      <3>1. CASE ClusterStep
        BY <3>1 DEF ClusterStep, StartPod, PodEnds, PrunePod, TempGoes, MigStarts,
                    MigEnds, MigFails, MigGoes
      <3>2. ASSUME NEW s \in Sets, Edit(s) \/ Restore(s)
            PROVE  \A x \in Sets : sts[x].up => sts'[x].up
        <4>1. CASE Edit(s)
          BY <1>0, <4>1 DEF Edit, QueueInv, ClusterOK, StsOK
        <4>2. CASE Restore(s)
          BY <1>0, <4>2 DEF Restore, QueueInv, ClusterOK, StsOK
        <4> QED
          BY <3>2, <4>1, <4>2
      <3> QED
        BY <1>6, <3>1, <3>2
    <2> QED
      BY <1>1, <2>1, <2>2, <2>3, RestIs DEF CacheInv, SameVersions
  <1>7. CASE Calm /\ SameVersions
    BY <1>1, <1>2, <1>7 DEF Calm, SameVersions, CacheInv
  <1>8. ASSUME Calm, NEW n \in Names, Elsewhere(n), CacheFits(n)' PROVE CacheInv'
    <2>1. \A k \in Names \ {n} : CacheFits(k)'
      BY <1>1, <1>2, <1>8 DEF Calm, Elsewhere
    <2> QED
      BY <1>8, <2>1 DEF CacheInv
  <1>9. ASSUME Calm, NEW t \in Terminals, NEW n \in Names, Creates(t, n) PROVE CacheInv'
    <2>1. Cached(n)' = GoneAfter(0) /\ Elsewhere(n)
      BY <1>9 DEF Creates
    <2>2. CacheFits(n)'
      BY <2>1, GoneIs DEF CacheFits, ToPrepare
    <2> QED
      BY <1>8, <1>9, <2>1, <2>2
  <1>10. ASSUME Calm, NEW n \in Names, Deletes(n) PROVE CacheInv'
    <2>1. PICK v \in RequestRecords : v = Stored(n) /\ VersionFits(v) /\ AwayFits(n)
      BY <1>0, StoredOK DEF QueueInv, VersionOK, CampaignInv, VersionsInv, AwayInv
    <2>2. /\ Cached(n)' = v /\ UNCHANGED clusterVars /\ v.phase # "Gone" /\ Elsewhere(n)
          /\ Stored(n)' = IF v.finalizer THEN Marked(v) ELSE GoneAfter(1)
      BY <1>10, <2>1 DEF Deletes, Calm, Exists
    <2>3. ToPrepare(v) => Fresh(v, n)' /\ (v.stsDeleted \/ ~ Away(v)')
      BY <2>1, <2>2 DEF ToPrepare, VersionFits, AwayFits, Away, Fresh, clusterVars
    <2>4. v.deleting => Stored(n)' = v
      BY <2>1, <2>2, MarkedIs DEF VersionFits
    <2>5. CacheFits(n)'
      BY <2>2, <2>3, <2>4 DEF CacheFits, Fresh, Away
    <2> QED
      BY <1>8, <1>10, <2>2, <2>5
  <1> QED
    BY <1>3, <1>4, <1>5, <1>6, <1>7, <1>9, <1>10, StepIs

-----------------------------------------------------------------------------
(* What a run knows of what is stored, and of its StatefulSet. *)

LEMMA HoldsFrom ==
    ASSUME NEW n, NEW v, NEW at, run'.name = n, run'.vr = v, run'.at = at,
           at \in BeforeSwap =>
              \/ Fresh(v, n)'
              \/ FailedSince(v, n)' /\ Bad(v, n)' /\ at \in {"prepare", "stop", "await", "copy"}
              \/ FailedSince(v, n)' /\ Bare(v)' /\ at \in {"prepare", "backup", "delete"},
           at \in {"recreate", "check"} => Fresh(v, n)',
           at \in Holding => v.stsDeleted,
           at \in {"backup", "delete", "check"} => ~ v.stsDeleted,
           at \in {"prepare", "backup", "delete"} /\ ~ v.stsDeleted => ~ Away(v)',
           at = "recreate" => Away(v)',
           at = "deletion" => /\ Stored(n)' \in {v, GoneAfter(1)}
                              /\ Cached(n)' \in {v, GoneAfter(1)}
    PROVE  HoldsInv'
  BY DEF HoldsInv, SyncFits, Fresh, FailedSince, Bad, Bare, Away, Stored, Cached

LEMMA HoldsIdle == ASSUME run' = Idle PROVE HoldsInv'
  BY DEF HoldsInv, Idle, BeforeSwap, Holding

(* The same in terms of a run that is under way. *)
LEMMA HoldsNow ==
    ASSUME CampaignInv, NEW n, NEW v, Runs(n, v)
    PROVE  /\ run.at \in BeforeSwap =>
                \/ Fresh(v, n)
                \/ FailedSince(v, n) /\ Bad(v, n)
                     /\ run.at \in {"prepare", "stop", "await", "copy"}
                \/ FailedSince(v, n) /\ Bare(v) /\ run.at \in {"prepare", "backup", "delete"}
           /\ run.at \in {"recreate", "check"} => Fresh(v, n)
           /\ run.at \in Holding => v.stsDeleted
           /\ run.at \in {"backup", "delete", "check"} => ~ v.stsDeleted
           /\ run.at \in {"prepare", "backup", "delete"} /\ ~ v.stsDeleted => ~ Away(v)
           /\ run.at = "recreate" => Away(v)
           /\ run.at = "deletion" => /\ Stored(n) \in {v, GoneAfter(1)}
                                     /\ Cached(n) \in {v, GoneAfter(1)}
  BY DEF CampaignInv, HoldsInv, SyncFits, Runs

(* A step other than one of the run. *)
LEMMA HoldsKept ==
    ASSUME CampaignInv, UNCHANGED run,
           NEW n, NEW v, Runs(n, v),
           run.at \in Migrating => /\ Fresh(v, n) => Fresh(v, n)'
                                   /\ FailedSince(v, n) => FailedSince(v, n)',
           \A m \in Movers : BadStays(m),
           \A s \in Sets : sts[s].up => sts'[s].up,
           run.at = "recreate" => (Away(v) => Away(v)'),
           run.at = "deletion" => /\ Stored(n)' \in {v, GoneAfter(1)}
                                  /\ Cached(n)' \in {v, GoneAfter(1)}
    PROVE  HoldsInv'
  <1>1. run'.name = n /\ run'.vr = v /\ run'.at = run.at /\ v.set \in Sets
    BY DEF Runs
  <1>2. Bad(v, n) => Bad(v, n)'
    BY CurIs DEF Bad, BadStays
  <1>3. (~ Away(v) => ~ Away(v)') /\ (Bare(v) => Bare(v)')
    BY <1>1 DEF Away, Bare
  <1>4. run.at \in BeforeSwap =>
              \/ Fresh(v, n)'
              \/ FailedSince(v, n)' /\ Bad(v, n)'
                   /\ run.at \in {"prepare", "stop", "await", "copy"}
              \/ FailedSince(v, n)' /\ Bare(v)' /\ run.at \in {"prepare", "backup", "delete"}
    BY <1>2, <1>3, HoldsNow DEF Migrating
  <1>5. run.at \in {"recreate", "check"} => Fresh(v, n)'
    BY HoldsNow DEF Migrating
  <1>6. /\ run.at \in Holding => v.stsDeleted
        /\ run.at \in {"backup", "delete", "check"} => ~ v.stsDeleted
        /\ run.at \in {"prepare", "backup", "delete"} /\ ~ v.stsDeleted => ~ Away(v)'
        /\ run.at = "recreate" => Away(v)'
    BY <1>3, HoldsNow
  <1> QED
    BY <1>1, <1>4, <1>5, <1>6, HoldsFrom

LEMMA HoldsBegin ==
    ASSUME CampaignInv, Begin
    PROVE  HoldsInv'
  <1>0. QueueInv
    BY DEF CampaignInv
  <1>1. CASE run' = Idle
    BY <1>1, HoldsIdle
  <1>2. CASE run' # Idle
    <2>1. PICK n \in Names :
            /\ run' = [name |-> n, at |-> Route(Cached(n)), vr |-> Cached(n)]
            /\ Route(Cached(n)) # "idle"
      BY <1>0, <1>2, BeginIs
    <2>2. PICK v \in RequestRecords : v = Cached(n) /\ VersionFits(v)
      BY <1>0, StoredOK DEF QueueInv, VersionOK, CampaignInv, VersionsInv
    <2>3. PICK at : at = Route(v)
      OBVIOUS
    <2>4. run'.name = n /\ run'.vr = v /\ run'.at = at
      BY <2>1, <2>2, <2>3
    <2>5. run = Idle /\ SameVersions /\ UNCHANGED <<sts, mig>>
      BY <1>0, BeginIs DEF clusterVars
    <2>6. /\ at \in {"deletion", "finalizer", "pending", "validating", "advance", "prepare"}
          /\ at = "prepare" => ToPrepare(v)
          /\ at = "deletion" => v.deleting
      BY <2>1, <2>2, <2>3, RouteIs
    <2>7. CacheFits(n) /\ run.at \notin Holding
      BY <2>5 DEF CampaignInv, CacheInv, Idle, Holding
    <2>8. /\ Fresh(v, n) => Fresh(v, n)'
          /\ FailedSince(v, n) => FailedSince(v, n)'
          /\ Bad(v, n) => Bad(v, n)'
          /\ Away(v) <=> Away(v)'
          /\ Bare(v) => Bare(v)'
      BY <2>5 DEF SameVersions, Fresh, FailedSince, Bad, Away, Bare
    <2>9. at = "prepare" =>
             \/ Fresh(v, n)' /\ (v.stsDeleted \/ ~ Away(v)')
             \/ FailedSince(v, n)' /\ Bad(v, n)' /\ v.stsDeleted
             \/ FailedSince(v, n)' /\ Bare(v)' /\ ~ Away(v)'
      BY <2>2, <2>6, <2>7, <2>8 DEF CacheFits, Bad, Bare
    <2>10. at = "deletion" => /\ Stored(n)' \in {v, GoneAfter(1)}
                              /\ Cached(n)' \in {v, GoneAfter(1)}
      BY <2>2, <2>5, <2>6, <2>7 DEF CacheFits, SameVersions
    <2> QED
      BY <2>4, <2>6, <2>9, <2>10, HoldsFrom DEF BeforeSwap, Holding
  <1> QED
    BY <1>1, <1>2

LEMMA HoldsRun ==
    ASSUME TidyUse, CampaignInv, NEW n, NEW v, Runs(n, v), Reconcile
    PROVE  HoldsInv'
  <1>0. /\ n \in Names /\ n = run.name /\ v = run.vr /\ v \in RequestRecords
        /\ QueueInv /\ run.at # "idle" /\ v.set \in Sets
        /\ run \in [name : Names, at : Steps \ {"idle"}, vr : RequestRecords]
    BY RunIs DEF CampaignInv, Runs
  <1>1. CASE Rests(n)
    BY <1>1, HoldsIdle DEF Rests, Idles
  <1>2. ASSUME NEW at, GoesOn(v, at), Goes(at) PROVE HoldsInv'
    <2>1. run'.name = n /\ run'.at = at /\ run'.vr = v /\ SameVersions /\ at # "idle"
      BY <1>0, <1>2 DEF Goes, GoesOn
    <2>2. UNCHANGED sts /\ run.at \in BeforeSwap
      BY <1>0, <1>2, FrameIs DEF GoesOn, BeforeSwap
    <2>3. /\ Fresh(v, n) => Fresh(v, n)'
          /\ FailedSince(v, n) => FailedSince(v, n)'
          /\ Away(v) <=> Away(v)'
          /\ Bare(v) => Bare(v)'
      BY <1>0, <2>1, <2>2 DEF SameVersions, Fresh, FailedSince, Away, Bare
    <2>4. Bad(v, n) => Bad(v, n)' /\ v.stsDeleted /\ at # "swap"
      <3>1. PICK m \in Movers : m = <<n, v.cur>>
        BY CurIs
      <3>2. BadStays(m)
        BY <1>0, <2>2, RunMovers DEF BeforeSwap
      <3>3. at = "swap" => run.at = "copy" /\ run'.at # Idle.at
        BY <1>2, <2>1 DEF GoesOn, Idle
      <3>4. at = "swap" => mig[m].st \in {"absent", "ok"}
        BY <1>0, <3>1, <3>3, ActionIs, CopyIs
        DEF GivesUp, Idles, Saves, Refuses, Writes
      <3> QED
        BY <3>1, <3>2, <3>4 DEF Bad, BadStays
    <2>5. run.at = "backup" => sts[v.set].up /\ at = "delete"
      BY <1>2, HoldsNow DEF GoesOn, Away
    <2>6. at \in BeforeSwap =>
              \/ Fresh(v, n)'
              \/ FailedSince(v, n)' /\ Bad(v, n)' /\ at \in {"prepare", "stop", "await", "copy"}
              \/ FailedSince(v, n)' /\ Bare(v)' /\ at \in {"prepare", "backup", "delete"}
      <3>1. CASE Fresh(v, n)
        BY <2>3, <3>1
      <3>2. CASE FailedSince(v, n) /\ Bad(v, n)
        BY <1>2, <2>3, <2>4, <3>2, HoldsNow DEF GoesOn
      <3>3. CASE FailedSince(v, n) /\ Bare(v) /\ run.at \in {"prepare", "backup", "delete"}
        BY <1>2, <2>3, <2>5, <3>3 DEF GoesOn, Bare
      <3> QED
        BY <2>2, <3>1, <3>2, <3>3, HoldsNow
    <2>7. /\ at \in Holding => v.stsDeleted
          /\ at \in {"backup", "delete", "check"} => ~ v.stsDeleted
          /\ at \in {"prepare", "backup", "delete"} /\ ~ v.stsDeleted => ~ Away(v)'
          /\ at \notin {"recreate", "check", "deletion"}
      BY <1>2, <2>3, <2>5, HoldsNow DEF GoesOn, Holding
    <2> QED
      BY <2>1, <2>6, <2>7, HoldsFrom
  <1>3. ASSUME NEW w, NEW at, WrittenBy(v, w, at), Writes(n, w, at) PROVE HoldsInv'
    <2>1. /\ Stored(n) = v /\ Stored(n)' = w
          /\ run' = IF at = "idle" THEN Idle ELSE [run EXCEPT !.at = at, !.vr = w]
      BY <1>0, <1>3 DEF Writes
    <2>2. CASE at = "idle"
      BY <2>1, <2>2, HoldsIdle
    <2>3. CASE at # "idle"
      <3>1. run'.name = n /\ run'.at = at /\ run'.vr = w /\ Fresh(w, n)'
        BY <1>0, <2>1, <2>3 DEF Fresh
      <3>2. \/ at = "stop" /\ w.stsDeleted
            \/ at = "recreate" /\ w.stsDeleted /\ Away(w)'
            \/ at = "check" /\ ~ w.stsDeleted
        <4>1. CASE run.at = "delete"
          BY <1>0, <1>3, <4>1, WrittenIs DEF WrittenBy
        <4>2. CASE run.at = "swap"
          <5>1. w = Swapped(v) /\ at = "recreate" /\ UNCHANGED sts
            BY <1>0, <1>3, <4>2, FrameIs DEF WrittenBy
          <5>2. v.stsDeleted /\ v.phase = "Syncing" /\ v.cur \notin v.done
            BY <4>2, HoldsNow, RunVersion DEF Holding, BeforeSwap
          <5>3. Away(v)
            BY <1>0, <2>1, <5>2 DEF CampaignInv, AwayInv, AwayFits
          <5> QED
            BY <1>0, <5>1, <5>2, <5>3, WrittenIs DEF Away
        <4>3. CASE run.at = "recreate"
          BY <1>0, <1>3, <4>3, WrittenIs DEF WrittenBy
        <4> QED
          BY <1>3, <2>3, <4>1, <4>2, <4>3 DEF WrittenBy
      <3> QED
        BY <3>1, <3>2, HoldsFrom DEF Holding
    <2> QED
      BY <2>2, <2>3
  <1> QED
    BY <1>1, <1>2, <1>3, RunShape

LEMMA HoldsStep ==
    ASSUME TidyUse, CampaignInv, [Next]_vars
    PROVE  HoldsInv'
  <1>0. QueueInv
    BY DEF CampaignInv
  <1>1. CASE Begin
    BY <1>1, HoldsBegin
  <1>2. ASSUME NEW n, NEW v, Runs(n, v), Reconcile PROVE HoldsInv'
    BY <1>2, HoldsRun
  <1>3. CASE run.at = "idle" /\ UNCHANGED run
    BY <1>3 DEF HoldsInv, BeforeSwap, Holding
  <1>4. ASSUME run.at # "idle", UNCHANGED run, ~ Reconcile
        PROVE  HoldsInv'
    <2>0. PICK n \in Names : \E v : Runs(n, v)
      BY <1>0, <1>4, RunsIs
    <2>1. PICK v : Runs(n, v)
      BY <2>0
    <2>2. PICK s \in RequestRecords : s = Stored(n)
      BY <1>0, StoredOK DEF QueueInv, VersionOK
    <2>3. ASSUME Stored(n)' = Stored(n), Cached(n)' \in {Cached(n), Stored(n)},
                 \A m \in Movers : BadStays(m),
                 \A x \in Sets : sts[x].up => sts'[x].up,
                 run.at = "recreate" => (Away(v) => Away(v)')
          PROVE  HoldsInv'
      <3>1. /\ Fresh(v, n) => Fresh(v, n)'
            /\ FailedSince(v, n) => FailedSince(v, n)'
        BY <2>3 DEF Fresh, FailedSince
      <3>2. run.at = "deletion" => /\ Stored(n)' \in {v, GoneAfter(1)}
                                   /\ Cached(n)' \in {v, GoneAfter(1)}
        BY <2>1, <2>3, HoldsNow
      <3> QED
        BY <1>4, <2>1, <2>3, <3>1, <3>2, HoldsKept
    <2>4. ASSUME UNCHANGED clusterVars
          PROVE  /\ \A m \in Movers : BadStays(m)
                 /\ \A x \in Sets : sts[x].up => sts'[x].up
                 /\ Away(v) => Away(v)'
      BY <2>4 DEF clusterVars, BadStays, Away
    <2>5. ASSUME NEW k \in Names, Informer(k) PROVE HoldsInv'
      <3>1. /\ Stored(k)' = Stored(k) /\ Cached(k)' = Stored(k) /\ Elsewhere(k)
            /\ UNCHANGED clusterVars
        BY <1>0, <2>5, InformerIs
      <3>2. Stored(n)' = Stored(n) /\ Cached(n)' \in {Cached(n), Stored(n)}
        BY <3>1 DEF Elsewhere
      <3> QED
        BY <2>3, <2>4, <3>1, <3>2
    <2>6. CASE ClusterStep \/ \E x \in Sets : Edit(x) \/ Restore(x)
      <3>1. Rest /\ \A m \in Movers : BadStays(m)
        BY <1>0, <2>6, ClusterStepOK, EditStep, ClusterBad
      <3>2. ClusterStep => UNCHANGED sts
        BY DEF ClusterStep, StartPod, PodEnds, PrunePod, TempGoes, MigStarts,
               MigEnds, MigFails, MigGoes
      <3>3. ASSUME NEW x \in Sets, Edit(x) PROVE \A y \in Sets : sts'[y].up = sts[y].up
        BY <1>0, <3>3 DEF Edit, QueueInv, ClusterOK, StsOK
      <3>4. ASSUME NEW x \in Sets, Restore(x)
            PROVE  /\ \A y \in Sets \ {x} : sts'[y] = sts[y]
                   /\ sts'[x].up /\ Quiet(x)
        BY <1>0, <3>4 DEF Restore, QueueInv, ClusterOK, StsOK
      <3>5. run.at = "recreate" => About(n, v.set) /\ Unended(n)
        BY <2>1, HeldIs DEF Migrating, BeforeSwap, Alike, About, Unended, Ended
      <3>6. \A y \in Sets : sts[y].up => sts'[y].up
        BY <2>6, <3>2, <3>3, <3>4
      <3>7. run.at = "recreate" => (Away(v) => Away(v)')
        <4>1. v.set \in Sets
          BY <2>1 DEF Runs
        <4>2. ASSUME NEW x \in Sets, Restore(x), run.at = "recreate" PROVE v.set # x
          BY <2>1, <3>4, <3>5, <4>2 DEF Quiet
        <4> QED
          BY <2>6, <3>2, <3>3, <3>4, <4>1, <4>2 DEF Away
      <3>8. Stored(n)' = Stored(n) /\ Cached(n)' = Cached(n)
        BY <3>1, RestIs DEF SameVersions
      <3> QED
        BY <2>3, <3>1, <3>6, <3>7, <3>8
    <2>7. CASE Calm /\ SameVersions
      BY <2>3, <2>4, <2>7 DEF Calm, SameVersions
    <2>8. ASSUME Calm, NEW t \in Terminals, NEW k \in Names, Creates(t, k)
          PROVE  HoldsInv'
      <3>1. CASE k # n
        <4>1. Stored(n)' = Stored(n) /\ Cached(n)' = Cached(n)
          BY <2>8, <3>1 DEF Creates, Elsewhere
        <4> QED
          BY <2>3, <2>4, <2>8, <4>1 DEF Calm
      <3>2. CASE k = n
        <4>1. Stored(n).phase = "Gone" /\ Stored(n).incarnation = 0
          BY <2>8, <3>2, GoneIs DEF Creates
        <4>2. run.at \notin Migrating
          BY <2>1, <4>1, HeldIs DEF Exists
        <4>3. run.at # "deletion"
          BY <2>1, <4>1, HoldsNow, GoneIs DEF Runs
        <4> QED
          BY <1>4, <2>1, <2>4, <2>8, <4>2, <4>3, HoldsKept DEF Calm, Migrating
      <3> QED
        BY <3>1, <3>2
    <2>9. ASSUME Calm, NEW k \in Names, Deletes(k) PROVE HoldsInv'
      <3>1. CASE k # n
        <4>1. Stored(n)' = Stored(n) /\ Cached(n)' = Cached(n)
          BY <2>9, <3>1 DEF Deletes, Elsewhere
        <4> QED
          BY <2>3, <2>4, <2>9, <4>1 DEF Calm
      <3>2. CASE k = n
        <4>1. /\ s.phase # "Gone" /\ Cached(n)' = s
              /\ Stored(n)' = IF s.finalizer THEN Marked(s) ELSE GoneAfter(1)
          BY <2>2, <2>9, <3>2 DEF Deletes, Exists
        <4>2. v \in RequestRecords /\ (run.at \in Migrating => v.finalizer)
          BY <2>1, RunVersion DEF Runs, Migrating, BeforeSwap
        <4>3. ASSUME run.at \in Migrating, Fresh(v, n) PROVE Fresh(v, n)'
          <5>1. s.finalizer
            BY <2>2, <4>2, <4>3, FreshIs DEF Alike
          <5>2. Marked(Marked(v)) = Marked(v)
            BY <4>2, MarkedIs
          <5> QED
            BY <2>2, <4>1, <4>3, <5>1, <5>2 DEF Fresh
        <4>4. ASSUME run.at \in Migrating, FailedSince(v, n) PROVE FailedSince(v, n)'
          <5>1. s.finalizer
            BY <2>2, <4>2, <4>4, FailedIs DEF Alike
          <5>2. Marked(Marked(Failing(v))) = Marked(Failing(v))
            BY <4>2, MarkedIs, FailingIs
          <5> QED
            BY <2>2, <4>1, <4>4, <5>1, <5>2 DEF FailedSince
        <4>5. ASSUME run.at = "deletion" PROVE Stored(n)' = v /\ Cached(n)' = v
          <5>1. s = v
            BY <2>1, <2>2, <4>1, <4>5, HoldsNow, GoneIs
          <5>2. v.deleting /\ v.finalizer
            BY <2>1, <4>5, RunVersion DEF VersionFits
          <5> QED
            BY <4>1, <4>2, <5>1, <5>2, MarkedIs
        <4> QED
          BY <1>4, <2>1, <2>4, <2>9, <4>3, <4>4, <4>5, HoldsKept DEF Calm
      <3> QED
        BY <3>1, <3>2
    <2> QED
      BY <1>4, <2>5, <2>6, <2>7, <2>8, <2>9, StepIs DEF Reconcile
  <1>5. Reconcile \/ UNCHANGED run
    <2>1. ASSUME NEW n \in Names, Informer(n) PROVE UNCHANGED run
      BY <2>1 DEF Informer
    <2>2. ClusterStep \/ (\E s \in Sets : Edit(s) \/ Restore(s)) => UNCHANGED run
      BY <1>0, ClusterStepOK, EditStep, RestIs
    <2> QED
      BY <2>1, <2>2, StepIs DEF Calm, Reconcile
  <1>6. CASE Reconcile
    <2>1. CASE ~ Begin
      <3>1. run.at # "idle"
        BY <1>6, <2>1, BusyIs
      <3> QED
        BY <1>0, <1>2, <1>6, <3>1, RunsIs
    <2> QED
      BY <1>1, <2>1
  <1> QED
    BY <1>3, <1>4, <1>5, <1>6

-----------------------------------------------------------------------------
(* The migrators. *)

LEMMA MoverFrom ==
    ASSUME NEW m \in Movers, NEW s, NEW g, Stored(m[1])' = s, mig'[m] = g,
           g # NoMover =>
              /\ g.st # "absent" /\ g.set \in Sets
              /\ s.incarnation = 1 /\ s.phase \notin {"Pending", "Validating"}
              /\ s.phase # "Gone" => g.set = s.set
              /\ g.st \in {"pending", "running", "ok"} /\ ~ g.dying =>
                    /\ s.phase = "Syncing" /\ s.cur = m[2] /\ s.cur \notin s.done
                    /\ s.stsDeleted /\ pod'[<<g.set, m[2]>>] = "down"
              /\ g.dying => Told(m)'
              /\ g.st = "bad" => s.size < Need[<<g.set, m[2]>>]
    PROVE  MoverFits(m)'
  BY DEF MoverFits, Live, SlotOf

LEMMA MoverNow ==
    ASSUME CampaignInv, NEW m \in Movers, NEW s, NEW g, Stored(m[1]) = s, mig[m] = g,
           g # NoMover
    PROVE  /\ g.st # "absent" /\ g.set \in Sets
           /\ s.incarnation = 1 /\ s.phase \notin {"Pending", "Validating"}
           /\ s.phase # "Gone" => g.set = s.set
           /\ g.st \in {"pending", "running", "ok"} /\ ~ g.dying =>
                 /\ s.phase = "Syncing" /\ s.cur = m[2] /\ s.cur \notin s.done
                 /\ s.stsDeleted /\ pod[<<g.set, m[2]>>] = "down"
           /\ g.dying => Told(m)
           /\ g.st = "bad" => s.size < Need[<<g.set, m[2]>>]
  BY DEF CampaignInv, MoverInv, MoverFits, Live, SlotOf

LEMMA MoverKept ==
    ASSUME CampaignInv, NEW m \in Movers, Stored(m[1])' = Stored(m[1]),
           mig'[m] = mig[m], Live(m) => pod'[SlotOf(m)] = pod[SlotOf(m)],
           mig[m] # NoMover /\ mig[m].dying /\ Told(m) => Told(m)'
    PROVE  MoverFits(m)'
  <1>1. PICK s : s = Stored(m[1])
    OBVIOUS
  <1>2. PICK g : g = mig[m]
    OBVIOUS
  <1>3. g.st \in {"pending", "running", "ok"} /\ ~ g.dying =>
           pod'[<<g.set, m[2]>>] = pod[<<g.set, m[2]>>]
    BY <1>2 DEF Live, SlotOf
  <1>4. Stored(m[1])' = s /\ mig'[m] = g
    BY <1>1, <1>2
  <1> QED
    BY <1>1, <1>2, <1>3, <1>4, MoverNow, MoverFrom

(* A migrator is told to go. *)
LEMMA MoverDies ==
    ASSUME CampaignInv, NEW m \in Movers, Stored(m[1])' = Stored(m[1]),
           mig[m] # NoMover, mig'[m].dying, mig'[m].st = mig[m].st,
           mig'[m].set = mig[m].set, Told(m)'
    PROVE  MoverFits(m)'
  <1>1. PICK s : s = Stored(m[1])
    OBVIOUS
  <1>2. PICK g : g = mig[m]
    OBVIOUS
  <1>3. /\ g.st # "absent" /\ g.set \in Sets
        /\ s.incarnation = 1 /\ s.phase \notin {"Pending", "Validating"}
        /\ s.phase # "Gone" => g.set = s.set
        /\ g.st = "bad" => s.size < Need[<<g.set, m[2]>>]
    BY <1>1, <1>2, MoverNow
  <1>4. PICK h : h = mig'[m] /\ h.dying /\ h.st = g.st /\ h.set = g.set
    BY <1>2
  <1> QED
    BY <1>1, <1>3, <1>4, MoverFrom

LEMMA CopyRunFrom ==
    ASSUME NEW n, NEW v, NEW at, run'.name = n, run'.vr = v, run'.at = at,
           at \in {"copy", "swap"} /\ Fresh(v, n)' => pod'[<<v.set, v.cur>>] = "down",
           at = "copy" => mig'[<<n, v.cur>>] # NoMover,
           at = "swap" => /\ mig'[<<n, v.cur>>].st # "running"
                          /\ mig'[<<n, v.cur>>].st \in {"pending", "ok"}
                                => mig'[<<n, v.cur>>].dying
    PROVE  CopyRunFits'
  BY DEF CopyRunFits, Fresh, Stored, Cur, CurMover, Live

LEMMA NoCopyRun == ASSUME run'.at \notin {"copy", "swap"} PROVE CopyRunFits'
  BY DEF CopyRunFits

(* A run that waits for a copy, or is about to swap, in other terms. *)
LEMMA CopyRunNow ==
    ASSUME CampaignInv, NEW n, NEW v, Runs(n, v)
    PROVE  /\ run.at \in {"copy", "swap"} /\ Fresh(v, n) => pod[<<v.set, v.cur>>] = "down"
           /\ run.at = "copy" => mig[<<n, v.cur>>] # NoMover
           /\ run.at = "swap" => mig[<<n, v.cur>>].st # "running" /\ ~ Live(<<n, v.cur>>)
  BY CurIs DEF CampaignInv, MoverInv, CopyRunFits, Runs

(* The migrator a run waits for was not told to go. *)
LEMMA NotTold ==
    ASSUME CampaignInv, NEW n, NEW v, Runs(n, v), run.at \in BeforeSwap \ {"swap"},
           NEW m \in Movers, m[1] = n, m[2] = v.cur
    PROVE  ~ Told(m)
  <1>1. n = run.name /\ n \in Names
    BY DEF Runs
  <1>2. Alike(v, Stored(n)) /\ Exists(n) /\ v.cur \notin v.done
    BY HeldIs, RunVersion DEF Migrating
  <1> QED
    BY <1>1, <1>2 DEF Told, Alike, Exists

LEMMA MoversBegin ==
    ASSUME CampaignInv, Begin
    PROVE  MoverInv'
  <1>0. QueueInv
    BY DEF CampaignInv
  <1>1. run = Idle /\ SameVersions /\ UNCHANGED <<pod, mig>>
    BY <1>0, BeginIs DEF clusterVars
  <1>2. ASSUME NEW n \in Names, Cached(n).deleting, run'.name = n
        PROVE  run'.at \notin BeforeSwap
    <2>1. CASE run' = Idle
      BY <2>1 DEF Idle, BeforeSwap
    <2>2. CASE run' # Idle
      <3>1. PICK k \in Names :
              /\ run' = [name |-> k, at |-> Route(Cached(k)), vr |-> Cached(k)]
              /\ Route(Cached(k)) # "idle"
        BY <1>0, <2>2, BeginIs
      <3>2. PICK c \in RequestRecords : c = Cached(k) /\ VersionFits(c)
        BY <1>0, StoredOK DEF QueueInv, VersionOK, CampaignInv, VersionsInv
      <3>3. k = n /\ run'.at = Route(c)
        BY <1>2, <3>1, <3>2
      <3>4. Route(c) = "deletion"
        BY <1>2, <3>1, <3>2, <3>3, RouteIs
      <3> QED
        BY <3>3, <3>4 DEF BeforeSwap
    <2> QED
      BY <2>1, <2>2
  <1>3. ASSUME NEW m \in Movers PROVE MoverFits(m)'
    <2>1. m[1] \in Names
      BY DEF Movers
    <2>2. Told(m) => Told(m)'
      BY <1>1, <1>2, <2>1 DEF Told, SameVersions, Idle
    <2> QED
      BY <1>1, <2>1, <2>2, MoverKept DEF SameVersions
  <1>4. run'.at \notin {"copy", "swap"}
    <2>1. CASE run' = Idle
      BY <2>1 DEF Idle
    <2>2. CASE run' # Idle
      <3>1. PICK k \in Names :
              /\ run' = [name |-> k, at |-> Route(Cached(k)), vr |-> Cached(k)]
              /\ Route(Cached(k)) # "idle"
        BY <1>0, <2>2, BeginIs
      <3>2. PICK c \in RequestRecords : c = Cached(k) /\ VersionFits(c)
        BY <1>0, StoredOK DEF QueueInv, VersionOK, CampaignInv, VersionsInv
      <3> QED
        BY <3>1, <3>2, RouteIs
    <2> QED
      BY <2>1, <2>2
  <1> QED
    BY <1>3, <1>4, NoCopyRun DEF MoverInv

(* The migrators of the others, in a step of a run. *)
LEMMA MoversOther ==
    ASSUME TidyUse, CampaignInv, NEW n, NEW v, Runs(n, v), Reconcile,
           NEW m \in Movers, m[1] # n
    PROVE  MoverFits(m)'
  <1>0. /\ n \in Names /\ n = run.name /\ QueueInv /\ m[1] \in Names
        /\ run \in [name : Names, at : Steps \ {"idle"}, vr : RequestRecords]
    BY RunIs DEF CampaignInv, Runs, Movers
  <1>1. mig'[m] = mig[m]
    BY <1>0, RunMovers
  <1>2. Stored(m[1])' = Stored(m[1]) /\ Cached(m[1])' = Cached(m[1])
    BY <1>0, RunShape DEF Rests, Idles, Goes, SameVersions, Writes, Elsewhere
  <1>3. run'.name # m[1]
    <2>1. run' = Idle \/ run'.name = n
      BY <1>0, RunShape DEF Rests, Idles, Goes, Writes
    <2>2. m[1] # NoName
      BY <1>0, QueueAssumption
    <2> QED
      BY <2>1, <2>2 DEF Idle
  <1>4. Told(m) => Told(m)'
    BY <1>0, <1>2, <1>3 DEF Told
  <1>5. Live(m) => pod'[SlotOf(m)] = pod[SlotOf(m)]
    <2> SUFFICES ASSUME Live(m) PROVE pod'[SlotOf(m)] = pod[SlotOf(m)]
      OBVIOUS
    <2>1. mig[m] # NoMover
      BY DEF Live, NoMover
    <2>2. pod[SlotOf(m)] = "down" /\ SlotOf(m) \in Slots
      BY <2>1 DEF CampaignInv, MoverInv, MoverFits, SlotOf, Slots, Movers
    <2> QED
      BY <1>0, <2>2, FrameIs
  <1> QED
    BY <1>1, <1>2, <1>4, <1>5, MoverKept

(* The migrators of the run itself: when it ends without a write, *)
LEMMA MoversRest ==
    ASSUME TidyUse, CampaignInv, NEW n, NEW v, Runs(n, v), Reconcile, Rests(n),
           NEW m \in Movers, m[1] = n
    PROVE  MoverFits(m)'
  <1>0. /\ n \in Names /\ n = run.name /\ v = run.vr /\ QueueInv /\ run.at # "idle"
        /\ m[2] \in Ordinals
    BY DEF CampaignInv, Runs, Movers
  <1>1. Stored(n)' = Stored(n) /\ Cached(n)' = Cached(n) /\ run' = Idle
    BY <1>0 DEF Rests, Idles, SameVersions
  <1>2. run'.name # n /\ run'.at = "idle"
    BY <1>0, <1>1, QueueAssumption DEF Idle
  <1>3. mig[m] # NoMover => (Live(m) => pod'[SlotOf(m)] = pod[SlotOf(m)])
    <2> SUFFICES ASSUME Live(m), mig[m] # NoMover PROVE pod'[SlotOf(m)] = pod[SlotOf(m)]
      OBVIOUS
    <2>1. pod[SlotOf(m)] = "down" /\ SlotOf(m) \in Slots
      BY <1>0 DEF CampaignInv, MoverInv, MoverFits, SlotOf, Slots, Movers
    <2> QED
      BY <1>0, <2>1, FrameIs
  <1>4. CASE run.at = "deletion"
    <2>1. /\ mig[m] = NoMover => mig'[m] = mig[m]
          /\ mig[m] # NoMover => /\ mig'[m].dying /\ mig'[m].st = mig[m].st
                                 /\ mig'[m].set = mig[m].set
      BY <1>0, <1>4, ActionIs, DeletionIs
    <2>2. Stored(n).phase = "Gone"
      BY <1>4, HoldsNow, GoneIs DEF Rests, Refuses, Runs
    <2>3. Told(m)'
      BY <1>1, <2>2 DEF Told
    <2>4. CASE mig[m] = NoMover
      BY <2>1, <2>4 DEF MoverFits
    <2>5. CASE mig[m] # NoMover
      BY <1>1, <2>1, <2>3, <2>5, MoverDies
    <2> QED
      BY <2>4, <2>5
  <1>5. CASE run.at # "deletion"
    <2>1. UNCHANGED mig
      <3>1. PICK k \in Movers : k = <<n, v.cur>>
        BY CurIs
      <3>2. CASE run.at = "await"
        <4>1. UNCHANGED mig \/ Goes("copy")
          BY <1>0, <3>2, ActionIs, AwaitIs
        <4>2. run'.at = "idle"
          BY <1>1 DEF Idle
        <4>3. Goes("copy") => run'.at = "copy"
          BY <1>0, <3>2 DEF Goes, QueueInv, RunOK
        <4> QED
          BY <4>1, <4>2, <4>3
      <3>3. CASE run.at = "copy"
        <4>1. UNCHANGED mig \/ Goes("swap")
          BY <1>0, <3>3, ActionIs, CopyIs
        <4>2. run'.at = "idle"
          BY <1>1 DEF Idle
        <4>3. Goes("swap") => run'.at = "swap"
          BY <1>0, <3>3 DEF Goes, QueueInv, RunOK
        <4> QED
          BY <4>1, <4>2, <4>3
      <3> QED
        BY <1>0, <1>5, <3>2, <3>3, FrameIs
    <2>2. ASSUME run.at = "swap" PROVE Cached(n).deleting
      <3>1. Refuses(n) /\ Cached(n) = Stored(n)
        BY <2>2 DEF Rests, Refuses, GivesUp
      <3>2. Stored(n).phase # "Failed"
        BY <2>2, HeldIs, HoldsNow, FreshIs, RunVersion DEF Migrating, BeforeSwap, Runs
      <3> QED
        BY <2>2, <3>1, <3>2, HeldIs DEF Migrating, BeforeSwap
    <2>3. Told(m) => Told(m)'
      BY <1>0, <1>1, <1>2, <2>2 DEF Told
    <2>4. Live(m) => mig[m] # NoMover
      BY DEF Live, NoMover
    <2> QED
      BY <1>0, <1>1, <1>3, <2>1, <2>3, <2>4, MoverKept
  <1> QED
    BY <1>4, <1>5

(* when it goes on, *)
LEMMA MoversGo ==
    ASSUME TidyUse, CampaignInv, NEW n, NEW v, Runs(n, v), Reconcile,
           NEW at, GoesOn(v, at), Goes(at)
    PROVE  CopyRunFits' /\ \A m \in Movers : m[1] = n => MoverFits(m)'
  <1>0. /\ n \in Names /\ n = run.name /\ v = run.vr /\ QueueInv /\ run.at # "idle"
        /\ v.set \in Sets
        /\ run \in [name : Names, at : Steps \ {"idle"}, vr : RequestRecords]
    BY RunIs DEF CampaignInv, Runs
  <1>1. run'.name = n /\ run'.vr = v /\ run'.at = at /\ SameVersions
    BY <1>0 DEF Goes
  <1>2. Stored(n)' = Stored(n) /\ Cached(n)' = Cached(n)
    BY <1>0, <1>1 DEF SameVersions
  <1>3. run.at \in BeforeSwap \ {"swap"}
    BY DEF GoesOn, BeforeSwap
  <1>4. PICK j \in Movers, c \in Slots :
            j = <<n, v.cur>> /\ c = <<v.set, v.cur>> /\ j[1] = n /\ j[2] = v.cur
    BY CurIs
  <1>5. PICK s : s = Stored(n) /\ Alike(v, s) /\ s.phase # "Gone"
    BY <1>3, HeldIs DEF Migrating, Exists
  <1>6. \A k \in Slots : pod[k] = "down" => pod'[k] = "down"
    BY <1>0, FrameIs
  <1>7. ASSUME NEW m \in Movers, m[1] = n, mig'[m] = mig[m] PROVE MoverFits(m)'
    <2>1. Told(m) => Told(m)'
      BY <1>0, <1>1, <1>2, <1>3, <1>7 DEF Told
    <2>2. Live(m) => pod'[SlotOf(m)] = pod[SlotOf(m)]
      <3> SUFFICES ASSUME Live(m) PROVE pod'[SlotOf(m)] = pod[SlotOf(m)]
        OBVIOUS
      <3>1. mig[m] # NoMover
        BY DEF Live, NoMover
      <3>2. pod[SlotOf(m)] = "down" /\ SlotOf(m) \in Slots
        BY <3>1 DEF CampaignInv, MoverInv, MoverFits, SlotOf, Slots, Movers
      <3> QED
        BY <1>6, <3>2
    <2> QED
      BY <1>2, <1>7, <2>1, <2>2, MoverKept
  <1>8. CASE run.at = "await"
    <2>1. /\ at = "copy" /\ pod[c] = "down" /\ \A k \in Movers \ {j} : mig'[k] = mig[k]
          /\ mig[j] # NoMover => mig'[j] = mig[j]
          /\ mig[j] = NoMover => /\ mig'[j].set = v.set /\ mig'[j].st = "pending"
                                 /\ ~ mig'[j].dying
      <3>1. at = "copy" /\ run'.at # "idle"
        BY <1>1, <1>8 DEF GoesOn
      <3> QED
        BY <1>0, <1>4, <1>8, <3>1, ActionIs, AwaitIs DEF GivesUp, Idles, Idle
    <2>2. mig'[j] # NoMover
      BY <2>1 DEF NoMover
    <2>3. CopyRunFits'
      BY <1>1, <1>4, <1>6, <2>1, <2>2, CopyRunFrom
    <2>4. ASSUME mig[j] = NoMover PROVE MoverFits(j)'
      <3>1. ~ Bad(v, n)
        BY <1>4, <2>4 DEF Bad, NoMover
      <3>2. Fresh(v, n) /\ v.stsDeleted
        BY <1>8, <3>1, HoldsNow DEF BeforeSwap, Holding
      <3>3. s.phase = "Syncing" /\ s.incarnation = 1 /\ v.cur \notin v.done
        BY <1>3, <1>5, <3>2, FreshIs, RunVersion DEF Runs, Alike
      <3>4. PICK g : g = mig'[j]
        OBVIOUS
      <3>5. /\ g.set = v.set /\ g.st = "pending" /\ ~ g.dying
            /\ s.set = v.set /\ s.cur = v.cur /\ s.cur \notin s.done /\ s.stsDeleted
        BY <1>5, <2>1, <2>4, <3>2, <3>3, <3>4 DEF Alike
      <3>6. pod'[<<g.set, j[2]>>] = "down"
        BY <1>4, <1>6, <2>1, <3>5
      <3>7. Stored(j[1])' = s /\ mig'[j] = g /\ g.set \in Sets /\ j[2] = s.cur
        BY <1>0, <1>2, <1>4, <1>5, <3>4, <3>5
      <3> QED
        BY <3>3, <3>5, <3>6, <3>7, MoverFrom
    <2> QED
      BY <1>7, <2>1, <2>3, <2>4
  <1>9. CASE run.at = "copy"
    <2>1. /\ at = "swap" /\ mig[j].st \in {"absent", "ok"}
          /\ \A k \in Movers \ {j} : mig'[k] = mig[k]
          /\ mig'[j].set = mig[j].set /\ mig'[j].st = mig[j].st
          /\ mig[j] # NoMover => mig'[j].dying
      <3>1. at = "swap" /\ run'.at # "idle"
        BY <1>1, <1>9 DEF GoesOn
      <3> QED
        BY <1>0, <1>4, <1>9, <3>1, ActionIs, CopyIs
        DEF GivesUp, Idles, Idle, Saves, Refuses, Writes
    <2>2. mig[j] # NoMover
      BY <1>4, <1>9, CopyRunNow
    <2>3. mig[j].st = "ok" /\ mig'[j].dying
      BY <1>4, <2>1, <2>2 DEF CampaignInv, MoverInv, MoverFits
    <2>4. Fresh(v, n)' => pod'[c] = "down"
      <3>1. Fresh(v, n)' => Fresh(v, n)
        BY <1>2 DEF Fresh
      <3> QED
        BY <1>4, <1>6, <1>9, <3>1, CopyRunNow
    <2>5. CopyRunFits'
      BY <1>1, <1>4, <2>1, <2>3, <2>4, CopyRunFrom
    <2>6. Told(j)'
      BY <1>1, <1>4, <2>1 DEF Told
    <2>7. MoverFits(j)'
      BY <1>2, <1>4, <2>1, <2>2, <2>3, <2>6, MoverDies
    <2> QED
      BY <1>7, <2>1, <2>5, <2>7
  <1>10. CASE run.at \notin {"await", "copy"}
    <2>1. UNCHANGED mig /\ at \notin {"copy", "swap"}
      BY <1>0, <1>3, <1>10, FrameIs DEF GoesOn, BeforeSwap
    <2> QED
      BY <1>1, <1>7, <2>1, NoCopyRun
  <1> QED
    BY <1>8, <1>9, <1>10

(* and when it writes. *)
LEMMA MoversWrite ==
    ASSUME TidyUse, CampaignInv, NEW n, NEW v, Runs(n, v), Reconcile,
           NEW w, NEW at, WrittenBy(v, w, at), Writes(n, w, at),
           NEW m \in Movers, m[1] = n
    PROVE  MoverFits(m)'
  <1>0. /\ n \in Names /\ n = run.name /\ v = run.vr /\ QueueInv /\ run.at # "idle"
        /\ v.set \in Sets /\ v \in RequestRecords /\ VersionOK(v)
        /\ run \in [name : Names, at : Steps \ {"idle"}, vr : RequestRecords]
    BY RunIs DEF CampaignInv, Runs
  <1>1. Stored(n) = v /\ Cached(n) = v /\ Stored(n)' = w /\ Cached(n)' = v
    BY <1>0 DEF Writes
  <1>2. CASE mig[m] = NoMover
    <2>1. mig'[m] = NoMover
      <3>1. CASE run.at = "deletion"
        BY <1>0, <1>2, <3>1, ActionIs, DeletionIs
      <3>2. CASE run.at = "copy"
        <4>1. w = Failing(v) /\ v.phase = "Syncing" /\ at = "idle"
          BY <3>2, RunVersion DEF WrittenBy, BeforeSwap
        <4>2. run'.at = "idle"
          BY <4>1 DEF Writes, Idle
        <4>3. PICK k \in Movers : k = <<n, v.cur>>
          BY CurIs
        <4>4. UNCHANGED mig
          BY <1>0, <3>2, <4>2, <4>3, ActionIs, CopyIs DEF Goes
        <4> QED
          BY <1>2, <4>4
      <3>3. CASE run.at \notin {"copy", "deletion"}
        <4>1. run.at # "await"
          BY DEF WrittenBy
        <4> QED
          BY <1>0, <1>2, <3>3, <4>1, FrameIs
      <3> QED
        BY <3>1, <3>2, <3>3
    <2> QED
      BY <1>1, <2>1, MoverFrom
  <1>3. CASE mig[m] # NoMover
    <2>1. /\ v.incarnation = 1 /\ v.phase \notin {"Pending", "Validating", "Gone"}
          /\ mig[m].st # "absent" /\ mig[m].set \in Sets /\ mig[m].set = v.set
          /\ Live(m) => /\ v.phase = "Syncing" /\ v.cur = m[2] /\ v.cur \notin v.done
                        /\ v.stsDeleted
          /\ mig[m].dying => Told(m)
          /\ mig[m].st = "bad" => v.size < Need[SlotOf(m)]
      BY <1>0, <1>1, <1>3 DEF CampaignInv, MoverInv, MoverFits, Runs
    <2>2. CASE run.at = "deletion"
      <3>1. /\ mig'[m].dying /\ mig'[m].st = mig[m].st /\ mig'[m].set = mig[m].set
        BY <1>0, <1>3, <2>2, ActionIs, DeletionIs
      <3>2. w = GoneAfter(1)
        BY <2>2, WrittenIsProgress
      <3>3. /\ w.phase = "Gone" /\ w.incarnation = 1 /\ w.size = 0
        BY <3>2, GoneIs
      <3>4. Told(m)'
        BY <1>1, <3>3 DEF Told
      <3>5. mig[m].st = "bad" => 0 < Need[SlotOf(m)]
        <4>1. SlotOf(m) \in Slots
          BY <2>1 DEF SlotOf, Slots, Movers
        <4>2. v.size \in Nat /\ Need[SlotOf(m)] \in Nat
          BY <1>0, <4>1, RequestsAssumption, QueueAssumption DEF RequestRecords
        <4> QED
          BY <2>1, <4>2
      <3>6. PICK g : g = mig'[m]
        OBVIOUS
      <3>7. g.st = "bad" => w.size < Need[<<g.set, m[2]>>]
        BY <3>1, <3>3, <3>5, <3>6 DEF SlotOf
      <3> QED
        BY <1>1, <2>1, <3>1, <3>3, <3>4, <3>6, <3>7, MoverFrom
    <2>3. CASE run.at # "deletion"
      <3>1. /\ w.incarnation = 1 /\ w.phase # "Gone" /\ w.set = v.set /\ w.size = v.size
        BY <2>3, WrittenIsProgress
      <3>2. run.at \notin {"finalizer", "pending", "validating", "await"}
        BY <2>1, RunVersion DEF WrittenBy
      <3>3. mig'[m] = mig[m]
        <4>1. CASE run.at = "copy"
          <5>1. w = Failing(v) /\ v.phase = "Syncing" /\ at = "idle"
            BY <4>1, RunVersion DEF WrittenBy, BeforeSwap
          <5>2. run'.at = "idle"
            BY <5>1 DEF Writes, Idle
          <5>3. PICK k \in Movers : k = <<n, v.cur>>
            BY CurIs
          <5> QED
            BY <1>0, <4>1, <5>2, <5>3, ActionIs, CopyIs DEF Goes
        <4> QED
          BY <1>0, <2>3, <3>2, <4>1, FrameIs
      <3>4. ~ Live(m) /\ w.phase \notin {"Pending", "Validating"} /\ v.done \subseteq w.done
        <4>1. CASE run.at \in {"prepare", "copy"}
          <5>1. w = Failing(v) /\ at = "idle"
            BY <4>1 DEF WrittenBy
          <5>2. ~ Live(m)
            <6>1. IF run.at = "copy" THEN Bad(v, n) ELSE Bare(v)
              BY <4>1, <5>1, FailsBad
            <6>2. m[2] = v.cur => m = <<n, v.cur>>
              BY DEF Movers
            <6> QED
              BY <2>1, <6>1, <6>2 DEF Bad, Bare, Live
          <5> QED
            BY <1>0, <5>1, <5>2, FailingIs DEF Alike
        <4>2. CASE run.at \in {"advance", "check"}
          <5>1. w = Advanced(v) /\ v.phase = "Syncing" /\ v.cur \in v.done
            BY <4>2, RunVersion DEF WrittenBy, AfterSwap
          <5> QED
            BY <1>0, <2>1, <5>1, AdvancedFits
        <4>3. CASE run.at = "delete"
          <5>1. w = Deleted(v) /\ ~ v.stsDeleted /\ v.phase = "Syncing"
            BY <4>3, HoldsNow, RunVersion DEF WrittenBy, BeforeSwap
          <5> QED
            BY <1>0, <2>1, <5>1, WrittenIs
        <4>4. CASE run.at = "swap"
          <5>1. w = Swapped(v) /\ v.phase = "Syncing" /\ ~ Live(<<n, v.cur>>)
            BY <4>4, CopyRunNow, RunVersion DEF WrittenBy, BeforeSwap
          <5>2. m[2] = v.cur => m = <<n, v.cur>>
            BY DEF Movers
          <5> QED
            BY <1>0, <2>1, <5>1, <5>2, WrittenIs
        <4>5. CASE run.at = "recreate"
          <5>1. w = Returned(v) /\ v.phase = "Syncing" /\ v.cur \in v.done
            BY <4>5, RunVersion DEF WrittenBy, AfterSwap
          <5> QED
            BY <1>0, <2>1, <5>1, WrittenIs
        <4> QED
          BY <2>3, <3>2, <4>1, <4>2, <4>3, <4>4, <4>5 DEF WrittenBy
      <3>5. mig[m].dying => Told(m)'
        <4>1. ~ v.deleting
          BY <2>3, RunVersion
        <4>2. mig[m].dying => m[2] \in v.done \/ (run.at = "swap" /\ m[2] = v.cur)
          BY <1>0, <1>1, <2>1, <4>1 DEF Told
        <4>3. run.at = "swap" => v.cur \in w.done
          BY <1>0, WrittenIs DEF WrittenBy
        <4> QED
          BY <1>1, <3>4, <4>2, <4>3 DEF Told
      <3>6. PICK g : g = mig[m]
        OBVIOUS
      <3>7. /\ ~ (g.st \in {"pending", "running", "ok"} /\ ~ g.dying)
            /\ g.st = "bad" => w.size < Need[<<g.set, m[2]>>]
        BY <2>1, <3>1, <3>4, <3>6 DEF Live, SlotOf
      <3> QED
        BY <1>1, <2>1, <3>1, <3>3, <3>4, <3>5, <3>6, <3>7, MoverFrom
    <2> QED
      BY <2>2, <2>3
  <1> QED
    BY <1>2, <1>3

LEMMA MoversRun ==
    ASSUME TidyUse, CampaignInv, NEW n, NEW v, Runs(n, v), Reconcile
    PROVE  MoverInv'
  <1>1. \A m \in Movers : m[1] # n => MoverFits(m)'
    BY MoversOther
  <1>2. CASE Rests(n)
    <2>1. run'.at \notin {"copy", "swap"}
      BY <1>2 DEF Rests, Idles, Idle
    <2> QED
      BY <1>1, <1>2, <2>1, MoversRest, NoCopyRun DEF MoverInv
  <1>3. ASSUME NEW at, GoesOn(v, at), Goes(at) PROVE MoverInv'
    BY <1>1, <1>3, MoversGo DEF MoverInv
  <1>4. ASSUME NEW w, NEW at, WrittenBy(v, w, at), Writes(n, w, at) PROVE MoverInv'
    <2>1. at \in {"idle", "stop", "recreate", "check"}
      BY <1>4, WrittenKeeps
    <2>2. run'.at \notin {"copy", "swap"}
      <3>1. run \in [name : Names, at : Steps \ {"idle"}, vr : RequestRecords]
        BY RunIs DEF CampaignInv, Runs
      <3> QED
        BY <1>4, <2>1, <3>1 DEF Writes, Idle
    <2> QED
      BY <1>1, <1>4, <2>2, MoversWrite, NoCopyRun DEF MoverInv
  <1> QED
    BY <1>2, <1>3, <1>4, RunShape

(* The steps of the others: a version changes by a create or a delete. *)
LEMMA CopyRunKept ==
    ASSUME CampaignInv, UNCHANGED run, NEW n, NEW v, Runs(n, v),
           run.at \in {"copy", "swap"} =>
              /\ Fresh(v, n)' => Fresh(v, n)
              /\ Fresh(v, n) /\ pod[<<v.set, v.cur>>] = "down"
                    => pod'[<<v.set, v.cur>>] = "down"
              /\ LET j == <<n, v.cur>> IN
                 /\ run.at = "copy" => mig'[j] # NoMover
                 /\ run.at = "swap" => /\ mig'[j].st # "running"
                                       /\ mig'[j].st \in {"pending", "ok"} => mig'[j].dying
    PROVE  CopyRunFits'
  <1>1. run'.name = n /\ run'.vr = v /\ run'.at = run.at
    BY DEF Runs
  <1>2. run.at \in {"copy", "swap"} /\ Fresh(v, n)' => pod'[<<v.set, v.cur>>] = "down"
    BY CopyRunNow
  <1> QED
    BY <1>1, <1>2, CopyRunFrom

(* The same when neither its migrator nor its VolumeResize changes. *)
LEMMA CopyRunSame ==
    ASSUME CampaignInv, UNCHANGED run, NEW n, NEW v, Runs(n, v),
           Stored(n)' = Stored(n), mig'[<<n, v.cur>>] = mig[<<n, v.cur>>],
           run.at \in {"copy", "swap"} /\ Fresh(v, n) /\ pod[<<v.set, v.cur>>] = "down"
              => pod'[<<v.set, v.cur>>] = "down"
    PROVE  CopyRunFits'
  <1>1. Fresh(v, n)' => Fresh(v, n)
    BY DEF Fresh
  <1>2. /\ run.at = "copy" => mig'[<<n, v.cur>>] # NoMover
        /\ run.at = "swap" => /\ mig'[<<n, v.cur>>].st # "running"
                              /\ mig'[<<n, v.cur>>].st \in {"pending", "ok"}
                                    => mig'[<<n, v.cur>>].dying
    BY CopyRunNow DEF Live
  <1> QED
    BY <1>1, <1>2, CopyRunKept

(* A pod that starts is not one that a migrator or a run waited for. *)
LEMMA StartedPod ==
    ASSUME CampaignInv, NEW c \in Slots, StartPod(c)
    PROVE  /\ \A m \in Movers : Live(m) => SlotOf(m) # c
           /\ \A n, v : Runs(n, v) /\ run.at \in {"copy", "swap"} /\ Fresh(v, n)
                           => c # <<v.set, v.cur>>
  <1>0. sts[c[1]].up
    BY DEF StartPod
  <1>1. ASSUME NEW m \in Movers, Live(m) PROVE SlotOf(m) # c
    <2>1. mig[m] # NoMover
      BY <1>1 DEF Live, NoMover
    <2>2. PICK n \in Names : n = m[1]
      BY DEF Movers
    <2>3. /\ mig[m].set = Stored(n).set /\ Stored(n).phase = "Syncing"
          /\ Stored(n).cur \notin Stored(n).done /\ Stored(n).stsDeleted
      BY <1>1, <2>1, <2>2 DEF CampaignInv, MoverInv, MoverFits
    <2>4. ~ sts[mig[m].set].up
      BY <2>3 DEF CampaignInv, AwayInv, AwayFits, Away
    <2> QED
      BY <1>0, <2>4 DEF SlotOf
  <1>2. ASSUME NEW n, NEW v, Runs(n, v), run.at \in {"copy", "swap"}, Fresh(v, n)
        PROVE  c # <<v.set, v.cur>>
    <2>1. /\ n \in Names /\ Alike(v, Stored(n)) /\ v.stsDeleted /\ v.cur \notin v.done
          /\ Stored(n).phase = "Syncing"
      BY <1>2, FreshIs, HoldsNow, RunVersion DEF Runs, Holding, BeforeSwap
    <2>2. ~ sts[v.set].up
      BY <2>1 DEF CampaignInv, AwayInv, AwayFits, Away, Alike
    <2> QED
      BY <1>0, <2>2
  <1> QED
    BY <1>1, <1>2

(* A run that waits for a copy, or is about to swap, when the cluster steps. *)
LEMMA CopyRunCluster ==
    ASSUME CampaignInv, ClusterStep, NEW n, NEW v, Runs(n, v)
    PROVE  CopyRunFits'
  <1>0. /\ QueueInv /\ Rest /\ UNCHANGED run /\ Stored(n)' = Stored(n)
        /\ pod \in [Slots -> {"up", "ending", "down"}]
        /\ mig \in [Movers -> [set : Sets \cup {NoSet}, dying : BOOLEAN,
                      st : {"absent", "pending", "running", "ok", "bad"}]]
    BY ClusterStepOK, RestIs
    DEF CampaignInv, QueueInv, ClusterOK, PodsOK, SameVersions, Runs
  <1>1. PICK j \in Movers, c \in Slots :
            j = <<n, v.cur>> /\ c = <<v.set, v.cur>> /\ j[1] = n /\ j[2] = v.cur
    BY CurIs
  <1>2. ASSUME NEW d \in Slots, StartPod(d) \/ PodEnds(d) \/ PrunePod(d) \/ TempGoes(d)
        PROVE  CopyRunFits'
    <2>1. UNCHANGED mig
      BY <1>2 DEF StartPod, PodEnds, PrunePod, TempGoes
    <2>2. CASE StartPod(d)
      <3>1. \A e \in Slots \ {d} : pod'[e] = pod[e]
        BY <1>0, <2>2 DEF StartPod
      <3>2. run.at \in {"copy", "swap"} /\ Fresh(v, n) => c # d
        BY <1>1, <2>2, StartedPod
      <3> QED
        BY <1>0, <1>1, <2>1, <3>1, <3>2, CopyRunSame
    <2>3. CASE ~ StartPod(d)
      <3>1. pod[c] = "down" => pod'[c] = "down"
        BY <1>0, <1>2, <2>3 DEF PodEnds, PrunePod, TempGoes
      <3> QED
        BY <1>0, <1>1, <2>1, <3>1, CopyRunSame
    <2> QED
      BY <2>2, <2>3
  <1>3. ASSUME NEW m \in Movers, MigStarts(m) \/ MigEnds(m) \/ MigFails(m) \/ MigGoes(m)
        PROVE  CopyRunFits'
    <2>1. UNCHANGED pod
      BY <1>3 DEF MigStarts, MigEnds, MigFails, MigGoes
    <2>2. CASE m # j
      <3>1. mig'[j] = mig[j]
        BY <1>0, <1>3, <2>2 DEF MigStarts, MigEnds, MigFails, MigGoes
      <3> QED
        BY <1>0, <1>1, <2>1, <3>1, CopyRunSame
    <2>3. CASE m = j
      <3>1. Fresh(v, n)' => Fresh(v, n)
        BY <1>0 DEF Fresh
      <3>2. ASSUME run.at = "copy" PROVE mig'[j] # NoMover
        <4>1. mig[j] # NoMover /\ ~ Told(j)
          BY <1>1, <3>2, CopyRunNow, NotTold DEF BeforeSwap
        <4>2. ~ mig[j].dying
          BY <4>1 DEF CampaignInv, MoverInv, MoverFits
        <4>3. mig'[j].st \in {"running", "ok", "bad"}
          BY <1>0, <1>3, <2>3, <4>2 DEF MigStarts, MigEnds, MigFails, MigGoes
        <4> QED
          BY <4>3 DEF NoMover
      <3>3. ASSUME run.at = "swap"
            PROVE  mig'[j].st # "running" /\ mig'[j].st \notin {"pending", "ok"}
        <4>1. mig[j].st # "running" /\ ~ Live(j)
          BY <1>1, <3>3, CopyRunNow
        <4>2. mig' = [mig EXCEPT ![j] = NoMover]
          BY <1>3, <2>3, <4>1 DEF MigStarts, MigEnds, MigFails, MigGoes, Live
        <4> QED
          BY <1>0, <4>2 DEF NoMover
      <3> QED
        BY <1>0, <1>1, <2>1, <3>1, <3>2, <3>3, CopyRunKept
    <2> QED
      BY <2>2, <2>3
  <1> QED
    BY <1>2, <1>3 DEF ClusterStep

LEMMA SizesAreNat ==
    /\ AnySize \subseteq Nat /\ Sizes \cup {0} \subseteq AnySize
    /\ \A size \in Sizes \cup {0} : size <= InitSize
    /\ \A c \in Slots : Need[c] \in Nat
  <1>1. \A c \in Slots : Need[c] \in 0 .. InitSize
    BY QueueAssumption
  <1>2. InitSize \in Nat /\ Sizes \subseteq Nat /\ \A size \in Sizes : size <= InitSize
    BY QueueAssumption, RequestsAssumption
  <1> QED
    BY <1>1, <1>2 DEF AnySize

(* A migrator that failed lacked the room its VolumeResize asked for. *)
LEMMA LacksRoom ==
    ASSUME CampaignInv, NEW m \in Movers, MigFails(m)
    PROVE  Stored(m[1]).size < Need[SlotOf(m)]
  <1>1. PICK n, c : n \in Names /\ n = m[1] /\ c = SlotOf(m)
    BY DEF Movers
  <1>2. PICK s \in RequestRecords : s = Stored(n) /\ VersionFits(s)
    BY <1>1, StoredOK DEF CampaignInv, QueueInv, VersionOK, VersionsInv
  <1>3. mig[m].st = "running" /\ temp[c].cap < Need[c]
    BY <1>1 DEF MigFails
  <1>4. c \in Slots
    <2>1. mig[m] # NoMover
      BY <1>3 DEF NoMover
    <2>2. mig[m].set \in Sets
      BY <2>1 DEF CampaignInv, MoverInv, MoverFits
    <2> QED
      BY <1>1, <2>2 DEF SlotOf, Slots, Movers
  <1>5. temp[c] # NoTemp /\ temp[c].owner = n
    BY <1>1, <1>3 DEF CampaignInv, TempInv, CopyFits, Holds
  <1>6. s.phase # "Gone" => temp[c].cap = s.size
    BY <1>2, <1>4, <1>5 DEF CampaignInv, TempInv, TempFits
  <1>7. s.phase = "Gone" => s.size = 0
    BY <1>2, GoneIs DEF VersionFits
  <1>8. temp[c].cap \in Nat /\ Need[c] \in Nat
    BY <1>4, SizesAreNat DEF CampaignInv, QueueInv, ClusterOK, ClaimsOK
  <1>9. s.size < Need[c]
    BY <1>3, <1>6, <1>7, <1>8
  <1> QED
    BY <1>1, <1>2, <1>9

LEMMA MoversCluster ==
    ASSUME CampaignInv, ClusterStep, NEW k \in Movers
    PROVE  MoverFits(k)'
  <1>0. /\ QueueInv /\ SameVersions /\ UNCHANGED run /\ k[1] \in Names
        /\ pod \in [Slots -> {"up", "ending", "down"}]
        /\ mig \in [Movers -> [set : Sets \cup {NoSet}, dying : BOOLEAN,
                      st : {"absent", "pending", "running", "ok", "bad"}]]
    BY ClusterStepOK, RestIs
    DEF CampaignInv, QueueInv, ClusterOK, PodsOK, Movers
  <1>1. Stored(k[1])' = Stored(k[1]) /\ (Told(k) => Told(k)')
    BY <1>0 DEF SameVersions, Told
  <1>2. Live(k) => pod[SlotOf(k)] = "down" /\ SlotOf(k) \in Slots
    <2> SUFFICES ASSUME Live(k) PROVE pod[SlotOf(k)] = "down" /\ SlotOf(k) \in Slots
      OBVIOUS
    <2>1. mig[k] # NoMover
      BY DEF Live, NoMover
    <2> QED
      BY <2>1 DEF CampaignInv, MoverInv, MoverFits, SlotOf, Slots, Movers
  <1>3. ASSUME NEW d \in Slots, StartPod(d) \/ PodEnds(d) \/ PrunePod(d) \/ TempGoes(d)
        PROVE  MoverFits(k)'
    <2>1. UNCHANGED mig
      BY <1>3 DEF StartPod, PodEnds, PrunePod, TempGoes
    <2>2. Live(k) => pod'[SlotOf(k)] = pod[SlotOf(k)]
      <3>1. CASE StartPod(d)
        BY <1>0, <1>2, <3>1, StartedPod DEF StartPod
      <3>2. CASE ~ StartPod(d)
        BY <1>0, <1>2, <1>3, <3>2 DEF PodEnds, PrunePod, TempGoes
      <3> QED
        BY <3>1, <3>2
    <2> QED
      BY <1>1, <2>1, <2>2, MoverKept
  <1>4. ASSUME NEW m \in Movers, MigStarts(m) \/ MigEnds(m) \/ MigFails(m) \/ MigGoes(m)
        PROVE  MoverFits(k)'
    <2>1. UNCHANGED pod
      BY <1>4 DEF MigStarts, MigEnds, MigFails, MigGoes
    <2>2. CASE m # k
      <3>1. mig'[k] = mig[k]
        BY <1>0, <1>4, <2>2 DEF MigStarts, MigEnds, MigFails, MigGoes
      <3> QED
        BY <1>1, <2>1, <3>1, MoverKept
    <2>3. CASE m = k /\ MigGoes(m)
      <3>1. mig'[k] = NoMover
        BY <1>0, <2>3 DEF MigGoes
      <3> QED
        BY <3>1 DEF MoverFits
    <2>4. CASE m = k /\ ~ MigGoes(m)
      <3>1. /\ mig[k].st \in {"pending", "running"}
            /\ mig'[k].st \in {"running", "ok", "bad"}
            /\ mig'[k].set = mig[k].set /\ mig'[k].dying = mig[k].dying
            /\ mig'[k].st = "bad" => MigFails(k)
        BY <1>0, <1>4, <2>4 DEF MigStarts, MigEnds, MigFails
      <3>2. mig[k] # NoMover
        BY <3>1 DEF NoMover
      <3>3. PICK g : g = mig'[k]
        OBVIOUS
      <3>4. PICK s : s = Stored(k[1])
        OBVIOUS
      <3>5. PICK h : h = mig[k]
        OBVIOUS
      <3>6. /\ h.set \in Sets
            /\ s.incarnation = 1 /\ s.phase \notin {"Pending", "Validating"}
            /\ s.phase # "Gone" => h.set = s.set
            /\ h.st \in {"pending", "running", "ok"} /\ ~ h.dying =>
                  /\ s.phase = "Syncing" /\ s.cur = k[2] /\ s.cur \notin s.done
                  /\ s.stsDeleted /\ pod[<<h.set, k[2]>>] = "down"
            /\ h.dying => Told(k)
        BY <3>2, <3>4, <3>5, MoverNow
      <3>7. g.st = "bad" => s.size < Need[<<g.set, k[2]>>]
        BY <3>1, <3>3, <3>4, <3>5, LacksRoom DEF SlotOf
      <3>8. /\ g.st \in {"pending", "running", "ok"} /\ ~ g.dying =>
                  /\ s.phase = "Syncing" /\ s.cur = k[2] /\ s.cur \notin s.done
                  /\ s.stsDeleted /\ pod'[<<g.set, k[2]>>] = "down"
            /\ g.dying => Told(k)'
        BY <1>1, <2>1, <3>1, <3>3, <3>5, <3>6
      <3>9. Stored(k[1])' = s /\ mig'[k] = g /\ g.st # "absent" /\ g.set = h.set
        BY <1>1, <3>1, <3>3, <3>4, <3>5
      <3> QED
        BY <3>6, <3>7, <3>8, <3>9, MoverFrom
    <2> QED
      BY <2>2, <2>3, <2>4
  <1> QED
    BY <1>3, <1>4 DEF ClusterStep

LEMMA MoversStep ==
    ASSUME TidyUse, CampaignInv, [Next]_vars
    PROVE  MoverInv'
  <1>0. QueueInv
    BY DEF CampaignInv
  <1>1. CASE Begin
    BY <1>1, MoversBegin
  <1>2. ASSUME NEW n, NEW v, Runs(n, v), Reconcile PROVE MoverInv'
    BY <1>2, MoversRun
  <1>3. CASE ClusterStep
    <2>1. UNCHANGED run
      BY <1>0, <1>3, ClusterStepOK, RestIs
    <2>2. CopyRunFits'
      <3>1. CASE run.at = "idle"
        BY <2>1, <3>1, NoCopyRun
      <3>2. CASE run.at # "idle"
        BY <1>0, <1>3, <3>2, RunsIs, CopyRunCluster
      <3> QED
        BY <3>1, <3>2
    <2> QED
      BY <1>3, <2>2, MoversCluster DEF MoverInv
  <1>4. ASSUME UNCHANGED <<run, pod, mig>>,
               \A k \in Names : /\ Stored(k)' = Stored(k)
                                /\ Cached(k).deleting =>
                                      Cached(k)'.deleting \/ Stored(k).phase = "Gone"
        PROVE  MoverInv'
    <2>1. CopyRunFits'
      <3>1. CASE run.at = "idle"
        BY <1>4, <3>1, NoCopyRun
      <3>2. CASE run.at # "idle"
        <4>0. PICK n \in Names : \E v : Runs(n, v)
          BY <1>0, <3>2, RunsIs
        <4>1. PICK v : Runs(n, v)
          BY <4>0
        <4> QED
          BY <1>4, <4>1, CopyRunSame
      <3> QED
        BY <3>1, <3>2
    <2>2. ASSUME NEW m \in Movers PROVE MoverFits(m)'
      <3>1. m[1] \in Names
        BY DEF Movers
      <3>2. Told(m) => Told(m)'
        BY <1>4, <3>1 DEF Told
      <3> QED
        BY <1>4, <3>1, <3>2, MoverKept
    <2> QED
      BY <2>1, <2>2 DEF MoverInv
  <1>5. ASSUME NEW n \in Names, Informer(n) PROVE MoverInv'
    <2>1. /\ Stored(n)' = Stored(n) /\ Cached(n)' = Stored(n) /\ Elsewhere(n)
          /\ UNCHANGED <<run, pod, mig>>
      BY <1>0, <1>5, InformerIs DEF clusterVars
    <2>2. Cached(n).deleting => Stored(n).deleting \/ Stored(n).phase = "Gone"
      BY GoneIs DEF CampaignInv, CacheInv, CacheFits
    <2> QED
      BY <1>4, <2>1, <2>2 DEF Elsewhere
  <1>6. CASE (\E s \in Sets : Edit(s) \/ Restore(s)) \/ (Calm /\ SameVersions)
    <2>1. UNCHANGED <<run, pod, mig>> /\ SameVersions
      BY <1>0, <1>6, EditStep, RestIs DEF Edit, Restore, Calm, clusterVars
    <2> QED
      BY <1>4, <2>1 DEF SameVersions
  <1>7. ASSUME Calm, NEW n \in Names, Elsewhere(n),
               \A m \in Movers : m[1] = n => MoverFits(m)',
               \A v : Runs(n, v) /\ run.at \in {"copy", "swap"} /\ Fresh(v, n)' => Fresh(v, n)
        PROVE  MoverInv'
    <2>1. UNCHANGED <<run, pod, mig>>
      BY <1>7 DEF Calm, clusterVars
    <2>2. CopyRunFits'
      <3>1. CASE run.at \notin {"copy", "swap"}
        BY <2>1, <3>1, NoCopyRun
      <3>2. CASE run.at \in {"copy", "swap"}
        <4>0. PICK k \in Names : \E v : Runs(k, v)
          BY <1>0, <3>2, RunsIs
        <4>1. PICK v : Runs(k, v)
          BY <4>0
        <4>2. Fresh(v, k)' => Fresh(v, k)
          BY <1>7, <3>2, <4>1 DEF Elsewhere, Fresh
        <4> QED
          BY <2>1, <4>1, <4>2, CopyRunKept, CopyRunNow DEF Live
      <3> QED
        BY <3>1, <3>2
    <2>3. ASSUME NEW m \in Movers, m[1] # n PROVE MoverFits(m)'
      <3>1. m[1] \in Names
        BY DEF Movers
      <3>2. Stored(m[1])' = Stored(m[1]) /\ Cached(m[1])' = Cached(m[1])
        BY <1>7, <2>3, <3>1 DEF Elsewhere
      <3>3. Told(m) => Told(m)'
        BY <2>1, <3>2 DEF Told
      <3> QED
        BY <2>1, <3>2, <3>3, MoverKept
    <2> QED
      BY <1>7, <2>2, <2>3 DEF MoverInv
  <1>8. ASSUME Calm, NEW t \in Terminals, NEW n \in Names, Creates(t, n) PROVE MoverInv'
    <2>1. Stored(n).incarnation = 0 /\ Stored(n).phase = "Gone"
      BY <1>8, GoneIs DEF Creates
    <2>2. ASSUME NEW m \in Movers, m[1] = n PROVE MoverFits(m)'
      <3>1. mig[m] = NoMover
        BY <2>1, <2>2 DEF CampaignInv, MoverInv, MoverFits
      <3> QED
        BY <1>8, <3>1 DEF MoverFits, Calm, clusterVars
    <2>3. \A v : Runs(n, v) => run.at \notin {"copy", "swap"}
      BY <2>1, HeldIs DEF Migrating, BeforeSwap, Exists
    <2> QED
      BY <1>7, <1>8, <2>2, <2>3 DEF Creates
  <1>9. ASSUME Calm, NEW n \in Names, Deletes(n) PROVE MoverInv'
    <2>1. PICK s \in RequestRecords : s = Stored(n) /\ VersionFits(s) /\ s.phase # "Gone"
      BY <1>0, <1>9, StoredOK DEF QueueInv, VersionOK, CampaignInv, VersionsInv, Deletes, Exists
    <2>2. /\ Cached(n) = s /\ Cached(n)' = s
          /\ Stored(n)' = IF s.finalizer THEN Marked(s) ELSE GoneAfter(1)
          /\ UNCHANGED <<run, pod, mig>>
      BY <1>9, <2>1 DEF Deletes, Calm, clusterVars
    <2>3. ASSUME NEW m \in Movers, m[1] = n PROVE MoverFits(m)'
      <3>1. CASE mig[m] = NoMover
        BY <2>2, <3>1 DEF MoverFits
      <3>2. CASE mig[m] # NoMover
        <4>1. PICK g : g = mig[m]
          OBVIOUS
        <4>2. /\ g.st # "absent" /\ g.set \in Sets
              /\ s.incarnation = 1 /\ s.phase \notin {"Pending", "Validating"}
              /\ g.set = s.set
              /\ g.st \in {"pending", "running", "ok"} /\ ~ g.dying =>
                    /\ s.phase = "Syncing" /\ s.cur = m[2] /\ s.cur \notin s.done
                    /\ s.stsDeleted /\ pod[<<g.set, m[2]>>] = "down"
              /\ g.dying => Told(m)
              /\ g.st = "bad" => s.size < Need[<<g.set, m[2]>>]
          BY <2>1, <2>3, <3>2, <4>1, MoverNow
        <4>3. PICK w : w = Marked(s)
          OBVIOUS
        <4>4. Stored(n)' = w /\ Alike(s, w) /\ w.phase = s.phase
          BY <2>1, <2>2, <4>2, <4>3, MarkedIs DEF VersionFits
        <4>5. g.dying => Told(m)'
          BY <2>1, <2>2, <2>3, <4>2, <4>4 DEF Told, Alike
        <4>6. Stored(m[1])' = w /\ mig'[m] = g /\ UNCHANGED pod
          BY <2>2, <2>3, <4>1, <4>4
        <4>7. /\ w.incarnation = 1 /\ w.phase \notin {"Pending", "Validating"}
              /\ g.set = w.set
              /\ g.st \in {"pending", "running", "ok"} /\ ~ g.dying =>
                    /\ w.phase = "Syncing" /\ w.cur = m[2] /\ w.cur \notin w.done
                    /\ w.stsDeleted /\ pod'[<<g.set, m[2]>>] = "down"
              /\ g.st = "bad" => w.size < Need[<<g.set, m[2]>>]
          BY <4>2, <4>4, <4>6 DEF Alike
        <4> QED
          BY <4>2, <4>5, <4>6, <4>7, MoverFrom
      <3> QED
        BY <3>1, <3>2
    <2>4. ASSUME NEW v, Runs(n, v), run.at \in {"copy", "swap"}, Fresh(v, n)'
          PROVE  Fresh(v, n)
      <3>1. CASE Fresh(v, n)
        BY <3>1
      <3>2. CASE ~ Fresh(v, n)
        <4>1. v \in RequestRecords /\ v.phase = "Syncing" /\ s.phase = "Failed"
          BY <2>1, <2>4, <3>2, HeldIs, RunVersion DEF Runs, Migrating, BeforeSwap
        <4>2. Stored(n)'.phase \in {"Failed", "Gone"}
          BY <2>2, <4>1, MarkedIs, GoneIs
        <4>3. Stored(n)'.phase = "Syncing"
          BY <2>4, <4>1, MarkedIs DEF Fresh
        <4> QED
          BY <4>2, <4>3
      <3> QED
        BY <3>1, <3>2
    <2> QED
      BY <1>7, <1>9, <2>3, <2>4 DEF Deletes
  <1> QED
    BY <1>1, <1>2, <1>3, <1>5, <1>6, <1>8, <1>9, StepIs

-----------------------------------------------------------------------------
(* The temporary claims. *)

LEMMA TempFrom ==
    ASSUME NEW c \in Slots, NEW b, NEW s, temp'[c] = b, Stored(b.owner)' = s,
           b # NoTemp =>
              /\ b.owner \in Names /\ s.incarnation = 1
              /\ s.phase # "Gone" => b.cap = s.size
              /\ ~ b.dying => /\ s.phase \in {"Syncing", "Failed"}
                              /\ c = <<s.set, s.cur>> /\ s.cur \notin s.done
    PROVE  TempFits(c)'
  <1>1. Stored(temp[c].owner)' = s
    BY DEF Stored
  <1> QED
    BY <1>1 DEF TempFits

LEMMA TempNow ==
    ASSUME CampaignInv, NEW c \in Slots, NEW b, NEW s, temp[c] = b, Stored(b.owner) = s,
           b # NoTemp
    PROVE  /\ b.owner \in Names /\ s.incarnation = 1
           /\ s.phase # "Gone" => b.cap = s.size
           /\ ~ b.dying => /\ s.phase \in {"Syncing", "Failed"}
                           /\ c = <<s.set, s.cur>> /\ s.cur \notin s.done
  BY DEF CampaignInv, TempInv, TempFits

LEMMA TempKept ==
    ASSUME CampaignInv, NEW c \in Slots, temp'[c] = temp[c],
           temp[c].owner \in Names =>
              Stored(temp[c].owner)' = Stored(temp[c].owner)
    PROVE  TempFits(c)'
  <1>1. PICK b : b = temp[c]
    OBVIOUS
  <1>2. CASE b = NoTemp
    BY <1>1, <1>2 DEF TempFits
  <1>3. CASE b # NoTemp
    <2>1. PICK o \in Names : o = b.owner
      BY <1>1, <1>3 DEF CampaignInv, TempInv, TempFits
    <2>2. PICK s : s = Stored(o)
      OBVIOUS
    <2>3. Stored(temp[c].owner)' = Stored(o)'
      BY <1>1, <2>1 DEF Stored
    <2>4. Stored(o)' = s
      BY <1>1, <2>1, <2>2, <2>3
    <2> QED
      BY <1>1, <2>1, <2>2, <2>4, TempNow, TempFrom
  <1> QED
    BY <1>2, <1>3

LEMMA CopyKept ==
    ASSUME NEW m \in Movers, CopyFits(m), mig'[m] = mig[m],
           mig[m].st = "running" \/ (mig[m].st = "ok" /\ ~ mig[m].dying) =>
              temp'[SlotOf(m)] = temp[SlotOf(m)]
    PROVE  CopyFits(m)'
  <1>1. PICK g : g = mig[m]
    OBVIOUS
  <1>2. PICK d : d = <<g.set, m[2]>>
    OBVIOUS
  <1>3. /\ g.st = "running" => /\ temp[d] # NoTemp /\ temp[d].owner = m[1]
                               /\ g.dying <=> temp[d].dying
        /\ g.st = "ok" /\ ~ g.dying =>
              /\ temp[d] # NoTemp /\ temp[d].owner = m[1]
              /\ temp[d].full /\ ~ temp[d].dying
    BY <1>1, <1>2 DEF CopyFits, Holds, SlotOf
  <1>4. g.st = "running" \/ (g.st = "ok" /\ ~ g.dying) => temp'[d] = temp[d]
    BY <1>1, <1>2 DEF SlotOf
  <1>5. mig'[m] = g
    BY <1>1
  <1> QED
    BY <1>2, <1>3, <1>4, <1>5 DEF CopyFits, Holds, SlotOf

(* A migrator that does not run, and has not ended, is none of their business. *)
LEMMA CopyOff ==
    ASSUME NEW m \in Movers, mig'[m].st \notin {"running", "ok"} \/
                             (mig'[m].st = "ok" /\ mig'[m].dying)
    PROVE  CopyFits(m)'
  BY DEF CopyFits

LEMMA SwapFrom ==
    ASSUME NEW n, NEW v, run'.name = n, run'.vr = v,
           LET b == temp'[<<v.set, v.cur>>] IN
              b # NoTemp /\ b.owner = n /\ b.full /\ ~ b.dying
    PROVE  SwapRunFits'
  BY DEF SwapRunFits, Holds, Cur

LEMMA NoSwap == ASSUME run'.at # "swap" PROVE SwapRunFits'
  BY DEF SwapRunFits

LEMMA SwapNow ==
    ASSUME CampaignInv, NEW n, NEW v, Runs(n, v), run.at = "swap"
    PROVE  LET b == temp[<<v.set, v.cur>>] IN
              b # NoTemp /\ b.owner = n /\ b.full /\ ~ b.dying
  BY CurIs DEF CampaignInv, TempInv, SwapRunFits, Holds, Runs

(* Whose copy is in a temporary claim. *)
LEMMA CopyNow ==
    ASSUME CampaignInv, NEW m \in Movers, NEW c, c = SlotOf(m), Live(m) \/ mig[m].st = "running"
    PROVE  /\ c \in Slots /\ m[2] = c[2] /\ mig[m].set = c[1] /\ mig[m] # NoMover
           /\ mig[m].st \in {"running", "ok"} => temp[c] # NoTemp /\ temp[c].owner = m[1]
           /\ mig[m].st = "ok" => temp[c].full /\ ~ temp[c].dying
           /\ mig[m].st = "running" => (mig[m].dying <=> temp[c].dying)
  <1>1. mig[m] # NoMover
    BY DEF Live, NoMover
  <1>2. mig[m].set \in Sets
    BY <1>1 DEF CampaignInv, MoverInv, MoverFits
  <1>3. c = <<mig[m].set, m[2]>> /\ c \in Slots
    BY <1>2 DEF SlotOf, Slots, Movers
  <1> QED
    BY <1>1, <1>3 DEF CampaignInv, TempInv, CopyFits, Holds, SlotOf, Live

(* A step that changes no temporary claim, no migrator and no run that is about
   to swap. *)
LEMMA TempsSame ==
    ASSUME CampaignInv, UNCHANGED <<temp, mig>>,
           \A n \in Names : Stored(n)' = Stored(n),
           UNCHANGED run \/ run'.at # "swap"
    PROVE  TempInv'
  <1>1. \A c \in Slots : TempFits(c)'
    BY TempKept
  <1>2. \A m \in Movers : CopyFits(m)'
    BY CopyKept DEF CampaignInv, TempInv
  <1>3. SwapRunFits'
    <2>1. CASE UNCHANGED run
      BY <2>1 DEF CampaignInv, TempInv, SwapRunFits, Holds, Cur
    <2> QED
      BY <2>1, NoSwap
  <1> QED
    BY <1>1, <1>2, <1>3 DEF TempInv

(* What a write that neither swaps nor deletes keeps for the temporary claims. *)
KeepsTemps(s, w) ==
    /\ w.incarnation = 1
    /\ w.phase # "Gone" => s.phase # "Gone" /\ w.size = s.size
    /\ s.phase \in {"Syncing", "Failed"} /\ s.cur \notin s.done =>
          /\ w.phase \in {"Syncing", "Failed"} /\ w.set = s.set
          /\ w.cur = s.cur /\ w.cur \notin w.done

LEMMA TempMoved ==
    ASSUME CampaignInv, NEW c \in Slots, temp'[c] = temp[c],
           NEW o \in Names, NEW s, NEW w, Stored(o) = s, Stored(o)' = w, KeepsTemps(s, w),
           temp[c] # NoTemp => temp[c].owner = o
    PROVE  TempFits(c)'
  <1>1. PICK b : b = temp[c]
    OBVIOUS
  <1>2. CASE b = NoTemp
    BY <1>1, <1>2 DEF TempFits
  <1>3. CASE b # NoTemp
    <2>1. b.owner = o /\ Stored(b.owner) = s
      BY <1>1, <1>3
    <2>2. Stored(b.owner)' = w
      BY <2>1 DEF Stored
    <2>3. /\ s.phase # "Gone" => b.cap = s.size
          /\ ~ b.dying => /\ s.phase \in {"Syncing", "Failed"}
                          /\ c = <<s.set, s.cur>> /\ s.cur \notin s.done
      BY <1>1, <1>3, <2>1, TempNow
    <2>4. /\ w.incarnation = 1 /\ (w.phase # "Gone" => b.cap = w.size)
          /\ ~ b.dying => /\ w.phase \in {"Syncing", "Failed"}
                          /\ c = <<w.set, w.cur>> /\ w.cur \notin w.done
      BY <2>3 DEF KeepsTemps
    <2> QED
      BY <1>1, <2>1, <2>2, <2>4, TempFrom
  <1> QED
    BY <1>2, <1>3

LEMMA KeepsSame ==
    ASSUME NEW s, s.incarnation = 1 PROVE KeepsTemps(s, s)
  BY DEF KeepsTemps

LEMMA WrittenKeepsTemps ==
    ASSUME CampaignInv, NEW n, NEW v, Runs(n, v), NEW w, NEW at, WrittenBy(v, w, at),
           run.at \notin {"swap", "deletion"}
    PROVE  KeepsTemps(v, w)
  <1>0. v \in RequestRecords /\ VersionOK(v) /\ v.phase # "Gone"
    BY DEF Runs
  <1>1. w.incarnation = 1 /\ w.set = v.set /\ w.size = v.size
    BY WrittenIsProgress
  <1>2. CASE run.at \in {"finalizer", "pending"} \/ (run.at = "validating" /\ w # Failing(v))
    <2>1. v.phase \in {"Pending", "Validating"}
      BY <1>2, RunVersion
    <2> QED
      BY <1>0, <1>1, <2>1 DEF KeepsTemps
  <1>3. CASE w = Failing(v)
    BY <1>0, <1>1, <1>3, FailingIs DEF KeepsTemps, Alike
  <1>4. CASE run.at \in {"advance", "check", "recreate"}
    <2>1. v.cur \in v.done
      BY <1>4, RunVersion DEF AfterSwap
    <2> QED
      BY <1>0, <1>1, <2>1 DEF KeepsTemps
  <1>5. CASE run.at = "delete"
    <2>1. w = Deleted(v)
      BY <1>5 DEF WrittenBy
    <2> QED
      BY <1>0, <1>1, <2>1, WrittenIs DEF KeepsTemps
  <1> QED
    BY <1>2, <1>3, <1>4, <1>5 DEF WrittenBy

(* A run leaves the temporary claims of the others alone. *)
LEMMA TempOther ==
    ASSUME TidyUse, CampaignInv, NEW n, NEW v, Runs(n, v), Reconcile,
           NEW c \in Slots, temp'[c] = temp[c], temp[c].owner # n
    PROVE  TempFits(c)'
  <1>1. \A k \in Names \ {n} : Stored(k)' = Stored(k)
    BY RunShape DEF Rests, Idles, Goes, SameVersions, Writes, Elsewhere
  <1> QED
    BY <1>1, TempKept

LEMMA TempOwn ==
    ASSUME TidyUse, CampaignInv, NEW n, NEW v, Runs(n, v), Reconcile,
           run.at \notin {"swap", "deletion"}, NEW c \in Slots, temp'[c] = temp[c]
    PROVE  TempFits(c)'
  <1>0. n \in Names /\ v = run.vr
    BY DEF Runs
  <1>1. CASE temp[c].owner # n
    BY <1>1, TempOther
  <1>2. CASE temp[c].owner = n /\ (Rests(n) \/ \E at : GoesOn(v, at) /\ Goes(at))
    <2>1. \A k \in Names : Stored(k)' = Stored(k)
      BY <1>2 DEF Rests, Idles, Goes, SameVersions
    <2> QED
      BY <2>1, TempKept
  <1>3. ASSUME temp[c].owner = n, NEW w, NEW at, WrittenBy(v, w, at), Writes(n, w, at)
        PROVE  TempFits(c)'
    <2>1. Stored(n) = v /\ Stored(n)' = w /\ KeepsTemps(v, w)
      BY <1>0, <1>3, WrittenKeepsTemps DEF Writes
    <2> QED
      BY <1>0, <1>3, <2>1, TempMoved
  <1> QED
    BY <1>1, <1>2, <1>3, RunShape

(* The step a run goes on with is a swap only after a copy. *)
LEMMA SwapNext ==
    ASSUME TidyUse, CampaignInv, NEW n, NEW v, Runs(n, v), Reconcile
    PROVE  run'.at = "swap" => run.at = "copy" /\ Goes("swap")
  <1>1. run \in [name : Names, at : Steps \ {"idle"}, vr : RequestRecords]
    BY RunIs DEF CampaignInv, Runs
  <1>2. CASE Rests(n)
    BY <1>2 DEF Rests, Idles, Idle
  <1>3. ASSUME NEW at, GoesOn(v, at), Goes(at)
        PROVE  run'.at = "swap" => run.at = "copy" /\ Goes("swap")
    BY <1>1, <1>3 DEF GoesOn, Goes
  <1>4. ASSUME NEW w, NEW at, WrittenBy(v, w, at), Writes(n, w, at) PROVE run'.at # "swap"
    BY <1>1, <1>4, WrittenKeeps DEF Writes, Idle
  <1> QED
    BY <1>2, <1>3, <1>4, RunShape

(* Most steps of a run touch neither claims nor migrators. *)
LEMMA TempsQuiet ==
    ASSUME TidyUse, CampaignInv, NEW n, NEW v, Runs(n, v), Reconcile,
           run.at \notin {"swap", "deletion"}, UNCHANGED <<temp, mig>>, run'.at # "swap"
    PROVE  TempInv'
  <1>1. \A c \in Slots : TempFits(c)'
    BY TempOwn
  <1>2. \A m \in Movers : CopyFits(m)'
    BY CopyKept DEF CampaignInv, TempInv
  <1> QED
    BY <1>1, <1>2, NoSwap DEF TempInv

LEMMA TempsPrepare ==
    ASSUME TidyUse, CampaignInv, NEW n, NEW v, Runs(n, v), Reconcile, run.at = "prepare"
    PROVE  TempInv'
  <1>0. /\ n \in Names /\ v \in RequestRecords /\ v.set \in Sets /\ QueueInv
        /\ run.at # "idle" /\ Prepare
    BY ActionIs DEF CampaignInv, Runs
  <1>1. PICK c \in Slots : c = <<v.set, v.cur>>
    BY CurIs
  <1>2. UNCHANGED mig /\ run'.at # "swap"
    BY <1>0, PrepareIs, SwapNext
  <1>3. CASE UNCHANGED temp
    BY <1>2, <1>3, TempsQuiet
  <1>4. CASE ~ UNCHANGED temp
    <2>1. /\ \A d \in Slots \ {c} : temp'[d] = temp[d]
          /\ temp[c] # NoTemp => temp'[c] = temp[c]
          /\ temp[c] = NoTemp => /\ temp'[c].owner = n /\ temp'[c].cap = v.size
                                 /\ ~ temp'[c].full /\ ~ temp'[c].dying
          /\ SameVersions
      BY <1>0, <1>1, <1>4, PrepareIs DEF Goes
    <2>2. TempFits(c)'
      <3>1. CASE temp[c] # NoTemp
        BY <2>1, <3>1, TempOwn
      <3>2. CASE temp[c] = NoTemp
        <4>1. PICK b : b = temp'[c]
          OBVIOUS
        <4>2. PICK s : s = Stored(n)
          OBVIOUS
        <4>3. b.owner = n /\ b.cap = v.size /\ Stored(n)' = s
          BY <1>0, <2>1, <3>2, <4>1, <4>2 DEF SameVersions
        <4>4. Stored(b.owner)' = s
          BY <4>3 DEF Stored
        <4>5. Alike(v, s) /\ s.phase \in {"Syncing", "Failed"}
          BY <4>2, HeldIs DEF Migrating, BeforeSwap
        <4>6. v.incarnation = 1 /\ v.cur \notin v.done
          BY RunVersion DEF BeforeSwap
        <4>7. /\ s.incarnation = 1 /\ (s.phase # "Gone" => b.cap = s.size)
              /\ ~ b.dying => /\ s.phase \in {"Syncing", "Failed"}
                              /\ c = <<s.set, s.cur>> /\ s.cur \notin s.done
          BY <1>1, <4>3, <4>5, <4>6 DEF Alike
        <4> QED
          BY <1>0, <4>1, <4>3, <4>4, <4>7, TempFrom
      <3> QED
        BY <3>1, <3>2
    <2>3. \A d \in Slots : TempFits(d)'
      BY <2>1, <2>2, TempOwn
    <2>4. ASSUME NEW m \in Movers PROVE CopyFits(m)'
      <3>1. ASSUME mig[m].st = "running" \/ (mig[m].st = "ok" /\ ~ mig[m].dying)
            PROVE  temp'[SlotOf(m)] = temp[SlotOf(m)]
        <4>1. PICK d : d = SlotOf(m)
          OBVIOUS
        <4>2. d \in Slots /\ temp[d] # NoTemp
          BY <3>1, <4>1, CopyNow DEF Live
        <4> QED
          BY <2>1, <4>1, <4>2
      <3> QED
        BY <1>2, <3>1, CopyKept DEF CampaignInv, TempInv
    <2> QED
      BY <1>2, <2>3, <2>4, NoSwap DEF TempInv
  <1> QED
    BY <1>3, <1>4

LEMMA TempsAwait ==
    ASSUME TidyUse, CampaignInv, NEW n, NEW v, Runs(n, v), Reconcile, run.at = "await"
    PROVE  TempInv'
  <1>0. QueueInv /\ run.at # "idle" /\ AwaitPod /\ UNCHANGED temp
    BY ActionIs, FrameIs DEF CampaignInv, Runs
  <1>1. PICK j \in Movers : j = <<n, v.cur>>
    BY CurIs
  <1>2. run'.at # "swap"
    BY SwapNext
  <1>3. /\ \A k \in Movers \ {j} : mig'[k] = mig[k]
        /\ mig'[j] = mig[j] \/ mig'[j].st = "pending"
    BY <1>0, <1>1, AwaitIs
  <1>4. \A c \in Slots : TempFits(c)'
    BY <1>0, TempOwn
  <1>5. \A m \in Movers : mig'[m] = mig[m] => CopyFits(m)'
    BY <1>0, CopyKept DEF CampaignInv, TempInv
  <1>6. \A m \in Movers : mig'[m].st = "pending" => CopyFits(m)'
    BY CopyOff
  <1> QED
    BY <1>2, <1>3, <1>4, <1>5, <1>6, NoSwap DEF TempInv

LEMMA TempsCopy ==
    ASSUME TidyUse, CampaignInv, NEW n, NEW v, Runs(n, v), Reconcile, run.at = "copy"
    PROVE  TempInv'
  <1>0. /\ QueueInv /\ run.at # "idle" /\ AwaitCopy /\ UNCHANGED temp
        /\ n = run.name /\ v = run.vr /\ n \in Names
        /\ run \in [name : Names, at : Steps \ {"idle"}, vr : RequestRecords]
    BY ActionIs, FrameIs, RunIs DEF CampaignInv, Runs
  <1>1. PICK j \in Movers : j = <<n, v.cur>> /\ j[1] = n /\ j[2] = v.cur
    BY CurIs
  <1>2. CASE run'.at # "swap"
    <2>1. UNCHANGED mig
      <3>1. ~ Goes("swap")
        BY <1>0, <1>2 DEF Goes
      <3> QED
        BY <1>0, <1>1, <3>1, CopyIs
    <2> QED
      BY <1>0, <1>2, <2>1, TempsQuiet
  <1>3. CASE run'.at = "swap"
    <2>1. Goes("swap") /\ run'.name = n /\ run'.vr = v
      BY <1>0, <1>3, SwapNext DEF Goes
    <2>2. /\ mig[j].st \in {"absent", "ok"} /\ \A k \in Movers \ {j} : mig'[k] = mig[k]
          /\ mig'[j].set = mig[j].set /\ mig'[j].st = mig[j].st
          /\ mig[j] # NoMover => mig'[j].dying
      BY <1>0, <1>1, <1>3, CopyIs
      DEF GivesUp, Idles, Idle, Saves, Refuses, Writes
    <2>3. mig[j] # NoMover /\ ~ Told(j)
      BY <1>0, <1>1, CopyRunNow, NotTold DEF BeforeSwap
    <2>4. mig[j].st = "ok" /\ ~ mig[j].dying /\ mig'[j].dying
      BY <1>1, <2>2, <2>3 DEF CampaignInv, MoverInv, MoverFits
    <2>5. PICK c : c = SlotOf(j)
      OBVIOUS
    <2>6. c = <<v.set, v.cur>>
      <3>1. Alike(v, Stored(n)) /\ Stored(n).phase # "Gone"
        BY HeldIs DEF Migrating, BeforeSwap, Exists
      <3>2. mig[j].set = v.set
        BY <1>1, <2>3, <3>1 DEF CampaignInv, MoverInv, MoverFits, Alike
      <3> QED
        BY <1>1, <2>5, <3>2 DEF SlotOf
    <2>7. temp[c] # NoTemp /\ temp[c].owner = n /\ temp[c].full /\ ~ temp[c].dying
      BY <1>1, <2>4, <2>5, CopyNow DEF Live
    <2>8. SwapRunFits'
      BY <1>0, <2>1, <2>6, <2>7, SwapFrom
    <2>9. CopyFits(j)'
      BY <2>2, <2>4, CopyOff
    <2>10. \A m \in Movers \ {j} : CopyFits(m)'
      BY <1>0, <2>2, CopyKept DEF CampaignInv, TempInv
    <2>11. \A d \in Slots : TempFits(d)'
      BY <1>0, TempOwn
    <2> QED
      BY <2>8, <2>9, <2>10, <2>11 DEF TempInv
  <1> QED
    BY <1>2, <1>3

LEMMA TempsSwap ==
    ASSUME TidyUse, CampaignInv, NEW n, NEW v, Runs(n, v), Reconcile, run.at = "swap"
    PROVE  TempInv'
  <1>0. /\ QueueInv /\ run.at # "idle" /\ Swap /\ UNCHANGED mig
        /\ v = run.vr /\ n \in Names /\ v \in RequestRecords
        /\ run'.at # "swap"
    <2>1. QueueInv /\ v = run.vr /\ n \in Names /\ v \in RequestRecords
      BY DEF CampaignInv, Runs
    <2>2. run.at # "idle" /\ Swap
      BY ActionIs
    <2>3. UNCHANGED mig
      BY <2>1, <2>2, FrameIs
    <2>4. run'.at # "swap"
      BY SwapNext
    <2> QED
      BY <2>1, <2>2, <2>3, <2>4
  <1>1. PICK c \in Slots, j \in Movers :
            c = <<v.set, v.cur>> /\ j = <<n, v.cur>> /\ j[1] = n /\ j[2] = v.cur
    BY CurIs
  <1>2. temp[c] # NoTemp /\ temp[c].owner = n
    BY <1>0, <1>1, SwapNow
  <1>3. /\ \A d \in Slots \ {c} : temp'[d] = temp[d]
        /\ temp'[c] = NoTemp /\ Saves(n, Swapped(v), "recreate")
    <2>1. temp[<<v.set, v.cur>>] # NoTemp
      BY <1>1, <1>2
    <2>2. /\ \A d \in Slots \ {<<v.set, v.cur>>} : temp'[d] = temp[d]
          /\ temp'[<<v.set, v.cur>>] = NoTemp /\ Saves(n, Swapped(v), "recreate")
      BY <1>0, <2>1, SwapIs
    <2> QED
      BY <1>1, <2>2
  <1>4. ASSUME NEW d \in Slots PROVE TempFits(d)'
    <2>1. CASE d = c
      BY <1>3, <2>1 DEF TempFits
    <2>2. CASE d # c /\ temp[d].owner # n
      BY <1>3, <2>2, TempOther
    <2>3. CASE d # c /\ temp[d].owner = n
      <3>1. PICK b : b = temp[d] /\ b.owner = n /\ b = temp'[d]
        BY <1>3, <2>3
      <3>2. PICK s : s = Stored(n) /\ Alike(v, s) /\ s.phase # "Gone"
        BY HeldIs DEF Migrating, BeforeSwap, Exists
      <3>3. PICK w : w = Stored(n)'
        OBVIOUS
      <3>4. v.incarnation = 1 /\ w.incarnation = 1 /\ w.size = v.size
        <4>1. CASE Refuses(n)
          <5>1. w = s
            BY <1>0, <3>2, <3>3, <4>1 DEF Refuses, GivesUp, Idles, SameVersions
          <5> QED
            BY <3>2, <5>1, RunVersion DEF Alike
        <4>2. CASE ~ Refuses(n)
          <5>1. w = Swapped(v)
            BY <1>3, <3>3, <4>2 DEF Saves, Writes
          <5> QED
            BY <1>0, <5>1, WrittenIs, RunVersion
        <4> QED
          BY <4>1, <4>2
      <3>5. b # NoTemp => b.cap = v.size /\ b.dying
        <4> SUFFICES ASSUME b # NoTemp PROVE b.cap = v.size /\ b.dying
          OBVIOUS
        <4>1. Stored(b.owner) = s
          BY <3>1, <3>2
        <4>2. /\ s.phase # "Gone" => b.cap = s.size
              /\ ~ b.dying => d = <<s.set, s.cur>>
          BY <3>1, <4>1, TempNow
        <4>3. s.set = v.set /\ s.cur = v.cur /\ s.size = v.size
          BY <3>2 DEF Alike
        <4> QED
          BY <1>1, <2>3, <3>2, <4>2, <4>3
      <3>6. Stored(b.owner)' = w
        BY <3>1, <3>3 DEF Stored
      <3> QED
        BY <1>0, <3>1, <3>4, <3>5, <3>6, TempFrom
    <2> QED
      BY <2>1, <2>2, <2>3
  <1>5. ASSUME NEW m \in Movers PROVE CopyFits(m)'
    <2>1. ASSUME mig[m].st = "running" \/ (mig[m].st = "ok" /\ ~ mig[m].dying)
          PROVE  temp'[SlotOf(m)] = temp[SlotOf(m)]
      <3>1. PICK d : d = SlotOf(m)
        OBVIOUS
      <3>2. d \in Slots /\ temp[d].owner = m[1] /\ m[2] = d[2]
        BY <2>1, <3>1, CopyNow DEF Live
      <3>3. d # c
        <4> SUFFICES ASSUME d = c PROVE FALSE
          OBVIOUS
        <4>1. m = j
          BY <1>1, <1>2, <3>2 DEF Movers
        <4>2. mig[j].st # "running" /\ ~ Live(j)
          BY <1>0, <1>1, CopyRunNow
        <4> QED
          BY <2>1, <4>1, <4>2 DEF Live
      <3> QED
        BY <1>3, <3>1, <3>2, <3>3
    <2> QED
      BY <1>0, <2>1, CopyKept DEF CampaignInv, TempInv
  <1> QED
    BY <1>0, <1>4, <1>5, NoSwap DEF TempInv

LEMMA TempsDeletion ==
    ASSUME TidyUse, CampaignInv, NEW n, NEW v, Runs(n, v), Reconcile, run.at = "deletion"
    PROVE  TempInv'
  <1>0. /\ QueueInv /\ run.at # "idle" /\ HandleDeletion
        /\ v = run.vr /\ n \in Names /\ n # NoName /\ run'.at # "swap"
    BY ActionIs, SwapNext, QueueAssumption DEF CampaignInv, Runs
  <1>1. /\ \A c \in Slots :
              /\ temp[c].owner # n => temp'[c] = temp[c]
              /\ temp[c].owner = n => /\ temp'[c].dying /\ temp'[c].owner = n
                                      /\ temp'[c].cap = temp[c].cap
        /\ \A m \in Movers :
              /\ m[1] # n \/ mig[m] = NoMover => mig'[m] = mig[m]
              /\ m[1] = n /\ mig[m] # NoMover =>
                    /\ mig'[m].dying /\ mig'[m].st = mig[m].st
                    /\ mig'[m].set = mig[m].set
        /\ Saves(n, GoneAfter(v.incarnation), "idle")
    BY <1>0, DeletionIs
  <1>2. PICK w : w = Stored(n)' /\ w.phase = "Gone" /\ w.incarnation = 1
    <2>1. v.incarnation = 1
      BY RunVersion
    <2>2. CASE Refuses(n)
      <3>1. Stored(n)' = GoneAfter(1)
        BY <1>0, <2>2, HoldsNow DEF Refuses, GivesUp, Idles, SameVersions
      <3> QED
        BY <3>1, GoneIs
    <2>3. CASE ~ Refuses(n)
      <3>1. Stored(n)' = GoneAfter(1)
        BY <1>1, <2>1, <2>3 DEF Saves, Writes
      <3> QED
        BY <3>1, GoneIs
    <2> QED
      BY <2>2, <2>3
  <1>3. ASSUME NEW c \in Slots PROVE TempFits(c)'
    <2>1. CASE temp[c].owner # n
      BY <1>1, <2>1, TempOther
    <2>2. CASE temp[c].owner = n
      <3>1. PICK b : b = temp'[c]
        OBVIOUS
      <3>2. b.dying /\ b.owner = n
        BY <1>1, <2>2, <3>1
      <3>3. Stored(b.owner)' = w
        BY <1>2, <3>2 DEF Stored
      <3> QED
        BY <1>0, <1>2, <3>1, <3>2, <3>3, TempFrom
    <2> QED
      BY <2>1, <2>2
  <1>4. ASSUME NEW m \in Movers PROVE CopyFits(m)'
    <2>1. CASE mig[m].st \notin {"running", "ok"}
      <3>1. mig'[m].st \notin {"running", "ok"}
        BY <1>1, <2>1
      <3> QED
        BY <3>1, CopyOff
    <2>2. CASE m[1] # n
      <3>1. ASSUME mig[m].st = "running" \/ (mig[m].st = "ok" /\ ~ mig[m].dying)
            PROVE  temp'[SlotOf(m)] = temp[SlotOf(m)]
        <4>1. PICK d : d = SlotOf(m)
          OBVIOUS
        <4>2. d \in Slots /\ temp[d].owner = m[1]
          BY <3>1, <4>1, CopyNow DEF Live
        <4> QED
          BY <1>1, <2>2, <4>1, <4>2
      <3> QED
        BY <1>1, <2>2, <3>1, CopyKept DEF CampaignInv, TempInv
    <2>3. CASE m[1] = n /\ mig[m].st = "ok"
      <3>1. mig[m] # NoMover
        BY <2>3 DEF NoMover
      <3>2. mig'[m].dying /\ mig'[m].st = "ok"
        BY <1>1, <2>3, <3>1
      <3> QED
        BY <3>2, CopyOff
    <2>4. CASE m[1] = n /\ mig[m].st = "running"
      <3>1. mig[m] # NoMover
        BY <2>4 DEF NoMover
      <3>2. PICK d : d = SlotOf(m)
        OBVIOUS
      <3>3. d \in Slots /\ temp[d].owner = n
        BY <2>4, <3>2, CopyNow
      <3>4. mig'[m].dying /\ mig'[m].st = "running" /\ mig'[m].set = mig[m].set
        BY <1>1, <2>4, <3>1
      <3>5. temp'[d].dying /\ temp'[d].owner = n
        BY <1>1, <3>3
      <3>6. temp'[d] # NoTemp
        BY <1>0, <3>5 DEF NoTemp
      <3>7. SlotOf(m)' = d
        BY <3>2, <3>4 DEF SlotOf
      <3> QED
        BY <2>4, <3>4, <3>5, <3>6, <3>7 DEF CopyFits, Holds
    <2> QED
      BY <2>1, <2>2, <2>3, <2>4
  <1> QED
    BY <1>0, <1>3, <1>4, NoSwap DEF TempInv

LEMMA TempsRun ==
    ASSUME TidyUse, CampaignInv, NEW n, NEW v, Runs(n, v), Reconcile
    PROVE  TempInv'
  <1>1. CASE run.at \in {"prepare", "await", "copy", "swap", "deletion"}
    BY <1>1, TempsPrepare, TempsAwait, TempsCopy, TempsSwap, TempsDeletion
  <1>2. CASE run.at \notin {"prepare", "await", "copy", "swap", "deletion"}
    BY <1>2, SwapNext, FrameIs, TempsQuiet DEF CampaignInv
  <1> QED
    BY <1>1, <1>2

(* The cluster: a copy that starts finds the temporary claim of its own
   VolumeResize, *)
LEMMA TempsStarts ==
    ASSUME CampaignInv, NEW m \in Movers, MigStarts(m)
    PROVE  TempInv'
  <1>0. /\ QueueInv /\ SameVersions /\ UNCHANGED <<run, temp>> /\ m[1] \in Names
        /\ mig \in [Movers -> [set : Sets \cup {NoSet}, dying : BOOLEAN,
                      st : {"absent", "pending", "running", "ok", "bad"}]]
    BY RestIs DEF CampaignInv, QueueInv, ClusterOK, PodsOK, Movers, MigStarts
  <1>1. PICK c : c = SlotOf(m)
    OBVIOUS
  <1>2. /\ mig[m].st = "pending" /\ ~ mig[m].dying /\ Live(m) /\ mig[m] # NoMover
        /\ temp[c] # NoTemp /\ ~ temp[c].dying
    BY <1>1 DEF MigStarts, Live, NoMover
  <1>3. c \in Slots
    BY <1>1, <1>2, CopyNow
  <1>4. PICK s : s = Stored(m[1])
    OBVIOUS
  <1>5. s.phase = "Syncing" /\ mig[m].set = s.set
    BY <1>2, <1>4 DEF CampaignInv, MoverInv, MoverFits
  <1>6. temp[c].owner = m[1]
    <2>1. PICK o \in Names : o = temp[c].owner
      BY <1>2, <1>3 DEF CampaignInv, TempInv, TempFits
    <2>2. Stored(o).phase \in {"Syncing", "Failed"} /\ c = <<Stored(o).set, Stored(o).cur>>
      BY <1>2, <1>3, <2>1 DEF CampaignInv, TempInv, TempFits
    <2>3. Stored(o).set = s.set
      BY <1>1, <1>5, <2>2 DEF SlotOf
    <2>4. o # m[1] => Alone(m[1], o)
      BY <1>0 DEF CampaignInv, AloneInv
    <2> QED
      BY <1>4, <1>5, <2>1, <2>2, <2>3, <2>4 DEF Alone, Exists
  <1>7. /\ \A k \in Movers \ {m} : mig'[k] = mig[k]
        /\ mig'[m].st = "running" /\ mig'[m].set = mig[m].set /\ ~ mig'[m].dying
    BY <1>0, <1>2 DEF MigStarts
  <1>8. CopyFits(m)'
    <2>1. SlotOf(m)' = c
      BY <1>1, <1>7 DEF SlotOf
    <2> QED
      BY <1>0, <1>2, <1>6, <1>7, <2>1 DEF CopyFits, Holds
  <1>9. \A k \in Movers \ {m} : CopyFits(k)'
    BY <1>0, <1>7, CopyKept DEF CampaignInv, TempInv
  <1>10. \A d \in Slots : TempFits(d)'
    BY <1>0, TempKept DEF SameVersions
  <1>11. SwapRunFits'
    BY <1>0 DEF CampaignInv, TempInv, SwapRunFits, Holds, Cur
  <1> QED
    BY <1>8, <1>9, <1>10, <1>11 DEF TempInv

(* one that ends is whole, because the pod is down and the claim is whole, *)
LEMMA TempsEnds ==
    ASSUME CampaignInv, NEW m \in Movers, MigEnds(m)
    PROVE  TempInv'
  <1>0. /\ QueueInv /\ SameVersions /\ UNCHANGED run /\ m[1] \in Names
        /\ mig \in [Movers -> [set : Sets \cup {NoSet}, dying : BOOLEAN,
                      st : {"absent", "pending", "running", "ok", "bad"}]]
        /\ temp \in [Slots -> [owner : Names \cup {NoName}, cap : AnySize,
                               full : BOOLEAN, dying : BOOLEAN]]
    BY RestIs DEF CampaignInv, QueueInv, ClusterOK, PodsOK, ClaimsOK, Movers, MigEnds
  <1>1. PICK c : c = SlotOf(m)
    OBVIOUS
  <1>2. mig[m].st = "running" /\ mig[m] # NoMover
    BY DEF MigEnds, NoMover
  <1>3. /\ c \in Slots /\ m[2] = c[2] /\ temp[c] # NoTemp /\ temp[c].owner = m[1]
        /\ mig[m].dying <=> temp[c].dying
    BY <1>1, <1>2, CopyNow
  <1>4. /\ \A k \in Movers \ {m} : mig'[k] = mig[k]
        /\ mig'[m].st = "ok" /\ mig'[m].set = mig[m].set /\ mig'[m].dying = mig[m].dying
        /\ \A d \in Slots \ {c} : temp'[d] = temp[d]
        /\ temp'[c].owner = temp[c].owner /\ temp'[c].cap = temp[c].cap
        /\ temp'[c].dying = temp[c].dying
        /\ temp'[c].full = (claim[c].full /\ pod[c] = "down")
    BY <1>0, <1>1, <1>3 DEF MigEnds
  <1>5. temp'[c] # NoTemp
    BY <1>0, <1>3, <1>4, QueueAssumption DEF NoTemp
  <1>6. CopyFits(m)'
    <2>1. CASE mig[m].dying
      BY <1>4, <2>1, CopyOff
    <2>2. CASE ~ mig[m].dying
      <3>1. Live(m)
        BY <1>2, <2>2 DEF Live
      <3>2. PICK s : s = Stored(m[1])
        OBVIOUS
      <3>3. /\ s.phase = "Syncing" /\ mig[m].set = s.set /\ s.cur = m[2]
            /\ s.stsDeleted /\ pod[c] = "down"
        BY <1>1, <1>2, <3>1, <3>2 DEF CampaignInv, MoverInv, MoverFits
      <3>4. claim[<<s.set, s.cur>>] # NoClaim
        BY <1>0, <3>2, <3>3 DEF CampaignInv, ClaimInv, DoneFits
      <3>5. c = <<s.set, s.cur>>
        BY <1>1, <3>3 DEF SlotOf
      <3>6. claim[c].full
        BY <1>3, <3>4, <3>5 DEF CampaignInv, ClaimInv, Whole
      <3>7. SlotOf(m)' = c
        BY <1>1, <1>4 DEF SlotOf
      <3> QED
        BY <1>3, <1>4, <1>5, <2>2, <3>3, <3>6, <3>7 DEF CopyFits, Holds
    <2> QED
      BY <2>1, <2>2
  <1>7. ASSUME NEW k \in Movers \ {m} PROVE CopyFits(k)'
    <2>1. ASSUME mig[k].st = "running" \/ (mig[k].st = "ok" /\ ~ mig[k].dying)
          PROVE  temp'[SlotOf(k)] = temp[SlotOf(k)]
      <3>1. PICK d : d = SlotOf(k)
        OBVIOUS
      <3>2. d \in Slots /\ temp[d].owner = k[1] /\ k[2] = d[2]
        BY <2>1, <3>1, CopyNow DEF Live
      <3>3. d # c
        BY <1>3, <3>2 DEF Movers
      <3> QED
        BY <1>4, <3>1, <3>2, <3>3
    <2> QED
      BY <1>4, <2>1, CopyKept DEF CampaignInv, TempInv
  <1>8. ASSUME NEW d \in Slots PROVE TempFits(d)'
    <2>1. CASE d # c
      BY <1>0, <1>4, <2>1, TempKept DEF SameVersions
    <2>2. CASE d = c
      <3>1. PICK b : b = temp'[c]
        OBVIOUS
      <3>2. PICK s : s = Stored(m[1])
        OBVIOUS
      <3>3. PICK a : a = temp[c] /\ a # NoTemp /\ Stored(a.owner) = s
        BY <1>3, <3>2
      <3>4. /\ a.owner \in Names /\ s.incarnation = 1
            /\ s.phase # "Gone" => a.cap = s.size
            /\ ~ a.dying => /\ s.phase \in {"Syncing", "Failed"}
                            /\ c = <<s.set, s.cur>> /\ s.cur \notin s.done
        BY <1>3, <3>3, TempNow
      <3>5. b.owner = m[1] /\ a.owner = m[1] /\ b.cap = a.cap /\ b.dying = a.dying
        BY <1>3, <1>4, <3>1, <3>3
      <3>6. Stored(b.owner)' = s
        <4>1. Stored(b.owner)' = Stored(m[1])'
          BY <3>5 DEF Stored
        <4> QED
          BY <1>0, <3>2, <4>1 DEF SameVersions
      <3> QED
        BY <1>3, <2>2, <3>1, <3>4, <3>5, <3>6, TempFrom
    <2> QED
      BY <2>1, <2>2
  <1>9. SwapRunFits'
    <2>1. CASE run.at # "swap"
      BY <1>0, <2>1, NoSwap
    <2>2. CASE run.at = "swap"
      <3>0. PICK n \in Names : \E v : Runs(n, v)
        BY <1>0, <2>2, RunsIs
      <3>1. PICK v : Runs(n, v)
        BY <3>0
      <3>2. PICK d \in Slots, j \in Movers :
                d = <<v.set, v.cur>> /\ j = <<n, v.cur>> /\ j[1] = n /\ j[2] = v.cur
        BY <3>1, CurIs
      <3>3. temp[d] # NoTemp /\ temp[d].owner = n /\ temp[d].full /\ ~ temp[d].dying
        BY <2>2, <3>1, <3>2, SwapNow
      <3>4. d # c
        <4> SUFFICES ASSUME d = c PROVE FALSE
          OBVIOUS
        <4>1. m = j
          BY <1>3, <3>2, <3>3 DEF Movers
        <4>2. mig[j].st # "running"
          BY <2>2, <3>1, <3>2, CopyRunNow
        <4> QED
          BY <1>2, <4>1, <4>2
      <3>5. temp'[d] = temp[d] /\ run'.name = n /\ run'.vr = v
        BY <1>0, <1>4, <3>1, <3>4 DEF Runs
      <3> QED
        BY <3>2, <3>3, <3>5, SwapFrom
    <2> QED
      BY <2>1, <2>2
  <1> QED
    BY <1>6, <1>7, <1>8, <1>9 DEF TempInv

(* and a temporary claim goes only behind the copy into it. *)
LEMMA TempsCluster ==
    ASSUME CampaignInv, ClusterStep
    PROVE  TempInv'
  <1>0. QueueInv /\ SameVersions /\ UNCHANGED run
    BY ClusterStepOK, RestIs DEF CampaignInv
  <1>1. ASSUME NEW c \in Slots, StartPod(c) \/ PodEnds(c) \/ PrunePod(c)
        PROVE  TempInv'
    BY <1>0, <1>1, TempsSame DEF StartPod, PodEnds, PrunePod, SameVersions
  <1>2. ASSUME NEW m \in Movers, MigFails(m) \/ MigGoes(m) PROVE TempInv'
    <2>1. mig \in [Movers -> [set : Sets \cup {NoSet}, dying : BOOLEAN,
                     st : {"absent", "pending", "running", "ok", "bad"}]]
      BY <1>0 DEF QueueInv, ClusterOK, PodsOK
    <2>2. /\ UNCHANGED temp /\ \A k \in Movers \ {m} : mig'[k] = mig[k]
          /\ mig'[m].st \in {"bad", "absent"}
      BY <1>2, <2>1 DEF MigFails, MigGoes, NoMover
    <2>3. CopyFits(m)'
      BY <2>2, CopyOff
    <2>4. \A k \in Movers \ {m} : CopyFits(k)'
      BY <2>2, CopyKept DEF CampaignInv, TempInv
    <2>5. \A d \in Slots : TempFits(d)'
      BY <1>0, <2>2, TempKept DEF SameVersions
    <2>6. SwapRunFits'
      BY <1>0, <2>2 DEF CampaignInv, TempInv, SwapRunFits, Holds, Cur
    <2> QED
      BY <2>3, <2>4, <2>5, <2>6 DEF TempInv
  <1>3. ASSUME NEW c \in Slots, TempGoes(c) PROVE TempInv'
    <2>1. /\ temp[c].dying /\ UNCHANGED mig
          /\ \A m \in Movers : mig[m].st = "running" => SlotOf(m) # c
      BY <1>3 DEF TempGoes
    <2>2. temp'[c] = NoTemp /\ \A d \in Slots \ {c} : temp'[d] = temp[d]
      BY <1>0, <1>3 DEF TempGoes, QueueInv, ClusterOK, ClaimsOK
    <2>3. TempFits(c)'
      BY <2>2 DEF TempFits
    <2>4. \A d \in Slots \ {c} : TempFits(d)'
      BY <1>0, <2>2, TempKept DEF SameVersions
    <2>5. ASSUME NEW m \in Movers PROVE CopyFits(m)'
      <3>1. ASSUME mig[m].st = "running" \/ (mig[m].st = "ok" /\ ~ mig[m].dying)
            PROVE  temp'[SlotOf(m)] = temp[SlotOf(m)]
        <4>1. PICK d : d = SlotOf(m)
          OBVIOUS
        <4>2. d \in Slots /\ (mig[m].st = "ok" => ~ temp[d].dying)
          BY <3>1, <4>1, CopyNow DEF Live
        <4>3. d # c
          BY <2>1, <3>1, <4>1, <4>2
        <4> QED
          BY <2>2, <4>1, <4>2, <4>3
      <3> QED
        BY <2>1, <3>1, CopyKept DEF CampaignInv, TempInv
    <2>6. SwapRunFits'
      <3>1. CASE run.at # "swap"
        BY <1>0, <3>1, NoSwap
      <3>2. CASE run.at = "swap"
        <4>0. PICK n \in Names : \E v : Runs(n, v)
          BY <1>0, <3>2, RunsIs
        <4>1. PICK v : Runs(n, v)
          BY <4>0
        <4>2. PICK d \in Slots : d = <<v.set, v.cur>>
          BY <4>1, CurIs
        <4>3. temp[d] # NoTemp /\ temp[d].owner = n /\ temp[d].full /\ ~ temp[d].dying
          BY <3>2, <4>1, <4>2, SwapNow
        <4>4. temp'[d] = temp[d] /\ run'.name = n /\ run'.vr = v
          BY <1>0, <2>1, <2>2, <4>1, <4>3 DEF Runs
        <4> QED
          BY <4>2, <4>3, <4>4, SwapFrom
      <3> QED
        BY <3>1, <3>2
    <2> QED
      BY <2>3, <2>4, <2>5, <2>6 DEF TempInv
  <1> QED
    BY <1>1, <1>2, <1>3, TempsStarts, TempsEnds DEF ClusterStep

LEMMA TempsStep ==
    ASSUME TidyUse, CampaignInv, [Next]_vars
    PROVE  TempInv'
  <1>0. QueueInv
    BY DEF CampaignInv
  <1>1. CASE Begin
    <2>1. SameVersions /\ UNCHANGED <<temp, mig>>
      BY <1>0, <1>1, BeginIs DEF clusterVars
    <2>2. run'.at # "swap"
      <3>1. CASE run' = Idle
        BY <3>1 DEF Idle
      <3>2. CASE run' # Idle
        <4>1. PICK n \in Names :
                /\ run' = [name |-> n, at |-> Route(Cached(n)), vr |-> Cached(n)]
                /\ Route(Cached(n)) # "idle"
          BY <1>0, <1>1, <3>2, BeginIs
        <4>2. Cached(n) \in RequestRecords /\ VersionFits(Cached(n))
          BY <1>0, StoredOK DEF QueueInv, VersionOK, CampaignInv, VersionsInv
        <4> QED
          BY <4>1, <4>2, RouteIs
      <3> QED
        BY <3>1, <3>2
    <2> QED
      BY <2>1, <2>2, TempsSame DEF SameVersions
  <1>2. ASSUME NEW n, NEW v, Runs(n, v), Reconcile PROVE TempInv'
    BY <1>2, TempsRun
  <1>3. ASSUME NEW n \in Names, Informer(n) PROVE TempInv'
    <2>1. /\ Stored(n)' = Stored(n) /\ Elsewhere(n) /\ UNCHANGED <<run, temp, mig>>
      BY <1>0, <1>3, InformerIs DEF clusterVars
    <2> QED
      BY <2>1, TempsSame DEF Elsewhere
  <1>4. CASE (\E s \in Sets : Edit(s) \/ Restore(s)) \/ (Calm /\ SameVersions)
    <2>1. UNCHANGED <<run, temp, mig>> /\ SameVersions
      BY <1>0, <1>4, EditStep, RestIs DEF Edit, Restore, Calm, clusterVars
    <2> QED
      BY <2>1, TempsSame DEF SameVersions
  <1>5. ASSUME Calm, NEW n \in Names, Elsewhere(n),
               \A c \in Slots : temp[c].owner = n => TempFits(c)'
        PROVE  TempInv'
    <2>1. UNCHANGED <<run, temp, mig>>
      BY <1>5 DEF Calm, clusterVars
    <2>2. ASSUME NEW c \in Slots, temp[c].owner # n PROVE TempFits(c)'
      BY <1>5, <2>1, <2>2, TempKept DEF Elsewhere
    <2>3. \A m \in Movers : CopyFits(m)'
      BY <2>1, CopyKept DEF CampaignInv, TempInv
    <2>4. SwapRunFits'
      BY <2>1 DEF CampaignInv, TempInv, SwapRunFits, Holds, Cur
    <2> QED
      BY <1>5, <2>2, <2>3, <2>4 DEF TempInv
  <1>6. ASSUME Calm, NEW t \in Terminals, NEW n \in Names, Creates(t, n) PROVE TempInv'
    <2>1. Stored(n).incarnation = 0
      BY <1>6, GoneIs DEF Creates
    <2>2. ASSUME NEW c \in Slots, temp[c].owner = n PROVE TempFits(c)'
      <3>1. temp[c] = NoTemp
        BY <2>1, <2>2 DEF CampaignInv, TempInv, TempFits
      <3> QED
        BY <1>6, <3>1 DEF TempFits, Calm, clusterVars
    <2> QED
      BY <1>5, <1>6, <2>2 DEF Creates
  <1>7. ASSUME Calm, NEW n \in Names, Deletes(n) PROVE TempInv'
    <2>1. PICK s \in RequestRecords : s = Stored(n) /\ VersionFits(s) /\ s.phase # "Gone"
      BY <1>0, <1>7, StoredOK DEF QueueInv, VersionOK, CampaignInv, VersionsInv, Deletes, Exists
    <2>2. Stored(n)' = IF s.finalizer THEN Marked(s) ELSE GoneAfter(1)
      BY <1>7, <2>1 DEF Deletes
    <2>3. KeepsTemps(s, Stored(n)')
      <3>1. CASE s.finalizer
        BY <2>1, <2>2, <3>1, MarkedIs DEF KeepsTemps, Alike, VersionFits
      <3>2. CASE ~ s.finalizer
        <4>1. s.phase = "Pending"
          BY <2>1, <3>2 DEF VersionFits
        <4> QED
          BY <2>2, <3>2, <4>1, GoneIs DEF KeepsTemps
      <3> QED
        BY <3>1, <3>2
    <2>4. UNCHANGED temp
      BY <1>7 DEF Calm, clusterVars
    <2>5. PICK w : w = Stored(n)'
      OBVIOUS
    <2>6. KeepsTemps(s, w)
      BY <2>3, <2>5 DEF KeepsTemps
    <2>7. ASSUME NEW c \in Slots, temp[c].owner = n PROVE TempFits(c)'
      BY <2>1, <2>4, <2>5, <2>6, <2>7, TempMoved
    <2> QED
      BY <1>5, <1>7, <2>7 DEF Deletes
  <1> QED
    BY <1>1, <1>2, <1>3, <1>4, <1>6, <1>7, TempsCluster, StepIs

-----------------------------------------------------------------------------
(* The claims. *)

(* A claim that is there stays as it is. *)
ClaimsGrow == \A c \in Slots : claim[c] # NoClaim => claim'[c] = claim[c]
SizesFit ==
    /\ \A c \in Slots : Whole(c) /\ claim[c].size <= claim[c].cap
    /\ InitReplicas = MaxReplicas => \A c \in Slots : claim[c] # NoClaim
RunClaimed == run.at \in BeforeSwap \ {"prepare"} => claim[Cur] # NoClaim

LEMMA SlotIs ==
    ASSUME NEW v \in RequestRecords, v.set \in Sets
    PROVE  /\ <<v.set, v.cur>> \in Slots /\ <<v.set, 0>> \in Slots
           /\ \A r \in v.done : <<v.set, r>> \in Slots
  <1>1. 0 \in Ordinals
    BY QueueAssumption DEF Ordinals
  <1> QED
    BY <1>1 DEF Slots, RequestRecords

LEMMA SizeIs == ASSUME NEW v \in RequestRecords PROVE v.size \in Nat
  <1>1. PICK k : k = v.size
    OBVIOUS
  <1>2. k \in Sizes \cup {0}
    BY <1>1 DEF RequestRecords
  <1>3. Sizes \subseteq Nat
    BY RequestsAssumption
  <1>4. k \in Nat
    BY <1>2, <1>3
  <1> QED
    BY <1>1, <1>4

LEMMA DoneFrom ==
    ASSUME NEW n, NEW s, Stored(n)' = s,
           /\ s.phase = "Syncing" /\ s.stsDeleted => claim'[<<s.set, s.cur>>] # NoClaim
           /\ s.phase = "Syncing" => \A r \in s.done : /\ claim'[<<s.set, r>>] # NoClaim
                                                       /\ claim'[<<s.set, r>>].size = s.size
           /\ s.phase = "Completed" => \A r \in s.done : /\ claim'[<<s.set, r>>].full
                                                         /\ claim'[<<s.set, r>>].size <= s.size
    PROVE  DoneFits(n)'
  BY DEF DoneFits

LEMMA DoneNow ==
    ASSUME CampaignInv, NEW n \in Names, NEW s, Stored(n) = s
    PROVE  /\ s.phase = "Syncing" /\ s.stsDeleted => claim[<<s.set, s.cur>>] # NoClaim
           /\ s.phase = "Syncing" => \A r \in s.done : /\ claim[<<s.set, r>>] # NoClaim
                                                       /\ claim[<<s.set, r>>].size = s.size
           /\ s.phase = "Completed" => \A r \in s.done : /\ claim[<<s.set, r>>].full
                                                         /\ claim[<<s.set, r>>].size <= s.size
  BY DEF CampaignInv, ClaimInv, DoneFits

LEMMA StoredSlots ==
    ASSUME CampaignInv, NEW n \in Names, NEW s, Stored(n) = s
    PROVE  /\ s \in RequestRecords /\ VersionOK(s) /\ VersionFits(s)
           /\ s.phase # "Gone" =>
                 /\ s.set \in Sets /\ <<s.set, s.cur>> \in Slots /\ <<s.set, 0>> \in Slots
                 /\ \A r \in s.done : <<s.set, r>> \in Slots
  <1>1. s \in RequestRecords /\ VersionOK(s) /\ VersionFits(s)
    BY StoredOK DEF CampaignInv, QueueInv, VersionOK, VersionsInv
  <1>2. s.phase # "Gone" => s.set \in Sets
    BY <1>1 DEF VersionOK
  <1> QED
    BY <1>1, <1>2, SlotIs

LEMMA DoneKept ==
    ASSUME CampaignInv, NEW n \in Names, Stored(n)' = Stored(n), ClaimsGrow
    PROVE  DoneFits(n)'
  <1>1. PICK s : s = Stored(n)
    OBVIOUS
  <1>2. /\ s.phase # "Gone" => /\ <<s.set, s.cur>> \in Slots
                               /\ \A r \in s.done : <<s.set, r>> \in Slots
    BY <1>1, StoredSlots
  <1>3. ~ NoClaim.full
    BY DEF NoClaim
  <1>4. /\ s.phase = "Syncing" /\ s.stsDeleted => claim'[<<s.set, s.cur>>] # NoClaim
        /\ s.phase = "Syncing" => \A r \in s.done : /\ claim'[<<s.set, r>>] # NoClaim
                                                    /\ claim'[<<s.set, r>>].size = s.size
    BY <1>1, <1>2, DoneNow DEF ClaimsGrow
  <1>5. s.phase = "Completed" => \A r \in s.done : /\ claim'[<<s.set, r>>].full
                                                   /\ claim'[<<s.set, r>>].size <= s.size
    <2> SUFFICES ASSUME s.phase = "Completed", NEW r \in s.done
                 PROVE  claim'[<<s.set, r>>].full /\ claim'[<<s.set, r>>].size <= s.size
      OBVIOUS
    <2>1. PICK d \in Slots : d = <<s.set, r>>
      BY <1>2
    <2>2. claim[d].full /\ claim[d].size <= s.size
      BY <1>1, <2>1, DoneNow
    <2>3. claim'[d] = claim[d]
      BY <1>3, <2>2 DEF ClaimsGrow
    <2> QED
      BY <2>1, <2>2, <2>3
  <1> QED
    BY <1>1, <1>4, <1>5, DoneFrom

(* A version that is not about to be migrated, and was not. *)
LEMMA DoneOff ==
    ASSUME NEW n, NEW s, Stored(n)' = s, s.phase \notin {"Syncing", "Completed"}
    PROVE  DoneFits(n)'
  BY DoneFrom

LEMMA ClaimsSameFit == ASSUME CampaignInv, UNCHANGED claim PROVE SizesFit' /\ ClaimsGrow
  BY DEF CampaignInv, ClaimInv, SizesFit, Whole, ClaimsGrow

LEMMA ClaimedFrom ==
    ASSUME NEW n, NEW v, Runs(n, v), run'.vr.set = v.set, run'.vr.cur = v.cur,
           claim'[<<v.set, v.cur>>] # NoClaim
    PROVE  RunClaimed'
  BY DEF RunClaimed, Cur

LEMMA NotClaimed == ASSUME run'.at \notin BeforeSwap \ {"prepare"} PROVE RunClaimed'
  BY DEF RunClaimed

LEMMA ClaimedNow ==
    ASSUME CampaignInv, NEW n, NEW v, Runs(n, v), run.at \in BeforeSwap \ {"prepare"}
    PROVE  claim[<<v.set, v.cur>>] # NoClaim
  BY CurIs DEF CampaignInv, ClaimInv

LEMMA ClaimsFrom ==
    ASSUME SizesFit', RunClaimed', \A n \in Names : DoneFits(n)'
    PROVE  ClaimInv'
  BY DEF ClaimInv, SizesFit, RunClaimed

(* The claim a replica goes on with. *)
LEMMA RunClaimedRun ==
    ASSUME TidyUse, CampaignInv, NEW n, NEW v, Runs(n, v), Reconcile, run.at # "swap"
    PROVE  RunClaimed' /\ UNCHANGED claim
  <1>0. /\ QueueInv /\ v = run.vr /\ run.at # "idle"
        /\ run \in [name : Names, at : Steps \ {"idle"}, vr : RequestRecords]
    BY RunIs DEF CampaignInv, Runs
  <1>1. UNCHANGED claim
    BY <1>0, FrameIs
  <1>2. CASE Rests(n)
    BY <1>1, <1>2, NotClaimed DEF Rests, Idles, Idle, BeforeSwap
  <1>3. ASSUME NEW at, GoesOn(v, at), Goes(at) PROVE RunClaimed'
    <2>1. run'.vr = v /\ run'.at # "idle"
      BY <1>0, <1>3 DEF Goes, GoesOn
    <2>2. claim[<<v.set, v.cur>>] # NoClaim
      <3>1. CASE run.at = "prepare"
        <4>1. SameVersions
          BY <1>3 DEF Goes
        <4>2. Prepare
          BY <1>0, <3>1, ActionIs
        <4>3. ~ Saves(n, Failing(v), "idle")
          BY <2>1 DEF Saves, Refuses, GivesUp, Idles, Writes, Idle
        <4> QED
          BY <1>0, <4>2, <4>3, PrepareIs
      <3>2. CASE run.at # "prepare"
        BY <1>3, <3>2, ClaimedNow DEF GoesOn, BeforeSwap
      <3> QED
        BY <3>1, <3>2
    <2> QED
      BY <1>1, <2>1, <2>2, ClaimedFrom
  <1>4. ASSUME NEW w, NEW at, WrittenBy(v, w, at), Writes(n, w, at) PROVE RunClaimed'
    <2>1. CASE run.at # "delete"
      <3>1. at \notin BeforeSwap
        BY <1>4, <2>1 DEF WrittenBy, BeforeSwap
      <3>2. run'.at = at \/ run'.at = "idle"
        BY <1>0, <1>4 DEF Writes, Idle
      <3> QED
        BY <3>1, <3>2, NotClaimed DEF BeforeSwap
    <2>2. CASE run.at = "delete"
      <3>1. w = Deleted(v) /\ at = "stop"
        BY <1>4, <2>2 DEF WrittenBy
      <3>2. run'.vr = w /\ w.set = v.set /\ w.cur = v.cur
        BY <1>0, <1>4, <3>1, WrittenIs DEF Writes
      <3>3. claim[<<v.set, v.cur>>] # NoClaim
        BY <2>2, ClaimedNow DEF BeforeSwap
      <3> QED
        BY <1>1, <3>2, <3>3, ClaimedFrom
    <2> QED
      BY <2>1, <2>2
  <1> QED
    BY <1>1, <1>2, <1>3, <1>4, RunShape

(* What a run writes apart from a swap. *)
LEMMA DoneWritten ==
    ASSUME TidyUse, CampaignInv, NEW n, NEW v, Runs(n, v), Reconcile, run.at # "swap",
           NEW w, NEW at, WrittenBy(v, w, at), Writes(n, w, at)
    PROVE  DoneFits(n)'
  <1>0. /\ v \in RequestRecords /\ VersionOK(v) /\ v.set \in Sets /\ n \in Names
        /\ UNCHANGED claim /\ v = run.vr
    BY RunClaimedRun DEF Runs
  <1>1. Stored(n) = v /\ Stored(n)' = w
    BY <1>0 DEF Writes
  <1>2. /\ v.phase = "Syncing" /\ v.stsDeleted => claim[<<v.set, v.cur>>] # NoClaim
        /\ v.phase = "Syncing" => \A r \in v.done : /\ claim[<<v.set, r>>] # NoClaim
                                                    /\ claim[<<v.set, r>>].size = v.size
    BY <1>0, <1>1, DoneNow
  <1>3. CASE run.at \in {"finalizer", "pending", "deletion"} \/ w = Failing(v)
    <2>1. w.phase \notin {"Syncing", "Completed"}
      <3>1. run.at = "finalizer" => v.phase = "Pending"
        BY RunVersion
      <3> QED
        BY <1>0, <1>3, <3>1, WrittenIs, FailingIs, GoneIs DEF WrittenBy
    <2> QED
      BY <1>1, <2>1, DoneOff
  <1>4. CASE run.at = "validating" /\ w # Failing(v)
    <2>1. PICK k \in 0 .. MaxReplicas : k = sts[v.set].replicas
      BY <1>0, QueueAssumption DEF CampaignInv, QueueInv, ClusterOK, StsOK
    <2>2. w = Counted(v, k)
      BY <1>4, <2>1 DEF WrittenBy
    <2>3. v.done = {} /\ ~ v.stsDeleted
      BY <1>0, <1>4, RunVersion DEF VersionOK, VersionFits
    <2>4. w.phase = "Syncing" /\ w.done = {} /\ ~ w.stsDeleted
      BY <1>0, <2>2, <2>3, CountedIs
    <2> QED
      BY <1>1, <2>4, DoneFrom
  <1>5. CASE run.at \in {"advance", "check"}
    <2>1. w = Advanced(v) /\ v.phase = "Syncing" /\ v.cur \in v.done /\ ~ v.deleting
      BY <1>5, RunVersion DEF WrittenBy, AfterSwap
    <2>2. ~ v.stsDeleted
      <3>1. CASE run.at = "check"
        BY <3>1, HoldsNow
      <3>2. CASE run.at = "advance"
        BY <1>0, <1>1, <2>1, <3>2 DEF CampaignInv, AwayInv, AwayFits
      <3> QED
        BY <1>5, <3>1, <3>2
    <2>3. /\ w.set = v.set /\ w.size = v.size /\ w.done = v.done /\ ~ w.stsDeleted
          /\ w.phase \in {"Syncing", "Completed"}
      BY <1>0, <2>1, <2>2, AdvancedFits
    <2>4. ASSUME NEW r \in v.done
          PROVE  claim[<<v.set, r>>].full /\ claim[<<v.set, r>>].size <= v.size
      <3>1. PICK d \in Slots : d = <<v.set, r>>
        BY <1>0, SlotIs
      <3>2. claim[d] # NoClaim /\ claim[d].size = v.size
        BY <1>2, <2>1, <2>4, <3>1
      <3>3. claim[d].full
        BY <3>2 DEF CampaignInv, ClaimInv, Whole
      <3>4. v.size \in Nat
        BY <1>0, SizeIs
      <3>5. v.size <= v.size
        BY <3>4
      <3> QED
        BY <3>1, <3>2, <3>3, <3>5
    <2>5. /\ w.phase = "Syncing" => \A r \in w.done : /\ claim'[<<w.set, r>>] # NoClaim
                                                      /\ claim'[<<w.set, r>>].size = w.size
          /\ w.phase = "Completed" => \A r \in w.done : /\ claim'[<<w.set, r>>].full
                                                        /\ claim'[<<w.set, r>>].size <= w.size
      BY <1>0, <1>2, <2>1, <2>3, <2>4
    <2> QED
      BY <1>1, <2>3, <2>5, DoneFrom
  <1>6. CASE run.at \in {"delete", "recreate"}
    <2>1. /\ v.phase = "Syncing" /\ w.phase = "Syncing" /\ w.set = v.set /\ w.size = v.size
          /\ w.cur = v.cur /\ w.done = v.done
          /\ run.at = "recreate" => ~ w.stsDeleted
      BY <1>0, <1>6, WrittenIs, RunVersion DEF WrittenBy, BeforeSwap, AfterSwap
    <2>2. run.at = "delete" => claim[<<v.set, v.cur>>] # NoClaim
      BY ClaimedNow DEF BeforeSwap
    <2>3. /\ w.stsDeleted => claim'[<<w.set, w.cur>>] # NoClaim
          /\ \A r \in w.done : /\ claim'[<<w.set, r>>] # NoClaim
                               /\ claim'[<<w.set, r>>].size = w.size
      BY <1>0, <1>2, <1>6, <2>1, <2>2
    <2> QED
      BY <1>1, <2>1, <2>3, DoneFrom
  <1> QED
    BY <1>3, <1>4, <1>5, <1>6 DEF WrittenBy

(* The swap: the claim that takes the place of the old one is whole and of the
   size that was asked for, and this is no more than a migration before it on the
   same StatefulSet asked for. *)
LEMMA SwapClaim ==
    ASSUME TidyUse, CampaignInv, NEW n, NEW v, Runs(n, v), Reconcile, run.at = "swap",
           NEW c, c = <<v.set, v.cur>>
    PROVE  /\ c \in Slots /\ \A d \in Slots \ {c} : claim'[d] = claim[d]
           /\ claim'[c].size = v.size /\ claim'[c].cap = v.size /\ claim'[c].full
           /\ claim'[c] # NoClaim /\ v.size \in Nat
           /\ Fresh(v, n) /\ Stored(n).phase = "Syncing" /\ Alike(v, Stored(n))
           /\ v.size <= claim[<<v.set, 0>>].size
           /\ v.cur # 0 => claim[<<v.set, 0>>].size = v.size
           /\ Saves(n, Swapped(v), "recreate")
  <1>0. /\ QueueInv /\ run.at # "idle" /\ Swap /\ n \in Names /\ v \in RequestRecords
        /\ v.phase = "Syncing" /\ VersionOK(v) /\ v.set \in Sets
    BY ActionIs, RunVersion DEF CampaignInv, Runs, BeforeSwap
  <1>1. temp[c] # NoTemp /\ temp[c].owner = n /\ temp[c].full
    BY SwapNow
  <1>2. c \in Slots
    BY CurIs
  <1>3. Fresh(v, n) /\ Alike(v, Stored(n)) /\ Stored(n).phase = "Syncing"
    BY <1>0, HoldsNow, FreshIs DEF BeforeSwap
  <1>4. temp[c].cap = v.size
    <2>1. PICK s : s = Stored(n)
      OBVIOUS
    <2>2. PICK b : b = temp[c] /\ b # NoTemp /\ Stored(b.owner) = s
      BY <1>1, <2>1
    <2>3. s.phase # "Gone" => b.cap = s.size
      BY <1>2, <2>2, TempNow
    <2> QED
      BY <1>3, <2>1, <2>2, <2>3 DEF Alike
  <1>5. /\ \A d \in Slots \ {c} : claim'[d] = claim[d]
        /\ claim'[c] = [size |-> v.size, cap |-> temp[c].cap, full |-> temp[c].full]
        /\ Saves(n, Swapped(v), "recreate")
    BY <1>0, <1>1, SwapIs
  <1>6. claim'[c] # NoClaim
    BY <1>1, <1>5 DEF NoClaim
  <1>7. v.size <= claim[<<v.set, 0>>].size
    BY <1>0, <1>3 DEF CampaignInv, LeastInv, Alike
  <1>8. ASSUME v.cur # 0 PROVE claim[<<v.set, 0>>].size = v.size
    <2>1. v.cur \in Nat
      BY <1>0 DEF RequestRecords, Ordinals
    <2>2. 0 \in v.done
      BY <1>0, <1>8, <2>1 DEF VersionOK
    <2>3. PICK s : s = Stored(n) /\ Alike(v, s) /\ s.phase = "Syncing"
      BY <1>3
    <2>4. \A r \in s.done : claim[<<s.set, r>>].size = s.size
      BY <1>0, <2>3, DoneNow
    <2> QED
      BY <2>2, <2>3, <2>4 DEF Alike
  <1>9. v.size \in Nat
    BY <1>0, SizeIs
  <1> QED
    BY <1>1, <1>2, <1>3, <1>4, <1>5, <1>6, <1>7, <1>8, <1>9

LEMMA ClaimsSwap ==
    ASSUME TidyUse, CampaignInv, NEW n, NEW v, Runs(n, v), Reconcile, run.at = "swap"
    PROVE  ClaimInv'
  <1>0. /\ n \in Names /\ v \in RequestRecords /\ VersionOK(v) /\ v.set \in Sets
        /\ v = run.vr /\ QueueInv
        /\ run \in [name : Names, at : Steps \ {"idle"}, vr : RequestRecords]
    BY RunIs DEF CampaignInv, Runs
  <1>1. PICK c : c = <<v.set, v.cur>>
    OBVIOUS
  <1>2. /\ c \in Slots /\ \A d \in Slots \ {c} : claim'[d] = claim[d]
        /\ claim'[c].size = v.size /\ claim'[c].cap = v.size /\ claim'[c].full
        /\ claim'[c] # NoClaim /\ v.size \in Nat
        /\ Fresh(v, n) /\ Stored(n).phase = "Syncing" /\ Alike(v, Stored(n))
        /\ v.size <= claim[<<v.set, 0>>].size
        /\ Saves(n, Swapped(v), "recreate")
    BY <1>1, SwapClaim
  <1>3. SizesFit'
    <2>1. ASSUME NEW d \in Slots PROVE (Whole(d) /\ claim[d].size <= claim[d].cap)'
      <3>1. CASE d = c
        <4>1. v.size <= v.size
          BY <1>2
        <4> QED
          BY <1>2, <3>1, <4>1 DEF Whole
      <3>2. CASE d # c
        BY <1>2, <3>2 DEF CampaignInv, ClaimInv, Whole
      <3> QED
        BY <3>1, <3>2
    <2>2. InitReplicas = MaxReplicas => \A d \in Slots : claim'[d] # NoClaim
      BY <1>2 DEF CampaignInv, ClaimInv
    <2> QED
      BY <2>1, <2>2 DEF SizesFit
  <1>4. RunClaimed'
    <2>1. run'.at \in {"idle", "recreate"}
      <3>1. run' = Idle \/ run' = [run EXCEPT !.at = "recreate", !.vr = Swapped(v)]
        BY <1>2 DEF Saves, Refuses, GivesUp, Idles, Writes
      <3>2. run' = Idle => run'.at = "idle"
        BY DEF Idle
      <3>3. ASSUME NEW w, run' = [run EXCEPT !.at = "recreate", !.vr = w]
            PROVE  run'.at = "recreate"
        BY <1>0, <3>3
      <3> QED
        BY <3>1, <3>2, <3>3
    <2> QED
      BY <2>1, NotClaimed DEF BeforeSwap
  <1>5. DoneFits(n)'
    <2>1. PICK w : w = Stored(n)'
      OBVIOUS
    <2>2. /\ w.phase = "Syncing" /\ w.set = v.set /\ w.size = v.size /\ w.cur = v.cur
          /\ w.done \subseteq v.done \cup {v.cur}
      <3>1. CASE Refuses(n)
        <4>1. w = Stored(n)
          BY <1>0, <2>1, <3>1 DEF Refuses, GivesUp, Idles, SameVersions
        <4> QED
          BY <1>2, <4>1 DEF Alike
      <3>2. CASE ~ Refuses(n)
        <4>1. w = Swapped(v)
          BY <1>2, <2>1, <3>2 DEF Saves, Writes
        <4> QED
          BY <1>0, <4>1, WrittenIs, RunVersion DEF BeforeSwap
      <3> QED
        BY <3>1, <3>2
    <2>3. PICK s : s = Stored(n) /\ s.phase = "Syncing" /\ Alike(v, s)
      BY <1>2
    <2>4. \A r \in s.done : /\ claim[<<s.set, r>>] # NoClaim
                            /\ claim[<<s.set, r>>].size = s.size
      BY <1>0, <2>3, DoneNow
    <2>5. ASSUME NEW r \in w.done
          PROVE  claim'[<<v.set, r>>] # NoClaim /\ claim'[<<v.set, r>>].size = v.size
      <3>1. CASE r = v.cur
        BY <1>1, <1>2, <3>1
      <3>2. CASE r # v.cur
        <4>1. r \in v.done
          BY <2>2, <2>5, <3>2
        <4>2. PICK d \in Slots : d = <<v.set, r>>
          BY <1>0, <4>1, SlotIs
        <4>3. d # c
          BY <1>1, <3>2, <4>2
        <4>4. s.done = v.done /\ s.set = v.set /\ s.size = v.size
          BY <2>3 DEF Alike
        <4> QED
          BY <1>2, <2>4, <4>1, <4>2, <4>3, <4>4
      <3> QED
        BY <3>1, <3>2
    <2>6. claim'[<<w.set, w.cur>>] # NoClaim
      BY <1>1, <1>2, <2>2
    <2>7. \A r \in w.done : /\ claim'[<<w.set, r>>] # NoClaim
                            /\ claim'[<<w.set, r>>].size = w.size
      BY <2>2, <2>5
    <2> QED
      BY <2>1, <2>2, <2>6, <2>7, DoneFrom
  <1>6. ASSUME NEW m \in Names \ {n} PROVE DoneFits(m)'
    <2>1. PICK s : s = Stored(m)
      OBVIOUS
    <2>2. Stored(m)' = s
      BY <1>0, <1>2, <2>1
      DEF Saves, Refuses, GivesUp, Idles, SameVersions, Writes, Elsewhere
    <2>3. /\ s \in RequestRecords /\ VersionOK(s) /\ VersionFits(s)
          /\ s.phase # "Gone" =>
                /\ s.set \in Sets /\ <<s.set, s.cur>> \in Slots /\ <<s.set, 0>> \in Slots
                /\ \A r \in s.done : <<s.set, r>> \in Slots
      BY <2>1, StoredSlots
    <2>4. s.phase = "Syncing" => s.set # v.set
      BY <2>1, OwnSet DEF Migrating, BeforeSwap, Exists
    <2>5. CASE s.phase = "Syncing"
      <3>1. /\ s.stsDeleted => claim[<<s.set, s.cur>>] # NoClaim
            /\ \A r \in s.done : /\ claim[<<s.set, r>>] # NoClaim
                                 /\ claim[<<s.set, r>>].size = s.size
        BY <2>1, <2>5, DoneNow
      <3>2. claim'[<<s.set, s.cur>>] = claim[<<s.set, s.cur>>]
        BY <1>1, <1>2, <2>3, <2>4, <2>5
      <3>3. \A r \in s.done : claim'[<<s.set, r>>] = claim[<<s.set, r>>]
        BY <1>1, <1>2, <2>3, <2>4, <2>5
      <3> QED
        BY <2>2, <2>5, <3>1, <3>2, <3>3, DoneFrom
    <2>6. CASE s.phase = "Completed"
      <3>1. \A r \in s.done : claim[<<s.set, r>>].full /\ claim[<<s.set, r>>].size <= s.size
        BY <2>1, <2>6, DoneNow
      <3>2. ASSUME NEW r \in s.done
            PROVE  claim'[<<s.set, r>>].full /\ claim'[<<s.set, r>>].size <= s.size
        <4>1. PICK d \in Slots : d = <<s.set, r>>
          BY <2>3, <2>6
        <4>2. CASE d # c
          BY <1>2, <3>1, <4>1, <4>2
        <4>3. CASE d = c
          <5>1. s.set = v.set
            BY <1>1, <4>1, <4>3
          <5>2. 0 \in s.done
            <6>1. s.total > 0 /\ s.done = 0 .. s.total - 1 /\ s.total \in Nat
              BY <2>3, <2>6 DEF VersionFits, RequestRecords
            <6> QED
              BY <6>1
          <5>3. PICK k : k = claim[<<v.set, 0>>].size
            OBVIOUS
          <5>4. k <= s.size /\ v.size <= k
            BY <1>2, <3>1, <5>1, <5>2, <5>3
          <5>5. k \in Nat /\ s.size \in Nat
            <6>1. <<v.set, 0>> \in Slots
              BY <1>0, SlotIs
            <6>2. k \in AnySize
              BY <5>3, <6>1 DEF CampaignInv, QueueInv, ClusterOK, ClaimsOK
            <6> QED
              BY <2>3, <6>2, SizeIs, SizesAreNat
          <5>6. v.size <= s.size
            BY <1>2, <5>4, <5>5
          <5> QED
            BY <1>2, <4>1, <4>3, <5>6
        <4> QED
          BY <4>2, <4>3
      <3> QED
        BY <2>2, <2>6, <3>2, DoneFrom
    <2>7. CASE s.phase \notin {"Syncing", "Completed"}
      BY <2>2, <2>7, DoneOff
    <2> QED
      BY <2>5, <2>6, <2>7
  <1> QED
    BY <1>3, <1>4, <1>5, <1>6, ClaimsFrom

LEMMA ClaimsRun ==
    ASSUME TidyUse, CampaignInv, NEW n, NEW v, Runs(n, v), Reconcile
    PROVE  ClaimInv'
  <1>1. CASE run.at = "swap"
    BY <1>1, ClaimsSwap
  <1>2. CASE run.at # "swap"
    <2>1. RunClaimed' /\ SizesFit' /\ ClaimsGrow
      BY <1>2, RunClaimedRun, ClaimsSameFit
    <2>2. CASE Rests(n) \/ \E at : GoesOn(v, at) /\ Goes(at)
      BY <2>1, <2>2, DoneKept, ClaimsFrom DEF Rests, Idles, Goes, SameVersions
    <2>3. ASSUME NEW w, NEW at, WrittenBy(v, w, at), Writes(n, w, at) PROVE ClaimInv'
      <3>1. DoneFits(n)'
        BY <1>2, <2>3, DoneWritten
      <3>2. \A m \in Names \ {n} : DoneFits(m)'
        BY <2>1, <2>3, DoneKept DEF Writes, Elsewhere
      <3> QED
        BY <2>1, <3>1, <3>2, ClaimsFrom
    <2> QED
      BY <2>2, <2>3, RunShape
  <1> QED
    BY <1>1, <1>2

(* A new replica gets a claim, and no other claim changes. *)
LEMMA StartedClaim ==
    ASSUME QueueInv, NEW c \in Slots, StartPod(c)
    PROVE  /\ \A d \in Slots \ {c} : claim'[d] = claim[d]
           /\ claim[c] # NoClaim => claim'[c] = claim[c]
           /\ claim[c] = NoClaim => claim'[c] = [size |-> sts[c[1]].tmpl, full |-> TRUE,
                                                 cap |-> sts[c[1]].tmpl]
           /\ UNCHANGED <<sts, backup, run>> /\ SameVersions
           /\ c[1] \in Sets /\ sts[c[1]].tmpl \in AnySize
  <1>1. c[1] \in Sets
    BY DEF Slots
  <1>2. sts[c[1]].tmpl \in AnySize
    BY <1>1 DEF QueueInv, ClusterOK, StsOK
  <1>3. UNCHANGED <<sts, backup, run>> /\ SameVersions
    BY RestIs DEF StartPod
  <1>4. claim' = [claim EXCEPT ![c] = IF @ = NoClaim
                    THEN [size |-> sts[c[1]].tmpl, cap |-> sts[c[1]].tmpl, full |-> TRUE]
                    ELSE @]
    BY DEF StartPod
  <1>5. claim \in [Slots -> [size : AnySize, cap : AnySize, full : BOOLEAN]]
    BY DEF QueueInv, ClusterOK, ClaimsOK
  <1> QED
    BY <1>1, <1>2, <1>3, <1>4, <1>5

LEMMA ClaimsStep ==
    ASSUME TidyUse, CampaignInv, [Next]_vars
    PROVE  ClaimInv'
  <1>0. QueueInv
    BY DEF CampaignInv
  <1>1. CASE Begin
    <2>1. SameVersions /\ UNCHANGED claim
      BY <1>0, <1>1, BeginIs DEF clusterVars
    <2>2. run'.at \notin BeforeSwap \ {"prepare"}
      <3>1. CASE run' = Idle
        BY <3>1 DEF Idle, BeforeSwap
      <3>2. CASE run' # Idle
        <4>1. PICK k \in Names :
                /\ run' = [name |-> k, at |-> Route(Cached(k)), vr |-> Cached(k)]
                /\ Route(Cached(k)) # "idle"
          BY <1>0, <1>1, <3>2, BeginIs
        <4>2. Cached(k) \in RequestRecords /\ VersionFits(Cached(k))
          BY <1>0, StoredOK DEF QueueInv, VersionOK, CampaignInv, VersionsInv
        <4>3. run'.at \in {"deletion", "finalizer", "pending", "validating",
                           "advance", "prepare"}
          BY <4>1, <4>2, RouteIs
        <4> QED
          BY <4>3 DEF BeforeSwap
      <3> QED
        BY <3>1, <3>2
    <2> QED
      BY <2>1, <2>2, NotClaimed, ClaimsSameFit, DoneKept, ClaimsFrom DEF SameVersions
  <1>2. ASSUME NEW n, NEW v, Runs(n, v), Reconcile PROVE ClaimInv'
    BY <1>2, ClaimsRun
  <1>3. ASSUME UNCHANGED run, ClaimsGrow PROVE RunClaimed'
    <2>1. CASE run.at \notin BeforeSwap \ {"prepare"}
      BY <1>3, <2>1, NotClaimed
    <2>2. CASE run.at \in BeforeSwap \ {"prepare"}
      <3>0. PICK n \in Names : \E v : Runs(n, v)
        BY <1>0, <2>2, RunsIs DEF BeforeSwap
      <3>1. PICK v : Runs(n, v)
        BY <3>0
      <3>2. PICK c \in Slots : c = <<v.set, v.cur>>
        BY <3>1, CurIs
      <3>3. claim'[c] # NoClaim
        BY <1>3, <2>2, <3>1, <3>2, ClaimedNow DEF ClaimsGrow
      <3> QED
        BY <1>3, <3>1, <3>2, <3>3, ClaimedFrom DEF Runs
    <2> QED
      BY <2>1, <2>2
  <1>4. ASSUME UNCHANGED <<claim, run>>, NEW n \in Names, DoneFits(n)',
               \A m \in Names \ {n} : Stored(m)' = Stored(m)
        PROVE  ClaimInv'
    BY <1>3, <1>4, ClaimsSameFit, DoneKept, ClaimsFrom
  <1>5. ASSUME UNCHANGED <<claim, run>>, \A m \in Names : Stored(m)' = Stored(m)
        PROVE  ClaimInv'
    BY <1>3, <1>5, ClaimsSameFit, DoneKept, ClaimsFrom
  <1>6. ASSUME NEW n \in Names, Informer(n) PROVE ClaimInv'
    BY <1>0, <1>5, <1>6, InformerIs DEF Elsewhere, clusterVars
  <1>7. CASE (\E s \in Sets : Edit(s) \/ Restore(s)) \/ (Calm /\ SameVersions)
    <2>1. UNCHANGED <<run, claim>> /\ SameVersions
      BY <1>0, <1>7, EditStep, RestIs DEF Edit, Restore, Calm, clusterVars
    <2> QED
      BY <1>5, <2>1 DEF SameVersions
  <1>8. CASE ClusterStep
    <2>1. SameVersions /\ UNCHANGED run
      BY <1>0, <1>8, ClusterStepOK, RestIs
    <2>2. CASE UNCHANGED claim
      BY <1>5, <2>1, <2>2 DEF SameVersions
    <2>3. ASSUME NEW c \in Slots, StartPod(c) PROVE ClaimInv'
      <3>1. /\ \A d \in Slots \ {c} : claim'[d] = claim[d]
            /\ claim[c] # NoClaim => claim'[c] = claim[c]
            /\ claim[c] = NoClaim => claim'[c] = [size |-> sts[c[1]].tmpl, full |-> TRUE,
                                                  cap |-> sts[c[1]].tmpl]
            /\ sts[c[1]].tmpl \in AnySize
        BY <1>0, <2>3, StartedClaim
      <3>2. PICK k \in Nat : k = sts[c[1]].tmpl
        BY <3>1, SizesAreNat
      <3>3. k <= k
        BY <3>2
      <3>4. claim[c] = NoClaim => /\ claim'[c] # NoClaim /\ claim'[c].full
                                  /\ claim'[c].size <= claim'[c].cap
        BY <3>1, <3>2, <3>3 DEF NoClaim
      <3>5. ClaimsGrow
        BY <3>1 DEF ClaimsGrow
      <3>6. ASSUME NEW d \in Slots PROVE (Whole(d) /\ claim[d].size <= claim[d].cap)'
        BY <3>1, <3>4 DEF CampaignInv, ClaimInv, Whole
      <3>7. InitReplicas = MaxReplicas => \A d \in Slots : claim'[d] # NoClaim
        BY <3>1 DEF CampaignInv, ClaimInv
      <3>8. SizesFit'
        BY <3>6, <3>7 DEF SizesFit
      <3> QED
        BY <1>3, <2>1, <3>5, <3>8, DoneKept, ClaimsFrom DEF SameVersions
    <2>4. UNCHANGED claim \/ \E c \in Slots : StartPod(c)
      BY <1>8 DEF ClusterStep, PodEnds, PrunePod, TempGoes, MigStarts, MigEnds, MigFails,
                  MigGoes
    <2> QED
      BY <2>2, <2>3, <2>4
  <1>9. ASSUME Calm, NEW t \in Terminals, NEW n \in Names, Creates(t, n) PROVE ClaimInv'
    <2>1. PICK w : w = Stored(n)' /\ w.phase = "Pending"
      BY <1>9, NewIs DEF Creates
    <2>2. DoneFits(n)'
      BY <2>1, DoneOff
    <2> QED
      BY <1>4, <1>9, <2>2 DEF Creates, Elsewhere, Calm, clusterVars
  <1>10. ASSUME Calm, NEW n \in Names, Deletes(n) PROVE ClaimInv'
    <2>1. PICK s : s = Stored(n)
      OBVIOUS
    <2>2. s \in RequestRecords
      BY <2>1, StoredSlots
    <2>3. PICK w : w = Stored(n)'
      OBVIOUS
    <2>4. UNCHANGED <<claim, run>>
      BY <1>10 DEF Calm, clusterVars
    <2>5. DoneFits(n)'
      <3>1. CASE s.finalizer
        <4>1. w = Marked(s)
          BY <1>10, <2>1, <2>3, <3>1 DEF Deletes
        <4>2. Alike(s, w) /\ w.phase = s.phase
          BY <2>2, <4>1, MarkedIs
        <4>3. /\ s.phase = "Syncing" /\ s.stsDeleted => claim[<<s.set, s.cur>>] # NoClaim
              /\ s.phase = "Syncing" => \A r \in s.done : /\ claim[<<s.set, r>>] # NoClaim
                                                          /\ claim[<<s.set, r>>].size = s.size
              /\ s.phase = "Completed" => \A r \in s.done : /\ claim[<<s.set, r>>].full
                                                            /\ claim[<<s.set, r>>].size <= s.size
          BY <2>1, DoneNow
        <4> QED
          BY <2>3, <2>4, <4>2, <4>3, DoneFrom DEF Alike
      <3>2. CASE ~ s.finalizer
        <4>1. w.phase = "Gone"
          BY <1>10, <2>1, <2>3, <3>2, GoneIs DEF Deletes
        <4> QED
          BY <2>3, <4>1, DoneOff
      <3> QED
        BY <3>1, <3>2
    <2> QED
      BY <1>4, <1>10, <2>4, <2>5 DEF Deletes, Elsewhere
  <1> QED
    BY <1>1, <1>2, <1>6, <1>7, <1>8, <1>9, <1>10, StepIs

-----------------------------------------------------------------------------
(* The claim of replica 0 is the least. *)

BackupLeast(n) == backup[n] # NoBackup => claim[<<backup[n].set, 0>>].size <= backup[n].tmpl
SizeLeast(n) ==
    Stored(n).phase = "Syncing" => Stored(n).size <= claim[<<Stored(n).set, 0>>].size

LEMMA LeastFrom ==
    ASSUME \A s \in Sets : Least(s)', \A n \in Names : BackupLeast(n)' /\ SizeLeast(n)'
    PROVE  LeastInv'
  BY DEF LeastInv, BackupLeast, SizeLeast

LEMMA LeastNow ==
    ASSUME CampaignInv
    PROVE  (\A s \in Sets : Least(s)) /\ \A n \in Names : BackupLeast(n) /\ SizeLeast(n)
  BY DEF CampaignInv, LeastInv, BackupLeast, SizeLeast

LEMMA LeastKept ==
    ASSUME CampaignInv, UNCHANGED claim, NEW s \in Sets, sts'[s].tmpl = sts[s].tmpl
    PROVE  Least(s)'
  BY LeastNow DEF Least

LEMMA BackupLeastKept ==
    ASSUME CampaignInv, UNCHANGED claim, NEW n \in Names, backup'[n] = backup[n]
    PROVE  BackupLeast(n)'
  BY LeastNow DEF BackupLeast

LEMMA SizeLeastFrom ==
    ASSUME NEW n, NEW w, Stored(n)' = w,
           w.phase = "Syncing" => w.size <= claim'[<<w.set, 0>>].size
    PROVE  SizeLeast(n)'
  BY DEF SizeLeast

LEMMA SizeLeastNow ==
    ASSUME CampaignInv, NEW n \in Names, NEW s, Stored(n) = s, s.phase = "Syncing"
    PROVE  s.size <= claim[<<s.set, 0>>].size
  BY LeastNow DEF SizeLeast

LEMMA SizeLeastKept ==
    ASSUME CampaignInv, UNCHANGED claim, NEW n \in Names, NEW s, NEW w,
           Stored(n) = s, Stored(n)' = w,
           w.phase = "Syncing" => s.phase = "Syncing" /\ w.size = s.size /\ w.set = s.set
    PROVE  SizeLeast(n)'
  BY SizeLeastFrom, SizeLeastNow

LEMMA ZeroSize ==
    ASSUME QueueInv, NEW s \in Sets
    PROVE  /\ <<s, 0>> \in Slots /\ claim[<<s, 0>>].size \in Nat
           /\ \A r \in Ordinals : <<s, r>> \in Slots /\ claim[<<s, r>>].size \in Nat
           /\ sts[s].tmpl \in Nat
  <1>1. 0 \in Ordinals
    BY QueueAssumption DEF Ordinals
  <1>2. \A r \in Ordinals : <<s, r>> \in Slots
    BY DEF Slots
  <1>3. \A c \in Slots : claim[c].size \in AnySize
    BY DEF QueueInv, ClusterOK, ClaimsOK
  <1>4. sts[s].tmpl \in AnySize
    BY DEF QueueInv, ClusterOK, StsOK
  <1> QED
    BY <1>1, <1>2, <1>3, <1>4, SizesAreNat

(* What is written over the size that was asked for: a smaller one than that of the
   claim of replica 0, when the migration starts. *)
LEMMA SizeLeastWritten ==
    ASSUME TidyUse, CampaignInv, NEW n, NEW v, Runs(n, v), Reconcile, run.at # "swap",
           NEW w, NEW at, WrittenBy(v, w, at), Writes(n, w, at)
    PROVE  SizeLeast(n)'
  <1>0. /\ v \in RequestRecords /\ VersionOK(v) /\ v.set \in Sets /\ n \in Names
        /\ UNCHANGED claim /\ v = run.vr /\ QueueInv
    BY RunClaimedRun DEF CampaignInv, Runs
  <1>1. Stored(n) = v /\ Stored(n)' = w
    BY <1>0 DEF Writes
  <1>2. CASE run.at = "validating" /\ w # Failing(v)
    <2>1. PICK k \in 0 .. MaxReplicas : k = sts[v.set].replicas
      BY <1>0, QueueAssumption DEF CampaignInv, QueueInv, ClusterOK, StsOK
    <2>2. w = Counted(v, k) /\ v.size < claim[<<v.set, 0>>].size
      BY <1>2, <2>1 DEF WrittenBy, Smaller
    <2>3. v.size \in Nat /\ claim[<<v.set, 0>>].size \in Nat
      BY <1>0, SizeIs, ZeroSize
    <2>4. w.size = v.size /\ w.set = v.set
      BY <1>0, <2>2, CountedIs
    <2>5. v.size <= claim[<<v.set, 0>>].size
      BY <2>2, <2>3
    <2> QED
      BY <1>0, <1>1, <2>4, <2>5, SizeLeastFrom
  <1>3. CASE run.at # "validating" \/ w = Failing(v)
    <2>1. w.phase = "Syncing" => v.phase = "Syncing" /\ w.size = v.size /\ w.set = v.set
      <3>1. CASE run.at \in {"finalizer", "pending", "deletion"} \/ w = Failing(v)
        <4>1. run.at = "finalizer" => v.phase = "Pending"
          BY RunVersion
        <4> QED
          BY <1>0, <3>1, <4>1, WrittenIs, FailingIs, GoneIs DEF WrittenBy
      <3>2. CASE run.at \notin {"finalizer", "pending", "deletion"} /\ w # Failing(v)
        <4>1. run.at \in {"advance", "check", "delete", "recreate"}
          BY <1>3, <3>2 DEF WrittenBy
        <4>2. v.phase = "Syncing"
          BY <4>1, RunVersion DEF BeforeSwap, AfterSwap
        <4> QED
          BY <4>1, <4>2, WrittenIsProgress
      <3> QED
        BY <3>1, <3>2
    <2> QED
      BY <1>0, <1>1, <2>1, SizeLeastKept
  <1> QED
    BY <1>2, <1>3

(* The template and the backup. *)
LEMMA LeastStays ==
    ASSUME TidyUse, CampaignInv, NEW n, NEW v, Runs(n, v), Reconcile, run.at # "swap"
    PROVE  (\A s \in Sets : Least(s)') /\ \A m \in Names : BackupLeast(m)'
  <1>0. /\ v \in RequestRecords /\ VersionOK(v) /\ v.set \in Sets /\ n \in Names
        /\ UNCHANGED claim /\ v = run.vr /\ QueueInv /\ run.at # "idle"
    BY RunClaimedRun DEF CampaignInv, Runs
  <1>1. ASSUME NEW s \in Sets PROVE Least(s)'
    <2>1. CASE sts'[s].tmpl = sts[s].tmpl
      BY <1>0, <2>1, LeastKept
    <2>2. CASE sts'[s].tmpl # sts[s].tmpl
      <3>1. s = v.set /\ run.at \in {"delete", "recreate"}
        BY <2>2, StsIs
      <3>2. run.at = "recreate"
        <4>1. ASSUME run.at = "delete" PROVE FALSE
          <5>1. DeleteSts
            BY <1>0, <4>1, ActionIs
          <5> QED
            BY <1>0, <2>2, <3>1, <5>1, DeleteStsIs
        <4> QED
          BY <3>1, <4>1
      <3>3. sts'[s].tmpl = v.size
        <4>1. sts'[s] # sts[s]
          BY <2>2
        <4>2. PICK b : b = [up |-> TRUE, rev |-> backup[n].rev, tmpl |-> v.size,
                            replicas |-> backup[n].replicas, by |-> NoName]
          OBVIOUS
        <4>3. sts'[s] = b /\ b.tmpl = v.size
          BY <3>1, <3>2, <4>1, <4>2, StsIs
        <4> QED
          BY <4>3
      <3>4. claim[<<s, 0>>].size = v.size
        <4>1. v.cur \in v.done /\ v.phase = "Syncing"
          BY <3>2, RunVersion DEF AfterSwap
        <4>2. v.cur \in Nat
          BY <1>0 DEF RequestRecords, Ordinals
        <4>3. 0 \in v.done
          BY <1>0, <4>1, <4>2 DEF VersionOK
        <4>4. PICK w : w = Stored(n) /\ Alike(v, w) /\ w.phase = "Syncing"
          BY <1>0, <3>2, <4>1, HoldsNow, FreshIs
        <4>5. \A r \in w.done : claim[<<w.set, r>>].size = w.size
          BY <1>0, <4>4, DoneNow
        <4> QED
          BY <3>1, <4>3, <4>4, <4>5 DEF Alike
      <3>5. v.size \in Nat
        BY <1>0, SizeIs
      <3>6. claim[<<s, 0>>].size <= v.size
        BY <3>4, <3>5
      <3> QED
        BY <1>0, <3>3, <3>6, LeastNow DEF Least
    <2> QED
      BY <2>1, <2>2
  <1>2. ASSUME NEW m \in Names PROVE BackupLeast(m)'
    <2>1. CASE backup'[m] = backup[m]
      BY <1>0, <2>1, BackupLeastKept
    <2>2. CASE backup'[m] # backup[m]
      <3>1. run.at = "backup"
        BY <1>0, <2>2, FrameIs
      <3>2. BackupSts
        BY <1>0, <3>1, ActionIs
      <3>3. /\ \A k \in Names \ {n} : backup'[k] = backup[k]
            /\ backup'[n] = IF sts[v.set].up /\ backup[n] = NoBackup
                            THEN SpecOf(v.set) ELSE backup[n]
        BY <1>0, <3>2, BackupIs
      <3>4. m = n /\ backup'[m] = SpecOf(v.set)
        BY <2>2, <3>3
      <3>5. backup'[m].set = v.set /\ backup'[m].tmpl = sts[v.set].tmpl
        BY <3>4 DEF SpecOf
      <3>6. claim[<<v.set, 0>>].size <= sts[v.set].tmpl
        BY <1>0, LeastNow DEF Least
      <3> QED
        BY <1>0, <3>5, <3>6 DEF BackupLeast
    <2> QED
      BY <2>1, <2>2
  <1> QED
    BY <1>1, <1>2

LEMMA LeastSwap ==
    ASSUME TidyUse, CampaignInv, NEW n, NEW v, Runs(n, v), Reconcile, run.at = "swap"
    PROVE  LeastInv'
  <1>0. /\ n \in Names /\ v \in RequestRecords /\ v.set \in Sets
        /\ v = run.vr /\ QueueInv /\ UNCHANGED <<sts, backup>>
        /\ v.cur \in Ordinals
    BY FrameIs DEF CampaignInv, Runs, RequestRecords
  <1>1. PICK c : c = <<v.set, v.cur>>
    OBVIOUS
  <1>2. /\ c \in Slots /\ \A d \in Slots \ {c} : claim'[d] = claim[d]
        /\ claim'[c].size = v.size /\ claim'[c] # NoClaim /\ v.size \in Nat
        /\ Alike(v, Stored(n))
        /\ v.size <= claim[<<v.set, 0>>].size
        /\ v.cur # 0 => claim[<<v.set, 0>>].size = v.size
        /\ Saves(n, Swapped(v), "recreate")
    BY <1>1, SwapClaim
  <1>3. PICK z \in Slots : z = <<v.set, 0>>
    BY <1>0, ZeroSize
  <1>4. claim'[z].size = v.size /\ claim'[z] # NoClaim /\ v.size <= claim[z].size
    <2>1. CASE v.cur = 0
      BY <1>1, <1>2, <1>3, <2>1
    <2>2. CASE v.cur # 0
      <3>1. z # c
        BY <1>1, <1>3, <2>2
      <3>2. claim[z] # NoClaim
        BY <1>0, <1>3, LeastNow DEF Least
      <3> QED
        BY <1>2, <1>3, <2>2, <3>1, <3>2
    <2> QED
      BY <2>1, <2>2
  <1>5. ASSUME NEW s \in Sets \ {v.set}, NEW r \in Ordinals \cup {0}
        PROVE  claim'[<<s, r>>] = claim[<<s, r>>]
    <2>1. PICK d \in Slots : d = <<s, r>>
      BY <1>0, ZeroSize
    <2>2. d # c
      BY <1>1, <2>1
    <2> QED
      BY <1>2, <2>1, <2>2
  <1>6. ASSUME NEW s \in Sets PROVE Least(s)'
    <2>1. CASE s # v.set
      BY <1>0, <1>5, <2>1, LeastNow DEF Least
    <2>2. CASE s = v.set
      <3>1. /\ claim[z].size \in Nat /\ sts[s].tmpl \in Nat
            /\ claim[z].size <= sts[s].tmpl
            /\ \A r \in Ordinals : <<s, r>> \in Slots /\ claim[<<s, r>>].size \in Nat
            /\ \A r \in Ordinals :
                  claim[<<s, r>>] # NoClaim => claim[z].size <= claim[<<s, r>>].size
        BY <1>0, <1>3, <2>2, ZeroSize, LeastNow DEF Least
      <3>2. v.size <= sts[s].tmpl
        BY <1>2, <1>4, <3>1
      <3>3. ASSUME NEW r \in Ordinals, claim'[<<s, r>>] # NoClaim
            PROVE  v.size <= claim'[<<s, r>>].size
        <4>1. PICK d \in Slots : d = <<s, r>>
          BY <3>1
        <4>2. CASE d = c
          BY <1>2, <4>1, <4>2
        <4>3. CASE d # c
          <5>1. claim'[d] = claim[d]
            BY <1>2, <4>3
          <5>2. claim[z].size <= claim[d].size /\ claim[d].size \in Nat
            BY <3>1, <3>3, <4>1, <5>1
          <5>3. v.size <= claim[d].size
            BY <1>2, <1>4, <3>1, <5>2
          <5> QED
            BY <4>1, <5>1, <5>3
        <4> QED
          BY <4>2, <4>3
      <3> QED
        BY <1>0, <1>3, <1>4, <2>2, <3>2, <3>3 DEF Least
    <2> QED
      BY <2>1, <2>2
  <1>7. ASSUME NEW m \in Names PROVE BackupLeast(m)'
    <2>1. PICK b : b = backup[m]
      OBVIOUS
    <2>2. CASE b = NoBackup
      BY <1>0, <2>1, <2>2 DEF BackupLeast
    <2>3. CASE b # NoBackup /\ b.set # v.set
      <3>1. b.set \in Sets
        BY <1>0, <2>1, <2>3 DEF QueueInv, ClusterOK, BackupOK
      <3>2. claim'[<<b.set, 0>>] = claim[<<b.set, 0>>]
        BY <1>5, <2>3, <3>1
      <3>3. claim[<<b.set, 0>>].size <= b.tmpl
        BY <2>1, <2>3, LeastNow DEF BackupLeast
      <3> QED
        BY <1>0, <2>1, <3>2, <3>3 DEF BackupLeast
    <2>4. CASE b # NoBackup /\ b.set = v.set
      <3>1. claim[z].size <= b.tmpl
        BY <1>3, <2>1, <2>4, LeastNow DEF BackupLeast
      <3>2. b.tmpl \in Nat
        <4>1. b.tmpl \in AnySize
          BY <1>0, <2>1 DEF QueueInv, ClusterOK, BackupOK
        <4> QED
          BY <4>1, SizesAreNat
      <3>3. claim[z].size \in Nat
        BY <1>0, <1>3, ZeroSize
      <3>4. v.size <= b.tmpl
        BY <1>2, <1>4, <3>1, <3>2, <3>3
      <3>5. claim'[<<b.set, 0>>].size <= b.tmpl
        BY <1>3, <1>4, <2>4, <3>4
      <3> QED
        BY <1>0, <2>1, <3>5 DEF BackupLeast
    <2> QED
      BY <2>2, <2>3, <2>4
  <1>8. SizeLeast(n)'
    <2>1. PICK w : w = Stored(n)'
      OBVIOUS
    <2>2. w.set = v.set /\ w.size = v.size
      <3>1. CASE Refuses(n)
        <4>1. w = Stored(n)
          BY <1>0, <2>1, <3>1 DEF Refuses, GivesUp, Idles, SameVersions
        <4> QED
          BY <1>2, <4>1 DEF Alike
      <3>2. CASE ~ Refuses(n)
        <4>1. w = Swapped(v)
          BY <1>2, <2>1, <3>2 DEF Saves, Writes
        <4> QED
          BY <1>0, <4>1, WrittenIs
      <3> QED
        BY <3>1, <3>2
    <2>3. v.size <= v.size
      BY <1>2
    <2>4. w.size <= claim'[<<w.set, 0>>].size
      BY <1>3, <1>4, <2>2, <2>3
    <2> QED
      BY <2>1, <2>4, SizeLeastFrom
  <1>9. ASSUME NEW m \in Names \ {n} PROVE SizeLeast(m)'
    <2>1. PICK s : s = Stored(m)
      OBVIOUS
    <2>2. Stored(m)' = s
      BY <1>0, <1>2, <2>1
      DEF Saves, Refuses, GivesUp, Idles, SameVersions, Writes, Elsewhere
    <2>3. s.phase = "Syncing" => s.set # v.set /\ s.set \in Sets
      BY <2>1, OwnSet, StoredSlots DEF Migrating, BeforeSwap, Exists
    <2>4. s.phase = "Syncing" => claim'[<<s.set, 0>>] = claim[<<s.set, 0>>]
      BY <1>5, <2>3
    <2>5. s.phase = "Syncing" => s.size <= claim[<<s.set, 0>>].size
      BY <2>1, SizeLeastNow
    <2> QED
      BY <2>2, <2>4, <2>5, SizeLeastFrom
  <1> QED
    BY <1>6, <1>7, <1>8, <1>9, LeastFrom

LEMMA LeastRun ==
    ASSUME TidyUse, CampaignInv, NEW n, NEW v, Runs(n, v), Reconcile
    PROVE  LeastInv'
  <1>1. CASE run.at = "swap"
    BY <1>1, LeastSwap
  <1>2. CASE run.at # "swap"
    <2>1. /\ \A s \in Sets : Least(s)'
          /\ \A m \in Names : BackupLeast(m)'
          /\ UNCHANGED claim
      BY <1>2, LeastStays, RunClaimedRun
    <2>2. ASSUME NEW m \in Names, Stored(m)' = Stored(m) PROVE SizeLeast(m)'
      BY <2>1, <2>2, SizeLeastKept
    <2>3. CASE Rests(n) \/ \E at : GoesOn(v, at) /\ Goes(at)
      BY <2>1, <2>2, <2>3, LeastFrom DEF Rests, Idles, Goes, SameVersions
    <2>4. ASSUME NEW w, NEW at, WrittenBy(v, w, at), Writes(n, w, at) PROVE LeastInv'
      <3>1. SizeLeast(n)'
        BY <1>2, <2>4, SizeLeastWritten
      <3>2. \A m \in Names \ {n} : SizeLeast(m)'
        BY <2>2, <2>4 DEF Writes, Elsewhere
      <3> QED
        BY <2>1, <3>1, <3>2, LeastFrom
    <2> QED
      BY <2>3, <2>4, RunShape
  <1> QED
    BY <1>1, <1>2

LEMMA LeastStep ==
    ASSUME TidyUse, CampaignInv, [Next]_vars
    PROVE  LeastInv'
  <1>0. QueueInv
    BY DEF CampaignInv
  <1>1. ASSUME UNCHANGED <<claim, backup>>, \A s \in Sets : sts'[s].tmpl = sts[s].tmpl,
               NEW n \in Names, SizeLeast(n)', \A m \in Names \ {n} : Stored(m)' = Stored(m)
        PROVE  LeastInv'
    <2>1. \A m \in Names \ {n} : SizeLeast(m)'
      BY <1>1, SizeLeastKept
    <2> QED
      BY <1>1, <2>1, LeastKept, BackupLeastKept, LeastFrom
  <1>2. ASSUME UNCHANGED <<claim, backup>>, \A s \in Sets : sts'[s].tmpl = sts[s].tmpl,
               \A m \in Names : Stored(m)' = Stored(m)
        PROVE  LeastInv'
    <2>1. \A m \in Names : SizeLeast(m)'
      BY <1>2, SizeLeastKept
    <2> QED
      BY <1>2, <2>1, LeastKept, BackupLeastKept, LeastFrom
  <1>3. CASE Begin
    BY <1>0, <1>2, <1>3, BeginIs DEF SameVersions, clusterVars
  <1>4. ASSUME NEW n, NEW v, Runs(n, v), Reconcile PROVE LeastInv'
    BY <1>4, LeastRun
  <1>5. ASSUME NEW n \in Names, Informer(n) PROVE LeastInv'
    BY <1>0, <1>2, <1>5, InformerIs DEF Elsewhere, clusterVars
  <1>6. CASE Calm /\ SameVersions
    BY <1>2, <1>6 DEF Calm, SameVersions, clusterVars
  <1>7. ASSUME NEW t \in Sets, Edit(t) PROVE LeastInv'
    <2>1. UNCHANGED <<claim, backup>> /\ SameVersions
      BY <1>7, RestIs DEF Edit
    <2>2. \A s \in Sets : sts'[s].tmpl = sts[s].tmpl
      BY <1>0, <1>7 DEF Edit, QueueInv, ClusterOK, StsOK
    <2> QED
      BY <1>2, <2>1, <2>2 DEF SameVersions
  <1>8. ASSUME NEW t \in Sets, Restore(t) PROVE LeastInv'
    <2>1. UNCHANGED <<claim, backup>> /\ SameVersions
      BY <1>8, RestIs DEF Restore
    <2>2. PICK n \in Names : n = sts[t].by
      BY <1>0, <1>8 DEF Restore, QueueInv, ClusterOK, StsOK
    <2>3. PICK b : b = backup[n] /\ b.set = t
      BY <1>8, <2>2 DEF Restore
    <2>4. b # NoBackup
      BY <2>3, RequestsAssumption DEF NoBackup
    <2>5. claim[<<t, 0>>].size <= b.tmpl
      BY <2>3, <2>4, LeastNow DEF BackupLeast
    <2>6. \A s \in Sets \ {t} : sts'[s] = sts[s]
      BY <1>0, <1>8 DEF Restore, QueueInv, ClusterOK, StsOK
    <2>7. sts'[t].tmpl = b.tmpl
      BY <1>0, <1>8, <2>2, <2>3 DEF Restore, QueueInv, ClusterOK, StsOK
    <2>8. Least(t)'
      BY <2>1, <2>5, <2>7, LeastNow DEF Least
    <2>9. \A s \in Sets \ {t} : Least(s)'
      BY <2>1, <2>6, LeastKept
    <2>10. \A m \in Names : BackupLeast(m)' /\ SizeLeast(m)'
      BY <2>1, BackupLeastKept, SizeLeastKept DEF SameVersions
    <2> QED
      BY <2>8, <2>9, <2>10, LeastFrom
  <1>9. CASE ClusterStep
    <2>1. UNCHANGED <<sts, backup>> /\ SameVersions
      <3>1. Rest
        BY <1>0, <1>9, ClusterStepOK
      <3>2. UNCHANGED <<sts, backup>>
        BY <1>9 DEF ClusterStep, StartPod, PodEnds, PrunePod, TempGoes, MigStarts, MigEnds,
                    MigFails, MigGoes
      <3> QED
        BY <3>1, <3>2, RestIs
    <2>2. CASE UNCHANGED claim
      BY <1>2, <2>1, <2>2 DEF SameVersions
    <2>3. ASSUME NEW c \in Slots, StartPod(c) PROVE LeastInv'
      <3>1. /\ \A d \in Slots \ {c} : claim'[d] = claim[d]
            /\ claim[c] # NoClaim => claim'[c] = claim[c]
            /\ claim[c] = NoClaim => claim'[c] = [size |-> sts[c[1]].tmpl, full |-> TRUE,
                                                  cap |-> sts[c[1]].tmpl]
            /\ c[1] \in Sets
        BY <1>0, <2>3, StartedClaim
      <3>2. ASSUME NEW s \in Sets PROVE claim'[<<s, 0>>] = claim[<<s, 0>>]
        <4>1. PICK z \in Slots : z = <<s, 0>>
          BY <1>0, ZeroSize
        <4>2. claim[z] # NoClaim
          BY <4>1, LeastNow DEF Least
        <4> QED
          BY <3>1, <4>1, <4>2
      <3>3. ASSUME NEW s \in Sets PROVE Least(s)'
        <4>1. PICK z \in Slots : z = <<s, 0>>
          BY <1>0, ZeroSize
        <4>2. /\ claim[z] # NoClaim /\ claim[z].size <= sts[s].tmpl /\ claim'[z] = claim[z]
              /\ \A r \in Ordinals :
                    claim[<<s, r>>] # NoClaim => claim[z].size <= claim[<<s, r>>].size
          BY <3>2, <4>1, LeastNow DEF Least
        <4>3. ASSUME NEW r \in Ordinals, claim'[<<s, r>>] # NoClaim
              PROVE  claim[z].size <= claim'[<<s, r>>].size
          <5>1. PICK d \in Slots : d = <<s, r>> /\ d[1] = s
            BY <1>0, ZeroSize
          <5>2. CASE claim'[d] = claim[d]
            BY <4>2, <4>3, <5>1, <5>2
          <5>3. CASE claim'[d] # claim[d]
            <6>1. d = c /\ claim[c] = NoClaim
              BY <3>1, <5>3
            <6>2. claim'[d].size = sts[s].tmpl
              BY <3>1, <5>1, <6>1
            <6> QED
              BY <4>2, <5>1, <6>2
          <5> QED
            BY <5>2, <5>3
        <4> QED
          BY <2>1, <4>1, <4>2, <4>3 DEF Least
      <3>4. ASSUME NEW n \in Names PROVE BackupLeast(n)'
        <4>1. backup[n] # NoBackup => backup[n].set \in Sets
          BY <1>0 DEF QueueInv, ClusterOK, BackupOK
        <4> QED
          BY <2>1, <3>2, <4>1, LeastNow DEF BackupLeast
      <3>5. ASSUME NEW n \in Names PROVE SizeLeast(n)'
        <4>1. PICK s : s = Stored(n)
          OBVIOUS
        <4>2. Stored(n)' = s
          BY <2>1, <4>1 DEF SameVersions
        <4>3. s.phase = "Syncing" => s.set \in Sets
          BY <4>1, StoredSlots
        <4>4. s.phase = "Syncing" => s.size <= claim'[<<s.set, 0>>].size
          BY <3>2, <4>1, <4>3, SizeLeastNow
        <4> QED
          BY <4>2, <4>4, SizeLeastFrom
      <3> QED
        BY <3>3, <3>4, <3>5, LeastFrom
    <2>4. UNCHANGED claim \/ \E c \in Slots : StartPod(c)
      BY <1>9 DEF ClusterStep, PodEnds, PrunePod, TempGoes, MigStarts, MigEnds, MigFails,
                  MigGoes
    <2> QED
      BY <2>2, <2>3, <2>4
  <1>10. ASSUME Calm, NEW t \in Terminals, NEW n \in Names, Creates(t, n) PROVE LeastInv'
    <2>1. PICK w : w = Stored(n)' /\ w.phase = "Pending"
      BY <1>10, NewIs DEF Creates
    <2>2. SizeLeast(n)'
      BY <2>1, SizeLeastFrom
    <2> QED
      BY <1>1, <1>10, <2>2 DEF Creates, Elsewhere, Calm, clusterVars
  <1>11. ASSUME Calm, NEW n \in Names, Deletes(n) PROVE LeastInv'
    <2>1. PICK s : s = Stored(n)
      OBVIOUS
    <2>2. s \in RequestRecords
      BY <2>1, StoredSlots
    <2>3. PICK w : w = Stored(n)' /\ w = IF s.finalizer THEN Marked(s) ELSE GoneAfter(1)
      BY <1>11, <2>1 DEF Deletes
    <2>4. w.phase = "Syncing" => s.phase = "Syncing" /\ w.size = s.size /\ w.set = s.set
      BY <2>2, <2>3, MarkedIs, GoneIs DEF Alike
    <2>5. UNCHANGED <<sts, claim, backup>>
      BY <1>11 DEF Calm, clusterVars
    <2>6. SizeLeast(n)'
      BY <2>1, <2>3, <2>4, <2>5, SizeLeastKept
    <2> QED
      BY <1>1, <1>11, <2>5, <2>6 DEF Deletes, Elsewhere
  <1> QED
    BY <1>3, <1>4, <1>5, <1>6, <1>7, <1>8, <1>9, <1>10, <1>11, StepIs

-----------------------------------------------------------------------------
(* The invariant from the start on. *)

LEMMA CampaignStart == Init => CampaignInv
  <1> SUFFICES ASSUME Init PROVE CampaignInv
    OBVIOUS
  <1>0. QueueInv
    BY QueueStart
  <1>1. \A n \in Names : Stored(n) = GoneAfter(0) /\ Cached(n) = GoneAfter(0)
    <2>1. trail = [n \in Names |-> <<GoneAfter(0)>>]
      BY DEF Init, RequestsInit
    <2>2. PICK v : v = GoneAfter(0)
      OBVIOUS
    <2>3. Len(<<v>>) = 1 /\ <<v>>[1] = v /\ Head(<<v>>) = v
      OBVIOUS
    <2> QED
      BY <2>1, <2>2, <2>3 DEF Stored, Cached
  <1>2. /\ run.at = "idle" /\ run.name = NoName
        /\ run.vr = GoneAfter(0) /\ ~ run.vr.stsDeleted /\ ~ run.vr.deleting
    BY GoneIs DEF Init, Idle
  <1>3. /\ mig = [m \in Movers |-> NoMover] /\ temp = [c \in Slots |-> NoTemp]
        /\ backup = [n \in Names |-> NoBackup]
        /\ claim = [c \in Slots |-> IF c[2] < InitReplicas
                      THEN [size |-> InitSize, cap |-> InitSize, full |-> TRUE] ELSE NoClaim]
        /\ \A s \in Sets : sts[s].tmpl = InitSize
        /\ \A t \in Terminals : session[t].cmd = "none"
    BY DEF Init, VolmigInit, Prompt
  <1>4. VersionsInv
    BY <1>1, <1>2, GoneFits DEF VersionsInv, RunFits, BeforeSwap
  <1>5. CreateInv /\ AloneInv
    BY <1>1, <1>3, GoneIs DEF CreateInv, Running, AloneInv, Alone, Exists
  <1>6. CacheInv /\ HoldsInv
    BY <1>1, <1>2, GoneIs DEF CacheInv, CacheFits, ToPrepare, HoldsInv, BeforeSwap, Holding
  <1>7. AwayInv
    BY <1>1, GoneIs DEF AwayInv, AwayFits
  <1>8. BackupInv
    BY <1>1, <1>2, <1>3, GoneIs DEF BackupInv, BackupFits
  <1>9. MoverInv
    BY <1>2, <1>3 DEF MoverInv, MoverFits, CopyRunFits
  <1>10. TempInv
    BY <1>2, <1>3 DEF TempInv, TempFits, CopyFits, SwapRunFits, NoMover
  <1>11. InitSize \in Nat /\ InitReplicas \in 1 .. MaxReplicas /\ MaxReplicas \in Nat
    BY QueueAssumption
  <1>12. ClaimInv
    <2>1. \A c \in Slots : Whole(c) /\ claim[c].size <= claim[c].cap
      BY <1>3, <1>11 DEF Whole, NoClaim
    <2>2. ASSUME InitReplicas = MaxReplicas, NEW c \in Slots PROVE claim[c] # NoClaim
      <3>1. c[2] < InitReplicas
        BY <1>11, <2>2 DEF Slots, Ordinals
      <3> QED
        BY <1>3, <3>1 DEF NoClaim
    <2>3. \A n \in Names : DoneFits(n)
      BY <1>1, GoneIs DEF DoneFits
    <2> QED
      BY <1>2, <2>1, <2>2, <2>3 DEF ClaimInv, BeforeSwap
  <1>13. LeastInv
    <2>1. ASSUME NEW s \in Sets PROVE Least(s)
      <3>1. <<s, 0>> \in Slots /\ \A r \in Ordinals : <<s, r>> \in Slots
        BY <1>11 DEF Slots, Ordinals
      <3>2. claim[<<s, 0>>] = [size |-> InitSize, cap |-> InitSize, full |-> TRUE]
        BY <1>3, <1>11, <3>1
      <3>3. claim[<<s, 0>>] # NoClaim /\ claim[<<s, 0>>].size = InitSize
        BY <3>2 DEF NoClaim
      <3>4. \A r \in Ordinals : claim[<<s, r>>] # NoClaim
                                   => claim[<<s, r>>].size = InitSize
        BY <1>3, <3>1
      <3>5. sts[s].tmpl = InitSize /\ InitSize <= InitSize
        BY <1>3, <1>11
      <3> QED
        BY <3>3, <3>4, <3>5 DEF Least
    <2> QED
      BY <1>1, <1>3, <2>1, GoneIs DEF LeastInv
  <1> QED
    BY <1>0, <1>4, <1>5, <1>6, <1>7, <1>8, <1>9, <1>10, <1>12, <1>13 DEF CampaignInv

LEMMA CampaignStep == ASSUME TidyUse, CampaignInv, [Next]_vars PROVE CampaignInv'
  <1>1. QueueInv'
    BY QueueStep DEF CampaignInv
  <1>2. VersionsInv' /\ CreateInv' /\ AloneInv' /\ CacheInv' /\ HoldsInv' /\ AwayInv'
    BY VersionsStep, CreatesStep, AloneStep, CacheStep, HoldsStep, AwayStep
  <1>3. BackupInv' /\ MoverInv' /\ TempInv' /\ ClaimInv' /\ LeastInv'
    BY BackupStep, MoversStep, TempsStep, ClaimsStep, LeastStep
  <1> QED
    BY <1>1, <1>2, <1>3 DEF CampaignInv

(* While the users are tidy and the cache is one write behind at most, the
   invariant holds: what handleSyncing, handleDeletion and the volmig commands
   leave of one migration fits what the next one starts from. *)
THEOREM CampaignAlways == ASSUME TidyUse PROVE Spec => []CampaignInv
  <1>1. CampaignInv /\ [Next]_vars => CampaignInv'
    BY CampaignStep
  <1> QED
    BY <1>1, CampaignStart, PTL DEF Spec

-----------------------------------------------------------------------------
(* What the users rely on. *)

(* A run that is about to swap the claims of a slot finds its pod down: a run
   that began from an older version of the VolumeResize either is the one that
   scaled the pod away, or waited for it itself (volumeresize_controller.go,
   handleSyncing). *)
THEOREM SwapsFindPodDown == ASSUME TidyUse PROVE Spec => []SwapsOnlyStopped
  <1>1. CampaignInv => SwapsOnlyStopped
    <2> SUFFICES ASSUME CampaignInv, At("swap") PROVE pod[Cur] = "down"
      BY DEF SwapsOnlyStopped
    <2>1. Fresh(run.vr, run.name)
      BY DEF CampaignInv, HoldsInv, SyncFits, At, BeforeSwap
    <2> QED
      BY <2>1 DEF CampaignInv, MoverInv, CopyRunFits, At
  <1> QED
    BY <1>1, CampaignAlways, PTL

(* A migrator that is to copy does so while the pod that writes to its source is
   down, whatever the migration, its deletion or the next one does meanwhile
   (migrator.go, createMigratorPod; statefulset.go, recreateSTS). *)
THEOREM CopiesAreStill == ASSUME TidyUse PROVE Spec => []CopiesStill
  <1>1. CampaignInv => CopiesStill
    <2> SUFFICES ASSUME CampaignInv, NEW m \in Movers, mig[m].st = "running", ~ mig[m].dying
                 PROVE  pod[SlotOf(m)] = "down"
      BY DEF CopiesStill
    <2>1. mig[m] # NoMover /\ Live(m)
      BY DEF NoMover, Live
    <2> QED
      BY <2>1 DEF CampaignInv, MoverInv, MoverFits
  <1> QED
    BY <1>1, CampaignAlways, PTL

(* A copy fails only where the data takes more room than was asked for: a
   temporary claim createTempPVC finds (pvc.go:60-63) is of the size the
   VolumeResize asks for. *)
THEOREM CopiesFailForLackOfRoom == ASSUME TidyUse PROVE Spec => []FailsForLackOfRoom
  <1>1. CampaignInv => FailsForLackOfRoom
    <2> SUFFICES ASSUME CampaignInv, NEW m \in Movers, mig[m].st = "bad"
                 PROVE  Stored(m[1]).size < Need[SlotOf(m)]
      BY DEF FailsForLackOfRoom
    <2>1. mig[m] # NoMover
      BY DEF NoMover
    <2> QED
      BY <2>1 DEF CampaignInv, MoverInv, MoverFits
  <1> QED
    BY <1>1, CampaignAlways, PTL

(* A claim fits its volume, so its pod can start again: replacePVC binds a claim
   of the size asked for to a volume that was made for that size. *)
THEOREM ClaimsFitVolumes == ASSUME TidyUse PROVE Spec => []ClaimsFit
  <1>1. CampaignInv => ClaimsFit
    BY DEF CampaignInv, ClaimInv, ClaimsFit
  <1> QED
    BY <1>1, CampaignAlways, PTL

(* No claim loses data: replacePVC (pvc.go) puts in its place only a volume that
   a migrator of the same VolumeResize and slot has filled. *)
THEOREM ClaimsKeepAllData == ASSUME TidyUse PROVE Spec => []ClaimsKeepData
  <1>1. CampaignInv => ClaimsKeepData
    BY DEF CampaignInv, ClaimInv, Whole, ClaimsKeepData
  <1> QED
    BY <1>1, CampaignAlways, PTL

(* A claim is changed by the swap of its slot, or is that of a new replica. *)
LEMMA ClaimMoves ==
    ASSUME TidyUse, CampaignInv, [Next]_vars
    PROVE  \/ UNCHANGED claim
           \/ Reconcile /\ run.at = "swap" /\ \E n, v : Runs(n, v)
           \/ \E c \in Slots : StartPod(c)
  <1>0. QueueInv
    BY DEF CampaignInv
  <1>1. CASE Begin
    BY <1>0, <1>1, BeginIs DEF clusterVars
  <1>2. ASSUME NEW n, NEW v, Runs(n, v), Reconcile, run.at # "swap" PROVE UNCHANGED claim
    BY <1>0, <1>2, FrameIs
  <1>3. ASSUME NEW n \in Names, Informer(n) PROVE UNCHANGED claim
    BY <1>3 DEF Informer, clusterVars
  <1>4. CASE Calm
    BY <1>4 DEF Calm, clusterVars
  <1>5. ASSUME NEW s \in Sets, Edit(s) \/ Restore(s) PROVE UNCHANGED claim
    BY <1>5 DEF Edit, Restore
  <1>6. CASE ClusterStep /\ ~ \E c \in Slots : StartPod(c)
    BY <1>6 DEF ClusterStep, PodEnds, PrunePod, TempGoes, MigStarts, MigEnds, MigFails, MigGoes
  <1> QED
    BY <1>1, <1>2, <1>3, <1>4, <1>5, <1>6, StepIs

(* No claim grows, although validateSizeReduction compares the size with that of
   replica 0 alone: it is the least, and none is made anew while it is there. *)
THEOREM ClaimsNeverGrow == ASSUME TidyUse PROVE Spec => NeverGrows
  <1>1. CampaignInv /\ [Next]_vars
           => [\A c \in Slots : claim[c] # NoClaim => claim'[c].size <= claim[c].size]_vars
    <2> SUFFICES ASSUME CampaignInv, [Next]_vars, NEW c \in Slots, claim[c] # NoClaim
                 PROVE  claim'[c].size <= claim[c].size
      OBVIOUS
    <2>0. QueueInv
      BY DEF CampaignInv
    <2>1. claim[c].size \in Nat
      <3>1. PICK s \in Sets, r \in Ordinals : c = <<s, r>>
        BY DEF Slots
      <3> QED
        BY <2>0, <3>1, ZeroSize
    <2>2. CASE claim'[c] = claim[c]
      BY <2>1, <2>2
    <2>3. ASSUME NEW n, NEW v, Runs(n, v), Reconcile, run.at = "swap"
          PROVE  claim'[c].size <= claim[c].size
      <3>1. CASE c # <<v.set, v.cur>>
        <4>1. Swap
          BY <2>3, ActionIs
        <4>2. temp[<<v.set, v.cur>>] # NoTemp
          BY <2>3, SwapNow
        <4>3. \A e \in Slots \ {<<v.set, v.cur>>} : claim'[e] = claim[e]
          BY <2>0, <2>3, <4>1, <4>2, SwapIs
        <4>4. claim'[c] = claim[c]
          BY <3>1, <4>3
        <4> QED
          BY <2>2, <4>4
      <3>2. CASE c = <<v.set, v.cur>>
        <4>1. PICK k : k = v.size
          OBVIOUS
        <4>2. /\ claim'[c].size = k /\ k \in Nat /\ k <= claim[<<v.set, 0>>].size
          BY <2>3, <3>2, <4>1, SwapClaim
        <4>3. v.set \in Sets /\ v.cur \in Ordinals
          BY <2>3 DEF Runs, RequestRecords
        <4>4. claim[<<v.set, 0>>].size <= claim[c].size
          BY <3>2, <4>3, LeastNow DEF Least
        <4>5. claim[<<v.set, 0>>].size \in Nat
          BY <2>0, <4>3, ZeroSize
        <4> QED
          BY <2>1, <4>2, <4>4, <4>5
      <3> QED
        BY <3>1, <3>2
    <2>4. ASSUME NEW d \in Slots, StartPod(d) PROVE claim'[c] = claim[c]
      BY <2>0, <2>4, StartedClaim
    <2> QED
      BY <2>2, <2>3, <2>4, ClaimMoves
  <1> QED
    BY <1>1, CampaignAlways, PTL DEF Spec, NeverGrows

(* When volmig watch ends with the exit code 0, every claim the migration has
   counted is as small as was asked for and holds all its data: a Completed
   VolumeResize says so until it is gone, whatever came after it. *)
THEOREM ZeroExitIsSuccess == ASSUME TidyUse PROVE Spec => ZeroExitMeansMoved
  <1>1. CampaignInv /\ [Next]_vars
           => [\A t \in Terminals :
                  LET v == Stored(session[t].name)
                  IN  Running(t, "watch") /\ session'[t] = Prompt /\ WatchCode(v.phase) = 0
                     => v.total > 0 /\ \A r \in 0 .. v.total - 1 :
                               LET c == claim[<<v.set, r>>]
                               IN  c.size <= v.size /\ c.full]_vars
    <2> SUFFICES ASSUME CampaignInv, NEW t \in Terminals, Running(t, "watch"),
                        NEW n, n = session[t].name, NEW v, v = Stored(n),
                        WatchCode(v.phase) = 0
                 PROVE  v.total > 0 /\ \A r \in 0 .. v.total - 1 :
                           claim[<<v.set, r>>].size <= v.size /\ claim[<<v.set, r>>].full
      OBVIOUS
    <2>1. n \in Names
      BY DEF CampaignInv, QueueInv, SessionOK, SessionFits, Running
    <2>2. v.phase = "Completed"
      BY DEF WatchCode
    <2>3. v.total > 0 /\ v.done = 0 .. v.total - 1
      BY <2>1, <2>2 DEF CampaignInv, VersionsInv, VersionFits
    <2> QED
      BY <2>1, <2>2, <2>3, DoneNow
  <1> QED
    BY <1>1, CampaignAlways, PTL DEF Spec, ZeroExitMeansMoved

-----------------------------------------------------------------------------
(* The StatefulSets and their backups. *)

(* Besides, nobody edits a StatefulSet while it is migrated, and every replica
   has its claim from the start. *)
SteadyUse == TidyUse /\ InitReplicas = MaxReplicas /\ "busyEdit" \notin Habits

(* What a StatefulSet, or its backup, says is what the users wrote. *)
Agree(x, wish) == [rev |-> x.rev, replicas |-> x.replicas] = wish

Kept(s) ==
    IF sts[s].up THEN Agree(sts[s], want[s])
    ELSE backup[sts[s].by].set = s /\ Agree(backup[sts[s].by], want[s])

(* While a migration is under way, its backup is what the users wrote, and they
   want the replicas it counted; behind the last swap the template is new. *)
BackedUp(n) == Unended(n) /\ backup[n] # NoBackup => Agree(backup[n], want[Stored(n).set])
Counts(n) ==
    Stored(n).phase = "Syncing" => Stored(n).total = want[Stored(n).set].replicas
Grown(n) ==
    LET v == Stored(n) IN
    v.phase = "Syncing" /\ v.cur \in v.done /\ ~ v.stsDeleted /\ ~ v.deleting
        => sts[v.set].tmpl = v.size

Steady(n) == BackedUp(n) /\ Counts(n) /\ Grown(n)

(* What recreateSTS may restore, and what is there, is what the users wrote. *)
WantInv == (\A s \in Sets : Kept(s)) /\ \A n \in Names : Steady(n)

LEMMA KeptSame ==
    ASSUME NEW s, Kept(s), sts'[s] = sts[s], want'[s] = want[s],
           ~ sts[s].up => backup'[sts[s].by] = backup[sts[s].by]
    PROVE  Kept(s)'
  BY DEF Kept, Agree

(* Another VolumeResize than the one of the step. *)
LEMMA SteadySame ==
    ASSUME NEW n, Steady(n), Stored(n)' = Stored(n), UNCHANGED want,
           backup'[n] = backup[n],
           Unended(n) => sts'[Stored(n).set].tmpl = sts[Stored(n).set].tmpl
    PROVE  Steady(n)'
  <1>1. PICK v : v = Stored(n)
    OBVIOUS
  <1>2. Unended(n)' <=> Unended(n)
    BY DEF Unended
  <1>3. v.phase = "Syncing" => Unended(n)
    BY <1>1 DEF Unended, Ended
  <1> QED
    BY <1>1, <1>2, <1>3 DEF Steady, BackedUp, Counts, Grown, Agree

LEMMA WantSame ==
    ASSUME WantInv, UNCHANGED <<sts, want, backup>>, SameVersions PROVE WantInv'
  <1>1. \A s \in Sets : Kept(s)'
    BY KeptSame DEF WantInv
  <1>2. \A n \in Names : Steady(n)'
    BY SteadySame DEF WantInv, SameVersions
  <1> QED
    BY <1>1, <1>2 DEF WantInv

LEMMA WantOne ==
    ASSUME WantInv, UNCHANGED <<sts, want, backup>>, NEW n \in Names, Elsewhere(n), Steady(n)'
    PROVE  WantInv'
  <1>1. \A s \in Sets : Kept(s)'
    BY KeptSame DEF WantInv
  <1>2. \A m \in Names \ {n} : Steady(m)'
    BY SteadySame DEF WantInv, Elsewhere
  <1> QED
    BY <1>1, <1>2 DEF WantInv

(* In terms of a version. *)
LEMMA SteadyFrom ==
    ASSUME NEW n, NEW w, Stored(n)' = w,
           w.phase \notin Ended /\ backup'[n] # NoBackup => Agree(backup'[n], want'[w.set]),
           w.phase = "Syncing" => w.total = want'[w.set].replicas,
           w.phase = "Syncing" /\ w.cur \in w.done /\ ~ w.stsDeleted /\ ~ w.deleting
               => sts'[w.set].tmpl = w.size
    PROVE  Steady(n)'
  BY DEF Steady, BackedUp, Counts, Grown, Unended, Agree

LEMMA SteadyNow ==
    ASSUME NEW n, NEW w, Stored(n) = w, Steady(n)
    PROVE  /\ w.phase \notin Ended /\ backup[n] # NoBackup => Agree(backup[n], want[w.set])
           /\ w.phase = "Syncing" => w.total = want[w.set].replicas
           /\ w.phase = "Syncing" /\ w.cur \in w.done /\ ~ w.stsDeleted /\ ~ w.deleting
                 => sts[w.set].tmpl = w.size
  BY DEF Steady, BackedUp, Counts, Grown, Unended

(* The run of a migration that failed does not delete the StatefulSet: there is
   no replica without a claim. *)
LEMMA DeletesFresh ==
    ASSUME SteadyUse, CampaignInv, NEW n, NEW v, Runs(n, v),
           run.at \in {"backup", "delete", "recreate"}
    PROVE  /\ Fresh(v, n) /\ Unended(n) /\ Stored(n).set = v.set
           /\ run.at # "backup" => backup[n] # NoBackup /\ backup[n].set = v.set
  <1>1. ~ Bare(v)
    BY QueueAssumption DEF Bare, SteadyUse
  <1>2. Fresh(v, n)
    BY <1>1, HoldsNow DEF BeforeSwap
  <1>3. /\ Alike(v, Stored(n)) /\ Exists(n) /\ Stored(n).phase = "Syncing"
        /\ n \in Names /\ n = run.name /\ v = run.vr
    <2>1. v.phase = "Syncing"
      BY RunVersion DEF BeforeSwap, AfterSwap
    <2>2. v \in RequestRecords /\ n \in Names /\ n = run.name /\ v = run.vr
      BY DEF Runs
    <2> QED
      BY <1>2, <2>1, <2>2, FreshIs DEF Exists
  <1>4. run.at # "backup" => backup[n] # NoBackup
    BY <1>3, NothingMissing DEF CampaignInv, BackupInv
  <1>5. backup[n] # NoBackup => backup[n].set = v.set
    BY <1>3 DEF CampaignInv, BackupInv, BackupFits, Alike
  <1> QED
    BY <1>2, <1>3, <1>4, <1>5 DEF Unended, Ended, Alike

LEMMA KeptRun ==
    ASSUME SteadyUse, CampaignInv, WantInv, NEW n, NEW v, Runs(n, v), Reconcile,
           NEW s \in Sets
    PROVE  Kept(s)'
  <1>0. /\ QueueInv /\ TidyUse /\ n \in Names /\ v.set \in Sets /\ UNCHANGED want
        /\ run.at # "idle" /\ Kept(s) /\ Steady(n)
    BY FrameIs DEF CampaignInv, SteadyUse, Runs, WantInv
  <1>1. CASE sts'[s] = sts[s]
    <2>1. CASE run.at # "backup"
      BY <1>0, <1>1, <2>1, FrameIs, KeptSame
    <2>2. CASE run.at = "backup"
      <3>1. BackupSts
        BY <1>0, <2>2, ActionIs
      <3>2. ASSUME ~ sts[s].up PROVE backup'[sts[s].by] = backup[sts[s].by]
        <4>1. PICK m : m = sts[s].by
          OBVIOUS
        <4>2. m \in Names /\ backup[m].set = s
          BY <1>0, <3>2, <4>1 DEF Kept, QueueInv, ClusterOK, StsOK
        <4>3. backup[m] # NoBackup
          BY <4>2, RequestsAssumption DEF NoBackup
        <4> QED
          BY <1>0, <3>1, <4>1, <4>2, <4>3, BackupIs
      <3> QED
        BY <1>0, <1>1, <3>2, KeptSame
    <2> QED
      BY <2>1, <2>2
  <1>2. CASE sts'[s] # sts[s]
    <2>1. s = v.set /\ run.at \in {"delete", "recreate"} /\ UNCHANGED backup
      BY <1>0, <1>2, StsIs, FrameIs
    <2>2. backup[n] # NoBackup /\ backup[n].set = s /\ Unended(n) /\ Stored(n).set = s
      BY <2>1, DeletesFresh
    <2>3. Agree(backup[n], want[s])
      BY <1>0, <2>2 DEF Steady, BackedUp
    <2>4. CASE run.at = "delete"
      <3>1. ~ sts'[s].up /\ sts'[s].by = n
        BY <1>0, <2>1, <2>4, ActionIs, DeleteStsIs
      <3> QED
        BY <1>0, <2>1, <2>2, <2>3, <3>1 DEF Kept, Agree
    <2>5. CASE run.at = "recreate"
      <3>1. sts'[s] = [up |-> TRUE, rev |-> backup[n].rev, tmpl |-> v.size,
                       replicas |-> backup[n].replicas, by |-> NoName]
        BY <1>0, <1>2, <2>1, <2>5, StsIs
      <3> QED
        BY <1>0, <2>3, <3>1 DEF Kept, Agree
    <2> QED
      BY <2>1, <2>4, <2>5
  <1> QED
    BY <1>1, <1>2

LEMMA SteadyOther ==
    ASSUME SteadyUse, CampaignInv, WantInv, NEW n, NEW v, Runs(n, v), Reconcile,
           NEW m \in Names \ {n}, Stored(m)' = Stored(m)
    PROVE  Steady(m)'
  <1>0. /\ QueueInv /\ TidyUse /\ n \in Names /\ UNCHANGED want
        /\ run.at # "idle" /\ Steady(m)
    BY FrameIs DEF CampaignInv, SteadyUse, Runs, WantInv
  <1>1. backup'[m] = backup[m]
    BY <1>0, FrameIs, ActionIs, BackupIs
  <1>2. ASSUME Unended(m) PROVE sts'[Stored(m).set].tmpl = sts[Stored(m).set].tmpl
    <2>1. Stored(m).set \in Sets /\ Exists(m) /\ Stored(m).phase # "Completed"
      BY <1>2, StoredSlots DEF Unended, Ended, Exists
    <2>2. run.at \in {"delete", "recreate"} => Stored(m).set # v.set
      BY <2>1, OwnSet DEF Migrating, BeforeSwap
    <2> QED
      BY <1>0, <2>1, <2>2, StsIs
  <1> QED
    BY <1>0, <1>1, <1>2, SteadySame

(* The VolumeResize of the run, when nothing is written. *)
LEMMA SteadyIdle ==
    ASSUME SteadyUse, CampaignInv, WantInv, NEW n, NEW v, Runs(n, v), Reconcile,
           Rests(n) \/ \E at : GoesOn(v, at) /\ Goes(at)
    PROVE  Steady(n)'
  <1>0. /\ QueueInv /\ TidyUse /\ n \in Names /\ UNCHANGED want
        /\ run.at # "idle" /\ Steady(n) /\ v.set \in Sets
    BY FrameIs DEF CampaignInv, SteadyUse, Runs, WantInv
  <1>1. PICK w : w = Stored(n)
    OBVIOUS
  <1>2. Stored(n)' = w
    BY <1>0, <1>1 DEF Rests, Idles, Goes, SameVersions
  <1>3. CASE run.at \notin {"backup", "delete", "recreate"}
    <2>1. UNCHANGED <<sts, backup>>
      BY <1>0, <1>3, FrameIs
    <2> QED
      BY <1>0, <1>1, <1>2, <2>1, SteadySame
  <1>4. CASE run.at = "backup"
    <2>1. BackupSts /\ UNCHANGED sts
      BY <1>0, <1>4, ActionIs, FrameIs
    <2>2. w.set = v.set
      BY <1>1, <1>4, DeletesFresh
    <2>3. ASSUME backup'[n] # backup[n] PROVE Agree(backup'[n], want[v.set])
      <3>1. sts[v.set].up /\ backup'[n] = SpecOf(v.set)
        BY <1>0, <2>1, <2>3, BackupIs
      <3>2. Agree(sts[v.set], want[v.set])
        BY <1>0, <3>1 DEF WantInv, Kept
      <3> QED
        BY <3>1, <3>2 DEF Agree, SpecOf
    <2> QED
      BY <1>0, <1>1, <1>2, <2>1, <2>2, <2>3, SteadyNow, SteadyFrom
  <1>5. CASE run.at \in {"delete", "recreate"}
    <2>1. UNCHANGED backup
      BY <1>0, <1>5, FrameIs
    <2>2. w = Marked(v) /\ w.deleting
      <3>1. Refuses(n)
        BY <1>5 DEF Rests, GoesOn
      <3>2. Stored(n) # v
        BY <3>1 DEF Refuses, Runs
      <3>3. Fresh(v, n)
        BY <1>5, DeletesFresh
      <3> QED
        BY <1>1, <3>2, <3>3, MarkedIs DEF Fresh, Runs
    <2> QED
      BY <1>0, <1>1, <1>2, <2>1, <2>2, SteadyNow, SteadyFrom
  <1> QED
    BY <1>3, <1>4, <1>5

(* When the run writes. *)
LEMMA SteadyWritten ==
    ASSUME SteadyUse, CampaignInv, WantInv, NEW n, NEW v, Runs(n, v), Reconcile,
           NEW w, NEW at, WrittenBy(v, w, at), Writes(n, w, at)
    PROVE  Steady(n)'
  <1>0. /\ QueueInv /\ TidyUse /\ n \in Names /\ UNCHANGED want /\ v \in RequestRecords
        /\ run.at # "idle" /\ Steady(n) /\ v.set \in Sets /\ v = run.vr /\ VersionOK(v)
    BY FrameIs DEF CampaignInv, SteadyUse, Runs, WantInv
  <1>1. Stored(n) = v /\ Stored(n)' = w
    BY <1>0 DEF Writes
  <1>2. UNCHANGED backup
    BY <1>0, FrameIs DEF WrittenBy
  <1>3. /\ v.phase \notin Ended /\ backup[n] # NoBackup => Agree(backup[n], want[v.set])
        /\ v.phase = "Syncing" => v.total = want[v.set].replicas
    BY <1>0, <1>1, SteadyNow
  <1>4. \/ w.phase = "Gone"
        \/ v.phase \in {"Pending", "Validating", "Syncing"} /\ w.set = v.set
    <2>1. \/ v.phase \in {"Pending", "Validating", "Syncing"} /\ w.set = v.set
          \/ w = GoneAfter(1)
      BY WrittenIsProgress
    <2> QED
      BY <2>1, GoneIs
  <1>5. w.phase \notin Ended /\ backup'[n] # NoBackup => Agree(backup'[n], want'[w.set])
    BY <1>0, <1>2, <1>3, <1>4 DEF Ended
  <1>6. /\ w.phase = "Syncing" => w.total = want'[w.set].replicas
        /\ w.phase = "Syncing" /\ w.cur \in w.done /\ ~ w.stsDeleted /\ ~ w.deleting
              => sts'[w.set].tmpl = w.size
    <2>1. CASE run.at = "finalizer" \/ run.at = "pending" \/ run.at = "deletion"
      <3>1. run.at = "finalizer" => v.phase = "Pending"
        BY RunVersion
      <3>2. w.phase # "Syncing"
        BY <1>0, <2>1, <3>1, WrittenIs, GoneIs DEF WrittenBy
      <3> QED
        BY <3>2
    <2>2. CASE w = Failing(v)
      BY <1>0, <2>2, FailingIs
    <2>3. CASE run.at = "validating" /\ w # Failing(v)
      <3>1. PICK k \in 0 .. MaxReplicas : k = sts[v.set].replicas
        BY <1>0, QueueAssumption DEF QueueInv, ClusterOK, StsOK
      <3>2. w = Counted(v, k) /\ sts[v.set].up
        BY <2>3, <3>1 DEF WrittenBy
      <3>3. Agree(sts[v.set], want[v.set])
        BY <1>0, <3>2 DEF WantInv, Kept
      <3>4. want[v.set].replicas = k
        BY <3>1, <3>3 DEF Agree
      <3>5. v.done = {}
        BY <1>0, <2>3, RunVersion DEF VersionOK
      <3>6. w.total = k /\ w.done = {} /\ w.set = v.set
        BY <1>0, <3>2, <3>5, CountedIs
      <3> QED
        BY <1>0, <3>4, <3>6
    <2>4. CASE run.at \in {"advance", "check"}
      <3>1. w = Advanced(v) /\ v.phase = "Syncing" /\ v.cur \in v.done
        BY <2>4, RunVersion DEF WrittenBy, AfterSwap
      <3>2. w.total = v.total /\ w.set = v.set /\ (w.phase = "Syncing" => w.cur \notin w.done)
        BY <1>0, <3>1, AdvancedFits
      <3> QED
        BY <1>0, <1>3, <3>1, <3>2
    <2>5. CASE run.at \in {"delete", "swap"}
      <3>1. v.phase = "Syncing"
        BY <2>5, RunVersion DEF BeforeSwap
      <3>2. run.at = "swap" => v.stsDeleted
        BY HoldsNow DEF Holding
      <3>3. w.total = v.total /\ w.set = v.set /\ w.stsDeleted
        BY <1>0, <2>5, <3>2, WrittenIs DEF WrittenBy
      <3> QED
        BY <1>0, <1>3, <3>1, <3>3
    <2>6. CASE run.at = "recreate"
      <3>1. w = Returned(v) /\ v.phase = "Syncing"
        BY <2>6, RunVersion DEF WrittenBy, AfterSwap
      <3>2. w.total = v.total /\ w.set = v.set /\ w.size = v.size
        BY <1>0, <3>1, WrittenIs
      <3>3. sts'[v.set].tmpl = v.size
        <4>1. ~ sts[v.set].up
          BY <2>6, HoldsNow DEF Away
        <4>2. sts'[v.set] = [up |-> TRUE, rev |-> backup[n].rev, tmpl |-> v.size,
                             replicas |-> backup[n].replicas, by |-> NoName]
          BY <1>0, <2>6, <4>1, StsIs
        <4> QED
          BY <4>2
      <3> QED
        BY <1>0, <1>3, <3>1, <3>2, <3>3
    <2> QED
      BY <2>1, <2>2, <2>3, <2>4, <2>5, <2>6 DEF WrittenBy
  <1> QED
    BY <1>1, <1>5, <1>6, SteadyFrom

LEMMA WantRun ==
    ASSUME SteadyUse, CampaignInv, WantInv, NEW n, NEW v, Runs(n, v), Reconcile
    PROVE  WantInv'
  <1>0. TidyUse /\ n \in Names
    BY DEF SteadyUse, Runs
  <1>1. \A s \in Sets : Kept(s)'
    BY KeptRun
  <1>2. CASE Rests(n) \/ \E at : GoesOn(v, at) /\ Goes(at)
    <2>1. \A m \in Names : Stored(m)' = Stored(m)
      BY <1>2 DEF Rests, Idles, Goes, SameVersions
    <2>2. \A m \in Names \ {n} : Steady(m)'
      BY <2>1, SteadyOther
    <2>3. Steady(n)'
      BY <1>2, SteadyIdle
    <2> QED
      BY <1>1, <2>2, <2>3 DEF WantInv
  <1>3. ASSUME NEW w, NEW at, WrittenBy(v, w, at), Writes(n, w, at) PROVE WantInv'
    <2>1. \A m \in Names \ {n} : Steady(m)'
      BY <1>3, SteadyOther DEF Writes, Elsewhere
    <2>2. Steady(n)'
      BY <1>3, SteadyWritten
    <2> QED
      BY <1>1, <2>1, <2>2 DEF WantInv
  <1> QED
    BY <1>0, <1>2, <1>3, RunShape

LEMMA WantStart == Init => WantInv
  <1> SUFFICES ASSUME Init PROVE WantInv
    OBVIOUS
  <1>1. \A s \in Sets : Kept(s)
    BY DEF Init, Kept, Agree
  <1>2. \A n \in Names : Stored(n) = GoneAfter(0)
    <2>1. trail = [n \in Names |-> <<GoneAfter(0)>>]
      BY DEF Init, RequestsInit
    <2>2. PICK v : v = GoneAfter(0)
      OBVIOUS
    <2>3. Len(<<v>>) = 1 /\ <<v>>[1] = v
      OBVIOUS
    <2> QED
      BY <2>1, <2>2, <2>3 DEF Stored
  <1>3. \A n \in Names : Steady(n)
    BY <1>2, GoneIs DEF Steady, BackedUp, Counts, Grown, Unended, Ended
  <1> QED
    BY <1>1, <1>3 DEF WantInv

(* An edit is of a StatefulSet that no migration under way is about. *)
LEMMA WantEdit ==
    ASSUME SteadyUse, CampaignInv, WantInv, NEW s \in Sets, Edit(s)
    PROVE  WantInv'
  <1>1. QueueInv /\ Quiet(s) /\ UNCHANGED backup /\ SameVersions
    BY RestIs DEF CampaignInv, Edit, SteadyUse
  <1>2. PICK k \in 1 .. MaxReplicas :
           /\ want' = [want EXCEPT ![s] = [rev |-> want[s].rev + 1, replicas |-> k]]
           /\ sts' = [sts EXCEPT ![s] = [@ EXCEPT !.rev = want[s].rev + 1, !.replicas = k]]
           /\ sts[s].up
    BY DEF Edit
  <1>3. /\ \A t \in Sets \ {s} : sts'[t] = sts[t] /\ want'[t] = want[t]
        /\ want'[s] = [rev |-> want[s].rev + 1, replicas |-> k]
        /\ sts'[s] = [sts[s] EXCEPT !.rev = want[s].rev + 1, !.replicas = k]
    BY <1>1, <1>2 DEF QueueInv, ClusterOK, StsOK
  <1>4. sts'[s].up /\ sts'[s].rev = want[s].rev + 1 /\ sts'[s].replicas = k
    BY <1>1, <1>2, <1>3 DEF QueueInv, ClusterOK, StsOK
  <1>5. Kept(s)'
    BY <1>3, <1>4 DEF Kept, Agree
  <1>6. \A t \in Sets \ {s} : Kept(t)'
    BY <1>1, <1>3, KeptSame DEF WantInv
  <1>7. ASSUME NEW n \in Names PROVE Steady(n)'
    <2>1. PICK w : w = Stored(n)
      OBVIOUS
    <2>2. Stored(n)' = w /\ Steady(n)
      BY <1>1, <2>1 DEF SameVersions, WantInv
    <2>3. w.phase \notin Ended => w.set \in Sets \ {s}
      <3>1. w.phase \notin Ended => w.set # s
        BY <1>1, <2>1 DEF Quiet, About, Exists, Unended, Ended
      <3>2. w.phase # "Gone" => w.set \in Sets
        BY <2>1, StoredSlots
      <3> QED
        BY <3>1, <3>2 DEF Ended
    <2>4. w.phase = "Syncing" => w.phase \notin Ended
      BY DEF Ended
    <2>5. w.phase \notin Ended => want'[w.set] = want[w.set] /\ sts'[w.set] = sts[w.set]
      BY <1>3, <2>3
    <2> QED
      BY <1>1, <2>1, <2>2, <2>4, <2>5, SteadyNow, SteadyFrom
  <1> QED
    BY <1>5, <1>6, <1>7 DEF WantInv

(* A StatefulSet that is restored by hand is what its backup says. *)
LEMMA WantRestore ==
    ASSUME SteadyUse, CampaignInv, WantInv, NEW s \in Sets, Restore(s)
    PROVE  WantInv'
  <1>1. /\ QueueInv /\ Quiet(s) /\ UNCHANGED <<backup, want>> /\ SameVersions
        /\ ~ sts[s].up
    BY RestIs DEF CampaignInv, Restore
  <1>2. PICK b : b = backup[sts[s].by]
    OBVIOUS
  <1>3. /\ \A t \in Sets \ {s} : sts'[t] = sts[t]
        /\ sts'[s] = [up |-> TRUE, rev |-> b.rev, replicas |-> b.replicas,
                      tmpl |-> b.tmpl, by |-> NoName]
    BY <1>1, <1>2 DEF Restore, QueueInv, ClusterOK, StsOK
  <1>4. Agree(b, want[s])
    BY <1>1, <1>2 DEF WantInv, Kept
  <1>5. Kept(s)'
    BY <1>1, <1>3, <1>4 DEF Kept, Agree
  <1>6. \A t \in Sets \ {s} : Kept(t)'
    BY <1>1, <1>3, KeptSame DEF WantInv
  <1>7. ASSUME NEW n \in Names PROVE Steady(n)'
    <2>1. Stored(n)' = Stored(n) /\ Steady(n)
      BY <1>1 DEF SameVersions, WantInv
    <2>2. ASSUME Unended(n) PROVE sts'[Stored(n).set].tmpl = sts[Stored(n).set].tmpl
      <3>1. Exists(n) /\ Stored(n).set \in Sets
        BY <2>2, StoredSlots DEF Unended, Ended, Exists
      <3>2. Stored(n).set # s
        BY <1>1, <2>2, <3>1 DEF Quiet, About
      <3> QED
        BY <1>3, <3>1, <3>2
    <2> QED
      BY <1>1, <2>1, <2>2, SteadySame
  <1> QED
    BY <1>5, <1>6, <1>7 DEF WantInv

LEMMA WantStep ==
    ASSUME SteadyUse, CampaignInv, WantInv, [Next]_vars
    PROVE  WantInv'
  <1>0. QueueInv /\ TidyUse
    BY DEF CampaignInv, SteadyUse
  <1>1. CASE Begin
    BY <1>0, <1>1, BeginIs, WantSame DEF clusterVars
  <1>2. ASSUME NEW n, NEW v, Runs(n, v), Reconcile PROVE WantInv'
    BY <1>2, WantRun
  <1>3. ASSUME NEW n \in Names, Informer(n) PROVE WantInv'
    <2>1. /\ UNCHANGED <<sts, want, backup>> /\ Elsewhere(n) /\ Stored(n)' = Stored(n)
          /\ Steady(n)
      BY <1>0, <1>3, InformerIs DEF clusterVars, WantInv
    <2>2. Steady(n)'
      BY <2>1, SteadySame
    <2> QED
      BY <2>1, <2>2, WantOne
  <1>4. CASE ClusterStep
    <2>1. UNCHANGED <<sts, want, backup>> /\ Rest
      BY <1>4 DEF ClusterStep, StartPod, PodEnds, PrunePod, TempGoes, MigStarts, MigEnds,
                  MigFails, MigGoes
    <2> QED
      BY <2>1, RestIs, WantSame
  <1>5. ASSUME NEW s \in Sets, Edit(s) \/ Restore(s) PROVE WantInv'
    BY <1>5, WantEdit, WantRestore
  <1>6. CASE Calm /\ SameVersions
    BY <1>6, WantSame DEF Calm, clusterVars
  <1>7. ASSUME Calm, NEW t \in Terminals, NEW n \in Names, Creates(t, n) PROVE WantInv'
    <2>1. UNCHANGED <<sts, want, backup>> /\ Elsewhere(n)
      BY <1>7 DEF Calm, clusterVars, Creates
    <2>2. PICK w : w = NewRequest(1, session[t].set, session[t].size)
      OBVIOUS
    <2>3. Stored(n)' = w /\ w.phase = "Pending"
      BY <1>7, <2>2, NewIs DEF Creates
    <2>4. backup[n] = NoBackup
      <3>1. Stored(n).incarnation = 0
        BY <1>7, GoneIs DEF Creates
      <3> QED
        BY <3>1 DEF CampaignInv, BackupInv, BackupFits
    <2>5. Steady(n)'
      BY <2>1, <2>3, <2>4, SteadyFrom
    <2> QED
      BY <2>1, <2>5, WantOne
  <1>8. ASSUME Calm, NEW n \in Names, Deletes(n) PROVE WantInv'
    <2>1. UNCHANGED <<sts, want, backup>> /\ Elsewhere(n) /\ Steady(n)
      BY <1>8 DEF Calm, clusterVars, Deletes, WantInv
    <2>2. PICK v \in RequestRecords : v = Stored(n)
      BY StoredSlots
    <2>3. PICK w : w = Stored(n)'
      OBVIOUS
    <2>4. w = Marked(v) \/ w = GoneAfter(1)
      BY <1>8, <2>2, <2>3 DEF Deletes
    <2>5. Steady(n)'
      <3>1. CASE w = GoneAfter(1)
        <4>1. w.phase = "Gone"
          BY <3>1, GoneIs
        <4> QED
          BY <2>3, <4>1, SteadyFrom DEF Ended
      <3>2. CASE w = Marked(v)
        <4>1. w.phase = v.phase /\ w.deleting /\ w.set = v.set /\ w.total = v.total
          BY <3>2, MarkedIs DEF Alike
        <4> QED
          BY <2>1, <2>2, <2>3, <4>1, SteadyNow, SteadyFrom
      <3> QED
        BY <2>4, <3>1, <3>2
    <2> QED
      BY <2>1, <2>5, WantOne
  <1> QED
    BY <1>0, <1>1, <1>2, <1>3, <1>4, <1>5, <1>6, <1>7, <1>8, StepIs

LEMMA WantAlways == ASSUME SteadyUse PROVE Spec => [](CampaignInv /\ WantInv)
  <1>1. CampaignInv /\ WantInv /\ [Next]_vars => WantInv'
    BY WantStep
  <1>2. Spec => []CampaignInv
    BY CampaignAlways DEF SteadyUse
  <1> QED
    BY <1>1, <1>2, WantStart, PTL DEF Spec

(* While a StatefulSet is away, the backup of the VolumeResize that took it away
   is of that StatefulSet and what its users wrote last: recreateSTS, or a
   recovery by hand, brings theirs back (statefulset.go:96-144). *)
THEOREM AwayAlwaysBackedUp == ASSUME SteadyUse PROVE Spec => []AwayIsBackedUp
  <1>1. WantInv => AwayIsBackedUp
    BY DEF WantInv, Kept, Agree, AwayIsBackedUp
  <1> QED
    BY <1>1, WantAlways, PTL

(* A StatefulSet that is there is the one its users wrote last: handleSyncing
   recreates it from the backup of its own migration, and nobody edits it between
   that backup and the recreation. *)
THEOREM AlwaysReturnsAsWanted == ASSUME SteadyUse PROVE Spec => []ReturnsAsWanted
  <1>1. WantInv => ReturnsAsWanted
    BY DEF WantInv, Kept, Agree, ReturnsAsWanted
  <1> QED
    BY <1>1, WantAlways, PTL

(* The step that makes a migration Completed is behind the recreation of its
   StatefulSet, with every replica done. *)
LEMMA Completes ==
    ASSUME SteadyUse, CampaignInv, WantInv, NEW n, NEW v, Runs(n, v), Reconcile,
           NEW w, NEW at, WrittenBy(v, w, at), Writes(n, w, at), w.phase = "Completed"
    PROVE  /\ sts[v.set].up /\ sts[v.set].tmpl = v.size /\ Stored(n) = v
           /\ \A r \in 0 .. want[v.set].replicas - 1 : claim[<<v.set, r>>].size = v.size
  <1>0. /\ n \in Names /\ v \in RequestRecords /\ v = run.vr /\ VersionOK(v)
        /\ Stored(n) = v /\ Steady(n)
    BY DEF Runs, Writes, WantInv
  <1>1. run.at \in {"advance", "check"}
    <2>1. run.at = "finalizer" => v.phase = "Pending"
      BY RunVersion
    <2>2. run.at \in {"delete", "swap", "recreate"} => v.phase = "Syncing"
      BY RunVersion DEF BeforeSwap, AfterSwap
    <2>3. w = Failing(v) => w.phase = "Failed"
      BY <1>0, FailingIs
    <2>4. run.at = "validating" /\ w # Failing(v) => w.phase = "Syncing"
      <3>1. ASSUME run.at = "validating", w # Failing(v) PROVE w.phase = "Syncing"
        <4>1. w = Counted(v, sts[v.set].replicas)
          BY <3>1 DEF WrittenBy
        <4>2. PICK k \in 0 .. MaxReplicas : k = sts[v.set].replicas
          BY <1>0, QueueAssumption
          DEF Runs, CampaignInv, QueueInv, ClusterOK, StsOK
        <4> QED
          BY <1>0, <4>1, <4>2, CountedIs
      <3> QED
        BY <3>1
    <2> QED
      BY <1>0, <2>1, <2>2, <2>3, <2>4, WrittenIs, GoneIs DEF WrittenBy
  <1>2. w = Advanced(v)
    BY <1>1 DEF WrittenBy
  <1>3. v.phase = "Syncing" /\ v.cur \in v.done /\ ~ v.deleting
    BY <1>1, RunVersion DEF AfterSwap
  <1>4. ~ v.stsDeleted /\ sts[v.set].up
    BY <1>0, <1>1, <1>3 DEF CampaignInv, AwayInv, AwayFits, Away
  <1>5. sts[v.set].tmpl = v.size /\ want[v.set].replicas = v.total
    BY <1>0, <1>3, <1>4, SteadyNow
  <1>6. v.done = 0 .. v.total - 1
    BY <1>0, <1>2, <1>3, AdvancedFits
  <1>7. \A r \in v.done : claim[<<v.set, r>>].size = v.size
    BY <1>0, <1>3, DoneNow
  <1> QED
    BY <1>0, <1>4, <1>5, <1>6, <1>7

(* A migration that becomes Completed has moved every replica its users want, and
   the template of its StatefulSet has the new size: the replicas handleValidating
   counted are those they want still, and a slot done has kept its new size. *)
THEOREM EveryReplicaCompleted == ASSUME SteadyUse PROVE Spec => CompletesAllReplicas
  <1>1. CampaignInv /\ WantInv /\ [Next]_vars
           => [\A n \in Names :
                  Stored(n).phase # "Completed" /\ Stored(n)'.phase = "Completed"
                  => LET s == Stored(n).set
                     IN  /\ sts[s].up /\ sts[s].tmpl = Stored(n).size
                         /\ \A r \in 0 .. want[s].replicas - 1 :
                               claim[<<s, r>>].size = Stored(n).size]_vars
    <2> SUFFICES ASSUME CampaignInv, WantInv, [Next]_vars, NEW k \in Names,
                        Stored(k).phase # "Completed", Stored(k)'.phase = "Completed"
                 PROVE  LET s == Stored(k).set
                        IN  /\ sts[s].up /\ sts[s].tmpl = Stored(k).size
                            /\ \A r \in 0 .. want[s].replicas - 1 :
                                  claim[<<s, r>>].size = Stored(k).size
      OBVIOUS
    <2>0. QueueInv /\ TidyUse /\ Stored(k)' # Stored(k)
      BY DEF CampaignInv, SteadyUse
    <2>1. ASSUME NEW n, NEW v, Runs(n, v), Reconcile
          PROVE  \E w, at : WrittenBy(v, w, at) /\ Writes(n, w, at) /\ k = n
                            /\ w.phase = "Completed"
      <3>1. ~ (Rests(n) \/ \E at : GoesOn(v, at) /\ Goes(at))
        BY <2>0 DEF Rests, Idles, Goes, SameVersions
      <3>2. PICK w, at : WrittenBy(v, w, at) /\ Writes(n, w, at)
        BY <2>0, <2>1, <3>1, RunShape
      <3>3. k = n /\ w.phase = "Completed"
        BY <2>0, <3>2 DEF Writes, Elsewhere
      <3> QED
        BY <3>2, <3>3
    <2>2. ~ \E n \in Names : Informer(n)
      BY <2>0, InformerIs DEF Elsewhere
    <2>3. ~ (ClusterStep \/ \E s \in Sets : Edit(s) \/ Restore(s))
      BY <2>0, ClusterStepOK, EditStep, RestIs DEF SameVersions
    <2>4. ~ Begin /\ ~ SameVersions
      BY <2>0, BeginIs DEF SameVersions
    <2>5. ~ \E t \in Terminals, n \in Names : Creates(t, n)
      BY <2>0, NewIs DEF Creates, Elsewhere
    <2>6. ~ \E n \in Names : Deletes(n)
      <3>1. ASSUME Deletes(k) PROVE FALSE
        <4>1. PICK v \in RequestRecords : v = Stored(k)
          BY StoredSlots
        <4>2. Stored(k)' = Marked(v) \/ Stored(k)' = GoneAfter(1)
          BY <3>1, <4>1 DEF Deletes
        <4> QED
          BY <4>1, <4>2, MarkedIs, GoneIs
      <3> QED
        BY <2>0, <3>1 DEF Deletes, Elsewhere
    <2>7. PICK v : Runs(k, v) /\ Reconcile
             /\ \E w, at : WrittenBy(v, w, at) /\ Writes(k, w, at) /\ w.phase = "Completed"
      BY <2>0, <2>1, <2>2, <2>3, <2>4, <2>5, <2>6, StepIs
    <2> QED
      BY <2>7, Completes
  <1> QED
    BY <1>1, WantAlways, PTL DEF Spec, CompletesAllReplicas
=============================================================================
