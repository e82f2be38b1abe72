-------------------------- MODULE MigrationLifecycle --------------------------
(***************************************************************************)
(* What a VolumeResize promises its user, without how it is done: the      *)
(* volumes are replaced one at a time, replica by replica and within a     *)
(* replica in the order of the spec, each once; the phase is Completed     *)
(* only when all of them are; and a terminal phase is final.  Module       *)
(* VolumeResizeController implements it.                                   *)
(***************************************************************************)
EXTENDS Integers

CONSTANTS
    AllSlots,     \* the <<replica, volume>> pairs to migrate
    NumVolumes    \* volumes of one replica

VARIABLES
    phase,  \* status.phase, or "Gone" once the object is deleted
    cur,    \* the slot status.currentReplica and currentVolume name
    done    \* the slots whose volume status is Completed

lifecycle == <<phase, cur, done>>

rank(s) == s[1] * NumVolumes + s[2]
NoCursor == << >>

LifecycleInit ==
    /\ phase \in {"Pending", "Replacing"}
    /\ cur = NoCursor
    /\ done = {}

Accept ==
    /\ phase = "Pending" /\ phase' = "Validating"
    /\ UNCHANGED <<cur, done>>

Start ==
    /\ phase = "Validating" /\ phase' = "Syncing"
    /\ cur' \in AllSlots
    /\ \A s \in AllSlots : rank(cur') <= rank(s)
    /\ UNCHANGED done

CompleteVolume ==
    /\ phase = "Syncing" /\ cur \notin done
    /\ done' = done \cup {cur}
    /\ UNCHANGED <<phase, cur>>

Advance ==
    /\ phase = "Syncing" /\ cur \in done
    /\ cur' \in AllSlots \ done
    /\ rank(cur') = rank(cur) + 1
    /\ UNCHANGED <<phase, done>>

Complete ==
    /\ phase = "Syncing" /\ done = AllSlots /\ phase' = "Completed"
    /\ cur' = NoCursor
    /\ UNCHANGED done

(* A VolumeResize left in Replacing by an older version is just closed. *)
CloseLegacy ==
    /\ phase = "Replacing" /\ phase' = "Completed"
    /\ UNCHANGED <<cur, done>>

GiveUp ==
    /\ phase \in {"Validating", "Syncing"} /\ phase' = "Failed"
    /\ UNCHANGED <<cur, done>>

Remove ==
    /\ phase # "Gone" /\ phase' = "Gone"
    /\ UNCHANGED <<cur, done>>

LifecycleNext ==
    \/ Accept \/ Start \/ CompleteVolume \/ Advance \/ Complete \/ CloseLegacy
    \/ GiveUp \/ Remove

LifecycleSpec == LifecycleInit /\ [][LifecycleNext]_lifecycle
=============================================================================
