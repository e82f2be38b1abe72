-------------------------------- MODULE Cursor --------------------------------
(***************************************************************************)
(* getNextVolumeReplica: the order in which handleSyncing goes through the *)
(* slots of a VolumeResize, as a function of spec.volumes alone.  Nothing  *)
(* in the CRD forbids two entries of spec.volumes with the same name.      *)
(***************************************************************************)
EXTENDS Integers, Sequences, FiniteSets

Done == <<0, "">>

(* The index of the first entry with that name; the first entry when no
   entry has it. *)
FirstIndex(vols, v) ==
    IF \E i \in 1 .. Len(vols) : vols[i] = v
    THEN CHOOSE i \in 1 .. Len(vols) :
            vols[i] = v /\ \A j \in 1 .. i - 1 : vols[j] # v
    ELSE 1

(* Mutant: one replica more. *)
NextCursorInclusive(vols, maxReplica, r, v) ==
    LET i == FirstIndex(vols, v)
    IN  IF i < Len(vols) THEN <<r, vols[i + 1]>>
        ELSE IF r <= maxReplica THEN <<r + 1, vols[1]>>
        ELSE Done

(* The next volume of the same replica, else the first volume of the next
   replica, else the end. *)
NextCursor(vols, maxReplica, r, v) ==
    LET i == FirstIndex(vols, v)
    IN  IF i < Len(vols) THEN <<r, vols[i + 1]>>
        ELSE IF r < maxReplica THEN <<r + 1, vols[1]>>
        ELSE Done
=============================================================================
