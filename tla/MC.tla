---------------------------------- MODULE MC ----------------------------------
(* Instances of the operator and its cluster for TLC. *)
EXTENDS MigrationProperties

(* The claims are bound to the first volumes, in the order of the slots. *)
MCInitPV == [s \in Slots |-> s[1] * NumVolumes + s[2]]
=============================================================================
