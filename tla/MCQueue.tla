-------------------------------- MODULE MCQueue --------------------------------
(* Instances of the campaign for TLC. *)
EXTENDS ResizeQueueProperties

(* The data of the first replica fits a volume of size 2, that of the others
   does not. *)
MCNeed == [c \in Slots |-> IF c[2] = 0 THEN 2 ELSE 3]

(* Any request; or the size 2 in one VolumeResize and the sizes 1 and 3 in the
   others; or a StatefulSet for each of two VolumeResizes, one of which may hang. *)
One == CHOOSE n \in Names : TRUE
MCAnyWish == [n \in Names |-> Sets \X Sizes]
MCTwoSided == [n \in Names |-> Sets \X IF n = One THEN {2} ELSE Sizes \ {2}]
MCOwnSet == [n \in Names |-> IF n \in Hanging THEN {<<"y", 2>>}
                                               ELSE {"x"} \X Sizes]

(* The commands that write; or all of them about the VolumeResizes that do not
   hang. *)
MCWrites == [n \in Names |-> {"create", "delete"}]
MCUserOfOne == [n \in Names |-> IF n \in Hanging THEN {"create"}
                                ELSE {"create", "delete", "watch", "status"}]
=============================================================================
