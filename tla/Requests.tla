------------------------------- MODULE Requests -------------------------------
(***************************************************************************)
(* The VolumeResizes of a namespace: as the API server has them, as the    *)
(* operator's informer cache shows them, and as the work queue of its      *)
(* controller holds their names.                                           *)
(*                                                                         *)
(* None of this is code under src/: it is the API server, client-go and    *)
(* controller-runtime, modelled from how Reconcile, SetupWithManager and   *)
(* volmig use them.  A write of the operator carries the copy it was made  *)
(* from and is refused when a newer version is stored.                     *)
(***************************************************************************)
EXTENDS Integers, Sequences, FiniteSets

CONSTANTS
    Names,   \* names of VolumeResizes
    Sets,    \* the StatefulSets they are about
    Sizes,   \* sizes a user may ask for
    Lag      \* bound: versions of a VolumeResize the cache may be behind

NoSet == ""  \* the StatefulSet of nothing

ASSUME RequestsAssumption ==
    NoSet \notin Sets /\ Sizes \subseteq Nat /\ Lag \in Nat \ {0}

VARIABLES
    trail,   \* versions of each VolumeResize the cache has still to see,
             \* after the one it shows; the last one is stored
    queue    \* the work queue: names in order, without repetition

requestVars == <<trail, queue>>

Phases == {"Gone", "Pending", "Validating", "Syncing", "Completed", "Failed"}
Ended  == {"Gone", "Completed", "Failed"}

(* A VolumeResize of volmig names one volume, so a slot is a replica.  The
   incarnation counts the objects that have had the name. *)
GoneAfter(incarnation) ==
    [incarnation |-> incarnation, set |-> NoSet, size |-> 0, phase |-> "Gone",
     cur |-> 0, total |-> 0, done |-> {}, stsDeleted |-> FALSE,
     finalizer |-> FALSE, deleting |-> FALSE]
NewRequest(incarnation, set, size) ==
    [GoneAfter(incarnation) EXCEPT !.set = set, !.size = size, !.phase = "Pending"]

Cached(n) == Head(trail[n])
Stored(n) == trail[n][Len(trail[n])]

Exists(n) == Stored(n).phase # "Gone"
About(n, s) == Exists(n) /\ Stored(n).set = s
Unended(n) == Stored(n).phase \notin Ended

RequestsInit ==
    /\ trail = [n \in Names |-> <<GoneAfter(0)>>]
    /\ queue = << >>

(* A writer waits while the cache is too far behind: the bound of the lag. *)
HasRoom(n) == Len(trail[n]) <= Lag
Store(n, v) == trail' = [trail EXCEPT ![n] = IF v = Stored(n) THEN @ ELSE Append(@, v)]

AddedAgain(n) == Append(queue, n)  \* mutant: a name is not looked for

(* The work queue holds a name once. *)
Added(n) == IF \E i \in 1 .. Len(queue) : queue[i] = n THEN queue
            ELSE Append(queue, n)

(***************************************************************************)
(* The informer sees the next version, and its handler adds the name.  A   *)
(* name the worker is busy with is added when the worker is done: every    *)
(* call of Reconcile that does anything ends with an error, a requeue or a *)
(* write of which the informer will hear.                                  *)
(***************************************************************************)
CatchUp(n, busy) ==
    /\ Len(trail[n]) > 1
    /\ trail' = [trail EXCEPT ![n] = Tail(@)]
    /\ queue' = IF busy THEN queue ELSE Added(n)
=============================================================================
