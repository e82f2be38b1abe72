-------------------------------- MODULE Volmig --------------------------------
(***************************************************************************)
(* The volmig command line: create, delete, watch and status, run from     *)
(* several terminals.  volmig talks to the API server without a cache; two *)
(* calls of one command are two steps.                                     *)
(***************************************************************************)
EXTENDS Requests

CONSTANTS
    Terminals,  \* terminals volmig is run from
    Wishes,     \* bound: what each VolumeResize may ask for, of which set
    Commands,   \* bound: the commands run about each VolumeResize
    Habits,     \* what users do that the documentation does not foresee
    MaxReuse    \* bound: incarnations of one name

(***************************************************************************)
(* reuse: a name is used again after its VolumeResize is gone.             *)
(* untidy: a VolumeResize that failed is left in place when the next one   *)
(*         for its StatefulSet is made.                                    *)
(* busyEdit: the StatefulSet is edited while a migration is under way.     *)
(* That two migrations of one StatefulSet overlap is left out in any case  *)
(* (INSTRUCTIONS.md: "One VolumeResize CR per StatefulSet").               *)
(***************************************************************************)
ASSUME HabitsAssumption ==
    /\ Wishes \in [Names -> SUBSET (Sets \X Sizes)]
    /\ Commands \in [Names -> SUBSET {"create", "delete", "watch", "status"}]
    /\ Habits \subseteq {"reuse", "untidy", "busyEdit"} /\ MaxReuse \in Nat

VARIABLE session  \* the command each terminal runs

NoName == "none"
Prompt == [cmd |-> "none", name |-> NoName, set |-> NoSet, size |-> 0]
Command(cmd, n) == [Prompt EXCEPT !.cmd = cmd, !.name = n]

VolmigInit == session = [t \in Terminals |-> Prompt]

Types(t, cmd, n) == cmd \in Commands[n] /\ session[t].cmd = "none"
Running(t, cmd) == session[t].cmd = cmd
Becomes(t, s) == session' = [session EXCEPT ![t] = s]

Unused(n) ==
    \/ Stored(n).incarnation = 0
    \/ "reuse" \in Habits /\ Stored(n).incarnation < MaxReuse
Free(s) ==
    \A n \in Names : About(n, s) =>
        \/ Stored(n).phase = "Completed"
        \/ "untidy" \in Habits /\ Stored(n).phase = "Failed"
-----------------------------------------------------------------------------
(* volmig create: a name that is taken ends it at once. *)
CheckName(t, n, s, size) ==
    /\ Types(t, "create", n) /\ Unused(n) /\ Free(s)
    /\ \A u \in Terminals : ~ (Running(u, "create") /\ session[u].set = s)
    /\ IF Exists(n) THEN Becomes(t, Prompt)
       ELSE Becomes(t, [Command("create", n) EXCEPT !.set = s, !.size = size])
    /\ UNCHANGED requestVars

(* The write fails when another terminal was faster; --watch goes on. *)
Create(t) ==
    LET n == session[t].name IN
    /\ Running(t, "create") /\ HasRoom(n)
    /\ IF Exists(n) THEN Becomes(t, Prompt) /\ UNCHANGED trail
       ELSE /\ Store(n, NewRequest(Stored(n).incarnation + 1,
                                   session[t].set, session[t].size))
            /\ \E next \in {Prompt} \cup (IF "watch" \in Commands[n] THEN {Command("watch", n)} ELSE {}) : Becomes(t, next)
    /\ UNCHANGED queue

(* volmig delete: a Get, then a Delete without a precondition. *)
LookUp(t, n) ==
    /\ Types(t, "delete", n)
    /\ Becomes(t, IF Exists(n) THEN Command("delete", n) ELSE Prompt)
    /\ UNCHANGED requestVars

Delete(t) ==
    LET n == session[t].name IN
    /\ Running(t, "delete") /\ HasRoom(n)
    /\ Becomes(t, Prompt)
    /\ IF Exists(n)
       THEN Store(n, IF Stored(n).finalizer
                     THEN [Stored(n) EXCEPT !.deleting = TRUE]
                     ELSE GoneAfter(Stored(n).incarnation))
       ELSE UNCHANGED trail
    /\ UNCHANGED queue

(* The exit code of volmig watch, which polls until a migration has ended or is
   gone. *)
AnyEndIsZero(phase) == 0  \* mutant: every end is a success
WatchCode(phase) == IF phase = "Completed" THEN 0 ELSE 1

Watch(t, n) ==
    /\ Types(t, "watch", n)
    /\ Becomes(t, Command("watch", n))
    /\ UNCHANGED requestVars

(* Mutant: a watch waits for a success. *)
PollForSuccess(t) ==
    /\ Running(t, "watch") /\ Stored(session[t].name).phase = "Completed"
    /\ Becomes(t, Prompt)
    /\ UNCHANGED requestVars

Poll(t) ==
    /\ Running(t, "watch") /\ Stored(session[t].name).phase \in Ended
    /\ Becomes(t, Prompt)
    /\ UNCHANGED requestVars

(* volmig status --follow turns into a watch unless the migration has ended. *)
Follow(t, n) ==
    /\ Types(t, "status", n) /\ Stored(n).phase \notin Ended
    /\ Becomes(t, Command("watch", n))
    /\ UNCHANGED requestVars

VolmigStep(t) ==
    \/ \E n \in Names :
          \/ \E wish \in Wishes[n] : CheckName(t, n, wish[1], wish[2])
          \/ LookUp(t, n)
          \/ Watch(t, n)
          \/ Follow(t, n)
    \/ Create(t) \/ Delete(t) \/ Poll(t)
=============================================================================
