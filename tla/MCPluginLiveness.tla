-------------------------- MODULE MCPluginLiveness -------------------------
(* Two kinds of behaviour of one plugin: in a calm one no process crashes  *)
(* and no client leaves, whatever is asked for; in the others it is turned *)
(* on and off only.                                                        *)
EXTENDS PluginManager

CONSTANT Switches   \* the requests of a behaviour that is not calm

VARIABLE calm

Accident == (\E p \in Procs : Fail(p)) \/ \E c \in Callers : Disconnect(c)
Switched == \A c \in Callers : op'[c].kind \in Switches \cup {None}

Undisturbed == calm /\ calm' = calm /\ Next /\ ~stopCh' /\ ~Accident
Disturbed   == ~calm /\ calm' = calm /\ Next /\ Switched

LiveNext == Disturbed \/ Undisturbed
LiveSpec == Init /\ calm \in BOOLEAN /\ [][LiveNext]_<<vars, calm>> /\ Fairness

---------------------------------------------------------------------------
(* When launches succeed, schedules and the data page follow the process   *)
(* of the plugin (manager.go, removePluginTasks, SetHasPage).              *)
FollowsInCalm == calm => FollowsTheProcess
=============================================================================
