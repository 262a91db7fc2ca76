----------------------------- MODULE FreshRegistry -----------------------------
(* What ScannerService.buildRegistry promises its callers: a chain of metadata  *)
(* sources put together from settings no older than those of the last explicit  *)
(* rebuild (a scan that starts) before the call.  A chain is a version of the   *)
(* settings for each of the switches it was built from; 0 are the defaults.     *)
(* Once a read of the settings has failed, an older chain may be handed out.    *)
EXTENDS Naturals

CONSTANTS
    Callers,
    Switches \* the settings a chain is built from, each read on its own

VARIABLES
    current, \* version of the settings
    rebuilt, \* version at the last rebuild
    faulted, \* a read has failed
    asking,  \* who waits for a chain
    floor,   \* for each caller, rebuilt when it called
    supplied    \* the last chain each caller got

fresh == <<current, rebuilt, faulted, asking, floor, supplied>>

FreshInit ==
    /\ current = 0 /\ rebuilt = 0 /\ faulted = FALSE /\ asking = {}
    /\ floor = [c \in Callers |-> 0]
    /\ supplied = [c \in Callers |-> [s \in Switches |-> 0]]

SettingsSaved ==
    /\ current' = current + 1
    /\ UNCHANGED <<rebuilt, faulted, asking, floor, supplied>>

ReadFails ==
    /\ faulted' = TRUE
    /\ UNCHANGED <<current, rebuilt, asking, floor, supplied>>

(* A call, which may be that of a rebuild. *)
Calls(c) ==
    /\ c \notin asking /\ asking' = asking \cup {c}
    /\ rebuilt' \in {rebuilt, current}
    /\ floor' = [floor EXCEPT ![c] = rebuilt']
    /\ UNCHANGED <<current, faulted, supplied>>

Fresh(c, chain) ==
    \A s \in Switches : chain[s] <= current /\ (faulted \/ chain[s] >= floor[c])

Gets(c) ==
    /\ c \in asking /\ asking' = asking \ {c}
    /\ \E chain \in [Switches -> 0..current] : Fresh(c, chain) /\ supplied' = [supplied EXCEPT ![c] = chain]
    /\ UNCHANGED <<current, rebuilt, faulted, floor>>

(* A call that panics while it builds. *)
Panics(c) ==
    /\ c \in asking /\ asking' = asking \ {c}
    /\ UNCHANGED <<current, rebuilt, faulted, floor, supplied>>

FreshNext ==
    \/ SettingsSaved \/ ReadFails
    \/ \E c \in Callers : Calls(c) \/ Gets(c) \/ Panics(c)

FreshSafety == FreshInit /\ [][FreshNext]_fresh

(* Every call ends. *)
FreshSpec == FreshSafety /\ \A c \in Callers : WF_fresh(Gets(c) \/ Panics(c))
===============================================================================
