----------------------------- MODULE RegistryCache -----------------------------
(* ScannerService.buildRegistry and rebuildEngine (internal/core/service/       *)
(* scanner_service.go): the cached chain of metadata sources, its generation,   *)
(* and the one build in flight that concurrent callers share.                   *)
EXTENDS Naturals, FiniteSets

CONSTANTS
    Callers,     \* goroutines: scans, cover lookups, requests
    Switches,
    NoChain,
    NoFlight,
    MaxChanges,  \* bound: saves of the settings
    MaxFaults,   \* bound: failed reads and panics
    MaxRebuilds, \* bound
    MaxCalls     \* bound: other calls

ASSUME RegistryAssumption ==
    /\ {MaxChanges, MaxFaults, MaxRebuilds, MaxCalls} \subseteq Nat
    /\ NoFlight \notin Callers

VARIABLES
    current,     \* the settings: the number of the save, 0 the defaults
    registryVal, \* the cached chain, while its TTL lasts
    registryGen,
    registryFlight,   \* the caller whose build is in flight
    lastGood,    \* lastGoodRegistry
    caller,      \* the callers
    engine,      \* the chain of the scanner engine
    rebuilt, faulted, floor, supplied, \* history: as in FreshRegistry
    rfaults, rcalls

registryVars == <<current, registryVal, registryGen, registryFlight, lastGood, caller, engine,
                  rebuilt, faulted, floor, supplied, rfaults, rcalls>>

NotCalling == [pc |-> "idle", gen |-> 0, chain |-> NoChain, ok |-> TRUE, scan |-> FALSE]
Chains == [Switches -> 0..current]
Builders == {c \in Callers : caller[c].pc \in {"read", "publish"}}
Read(c) == {s \in Switches : caller[c].chain[s] # NoChain}
Unread == [s \in Switches |-> NoChain]
Defaults == [s \in Switches |-> 0]

RegistryTypeOK ==
    /\ registryVal \in Chains \cup {NoChain} /\ lastGood \in Chains \cup {NoChain} /\ engine \in Chains
    /\ registryGen \in 0..MaxRebuilds /\ registryFlight \in Callers \cup {NoFlight}
    /\ \A c \in Callers : /\ caller[c].pc \in {"idle", "enter", "wait", "read", "publish", "woken"}
                          /\ caller[c].gen <= registryGen

RegistryInit ==
    /\ current = 0 /\ registryVal = NoChain /\ registryGen = 0
    /\ registryFlight = NoFlight /\ lastGood = NoChain /\ engine = Defaults
    /\ caller = [c \in Callers |-> NotCalling]
    /\ rebuilt = 0 /\ faulted = FALSE /\ floor = [c \in Callers |-> 0]
    /\ supplied = [c \in Callers |-> Defaults]
    /\ rfaults = 0 /\ rcalls = 0

(* UpdateSourceSettings: one transaction, and nobody is told. *)
SaveSources ==
    /\ current < MaxChanges /\ current' = current + 1
    /\ UNCHANGED <<registryVal, registryGen, registryFlight, lastGood, caller, engine, rebuilt, faulted, floor, supplied, rfaults, rcalls>>

TTLPasses ==
    /\ registryVal # NoChain /\ registryVal' = NoChain
    /\ UNCHANGED <<current, registryGen, registryFlight, lastGood, caller, engine, rebuilt, faulted, floor, supplied, rfaults, rcalls>>

CallRegistry(c) ==
    /\ caller[c].pc = "idle" /\ rcalls < MaxCalls /\ rcalls' = rcalls + 1
    /\ caller' = [caller EXCEPT ![c] = [NotCalling EXCEPT !.pc = "enter"]]
    /\ floor' = [floor EXCEPT ![c] = rebuilt]
    /\ UNCHANGED <<current, registryVal, registryGen, registryFlight, lastGood, engine, rebuilt, faulted, supplied, rfaults>>

DropCached == NoChain

(* rebuildEngine, by a scan that starts; ScannerService.mu admits one. *)
RebuildEngine(c) ==
    /\ caller[c].pc = "idle" /\ registryGen < MaxRebuilds /\ \A d \in Callers : ~caller[d].scan
    /\ registryGen' = registryGen + 1 /\ registryVal' = DropCached /\ registryFlight' = NoFlight
    /\ caller' = [caller EXCEPT ![c] = [NotCalling EXCEPT !.pc = "enter", !.scan = TRUE]]
    /\ rebuilt' = current /\ floor' = [floor EXCEPT ![c] = current]
    /\ UNCHANGED <<current, lastGood, engine, faulted, supplied, rfaults, rcalls>>

(* The call returns; a rebuild makes the engine of what it got. *)
Returns(c, chain) ==
    /\ supplied' = [supplied EXCEPT ![c] = chain]
    /\ engine' = IF caller[c].scan THEN chain ELSE engine

(* Under registryMu: a hit, another caller's build of this generation, or a    *)
(* build of one's own.                                                         *)
Enter(c) ==
    /\ caller[c].pc = "enter"
    /\ IF registryVal # NoChain
       THEN /\ Returns(c, registryVal) /\ caller' = [caller EXCEPT ![c] = NotCalling]
            /\ UNCHANGED registryFlight
       ELSE IF registryFlight # NoFlight /\ caller[registryFlight].gen = registryGen
       THEN /\ caller' = [caller EXCEPT ![c].pc = "wait", ![c].gen = registryGen]
            /\ UNCHANGED <<registryFlight, supplied, engine>>
       ELSE /\ caller' = [caller EXCEPT ![c].pc = "read", ![c].gen = registryGen, ![c].chain = Unread]
            /\ registryFlight' = c
            /\ UNCHANGED <<supplied, engine>>
    /\ UNCHANGED <<current, registryVal, registryGen, lastGood, rebuilt, faulted, floor, rfaults, rcalls>>

(* buildRegistryUnlocked reads the settings one by one; a read may fail. *)
ReadSetting(c, s) ==
    /\ caller[c].pc = "read" /\ s \notin Read(c)
    /\ \/ /\ caller' = [caller EXCEPT ![c].chain[s] = current]
          /\ UNCHANGED <<faulted, rfaults>>
       \/ /\ rfaults < MaxFaults /\ rfaults' = rfaults + 1 /\ faulted' = TRUE
          /\ caller' = [caller EXCEPT ![c].chain[s] = 0, ![c].ok = FALSE]
    /\ UNCHANGED <<current, registryVal, registryGen, registryFlight, lastGood, engine, rebuilt, floor, supplied, rcalls>>

(* After a failed read the last good chain takes its place, or else the        *)
(* defaults for what could not be read.                                        *)
Assemble(c) ==
    /\ caller[c].pc = "read" /\ Read(c) = Switches
    /\ caller' = [caller EXCEPT ![c].pc = "publish",
                                ![c].chain = IF ~caller[c].ok /\ lastGood # NoChain THEN lastGood ELSE @]
    /\ UNCHANGED <<current, registryVal, registryGen, registryFlight, lastGood, engine, rebuilt, faulted, floor, supplied, rfaults, rcalls>>

Cacheable(c) == caller[c].ok \/ lastGood # NoChain

(* Mutants: the slot is emptied whoever has it; a build is published whatever  *)
(* rebuild came in between.                                                    *)
LeavesAny(c) == NoFlight
PublishesAlways(c) == TRUE

LeavesSlot(c) == IF registryFlight = c THEN NoFlight ELSE registryFlight
Publishes(c) == registryGen = caller[c].gen
WaitFor(c) == {d \in Callers : caller[d].pc = "wait" /\ caller[d].gen = caller[c].gen}

(* The build is handed to whoever waits for it, and cached if its generation   *)
(* still is the current one.                                                   *)
Publish(c) ==
    /\ caller[c].pc = "publish"
    /\ caller' = [d \in Callers |-> IF d = c THEN NotCalling
                                    ELSE IF d \in WaitFor(c) THEN [caller[d] EXCEPT !.pc = "woken", !.chain = caller[c].chain]
                                    ELSE caller[d]]
    /\ registryFlight' = LeavesSlot(c)
    /\ registryVal' = IF Publishes(c) /\ Cacheable(c) THEN caller[c].chain ELSE registryVal
    /\ lastGood' = IF Publishes(c) /\ caller[c].ok THEN caller[c].chain ELSE lastGood
    /\ Returns(c, caller[c].chain)
    /\ UNCHANGED <<current, registryGen, rebuilt, faulted, floor, rfaults, rcalls>>

(* A panic in the build: the deferred function lets the waiting callers retry. *)
BuildPanics(c) ==
    /\ caller[c].pc = "read" /\ rfaults < MaxFaults /\ rfaults' = rfaults + 1
    /\ caller' = [d \in Callers |-> IF d = c THEN NotCalling
                                    ELSE IF d \in WaitFor(c) THEN [caller[d] EXCEPT !.pc = "woken"]
                                    ELSE caller[d]]
    /\ registryFlight' = LeavesSlot(c)
    /\ UNCHANGED <<current, registryVal, registryGen, lastGood, engine, rebuilt, faulted, floor, supplied, rcalls>>

Woken(c) ==
    /\ caller[c].pc = "woken"
    /\ IF caller[c].chain = NoChain
       THEN caller' = [caller EXCEPT ![c].pc = "enter"] /\ UNCHANGED <<supplied, engine>>
       ELSE Returns(c, caller[c].chain) /\ caller' = [caller EXCEPT ![c] = NotCalling]
    /\ UNCHANGED <<current, registryVal, registryGen, registryFlight, lastGood, rebuilt, faulted, floor, rfaults, rcalls>>

GoesOn(c) == Enter(c) \/ (\E s \in Switches : ReadSetting(c, s)) \/ Assemble(c) \/ Publish(c) \/ Woken(c)

RegistryNext ==
    \/ SaveSources \/ TTLPasses
    \/ \E c \in Callers : CallRegistry(c) \/ RebuildEngine(c) \/ GoesOn(c) \/ BuildPanics(c)

(* The goroutines run, and the database answers each read or fails it. *)
RegistryFairness == \A c \in Callers : WF_registryVars(GoesOn(c))

RegistrySpec == RegistryInit /\ [][RegistryNext]_registryVars /\ RegistryFairness

\* Concurrent misses of one generation share one build, whatever rebuilds and
\* panics come in between.
BuildsAreShared == \A c, d \in Builders : c # d => caller[c].gen # caller[d].gen

(* The refinement: a caller asks from its call to its return.  Waiting callers *)
(* are always waiting for a build that runs.                                   *)
Promised == INSTANCE FreshRegistry WITH asking <- {c \in Callers : caller[c].pc # "idle"}

\* buildRegistry keeps what FreshRegistry promises: nobody gets a chain older
\* than the last rebuild before the call unless reads have failed, and every call
\* returns.
KeepsThePromise == Promised!FreshSpec

\* One build at a time for each generation, in a state that is well typed
\* (buildRegistry).
RegistrySound == RegistryTypeOK /\ BuildsAreShared
===============================================================================
