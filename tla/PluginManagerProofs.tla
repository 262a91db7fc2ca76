------------------------ MODULE PluginManagerProofs ------------------------
(***************************************************************************)
(* Proofs about PluginManager, for any number of requests, processes and   *)
(* monitors.  Four invariants, each resting on the ones before it: Types;  *)
(* LockInv (launches of a plugin exclude one another and an update's       *)
(* directory swap); TrackInv (every live process is in somebody's hands);  *)
(* WantInv (what runs and what the row says agree).                        *)
(***************************************************************************)
EXTENDS MCPluginLiveness, TLAPS

(* The type invariant in the parts its proof goes by.                      *)
RowType   == /\ installed \in BOOLEAN /\ enabled \in BOOLEAN /\ page \in BOOLEAN
             /\ status \in {"ok", "error", "disabled", "stopped"}
MapType   == /\ running \in ProcOrNone /\ task \in ProcOrNone
             /\ dir \in BOOLEAN /\ stopCh \in BOOLEAN
             /\ lock \in Callers \cup {None}
ProcType  == /\ proc \in [Procs -> {"up", "hung", "dead"}]
             /\ watch \in [Procs -> {"none", "poll", "mark", "untask"}]
             /\ beat \in [pc : {"idle", "ping", "drop", "kill", "untask"}, rp : ProcOrNone]
RequestType == op \in [Threads -> OpType]
Types == RowType /\ MapType /\ ProcType /\ RequestType

LEMMA TypesIsTypeOK == TypeOK <=> Types
BY DEF TypeOK, Types, RowType, MapType, ProcType, RequestType

LEMMA IdleIsTyped == IdleOp \in OpType /\ IdleBeat \in [pc : {"idle", "ping", "drop", "kill", "untask"}, rp : ProcOrNone]
BY DEF IdleOp, IdleBeat, OpType, ProcOrNone

(* A request that moves to another step, or returns, stays well formed.    *)
LEMMA GotoTyped ==
  ASSUME RequestType, NEW c \in Threads,
         NEW pc \in {"idle", "begin", "check", "launch", "init", "register", "recheck", "ok",
                 "dropped", "probe", "paged", "rollback", "take", "kill", "untask",
                 "disabled", "uninstalled", "forget", "install", "refuse", "fetch", "swap",
                 "swapped", "restart", "ensure", "stopped"},
         Goto(c, pc)
  PROVE  RequestType'
BY DEF RequestType, OpType, Goto

LEMMA ReturnTyped ==
  ASSUME RequestType, MapType, NEW c \in Threads, Return(c)
  PROVE  RequestType' /\ lock' \in Callers \cup {None}
BY IdleIsTyped DEF RequestType, MapType, Return

(* The step a stopped process leads to is chosen by the kind of request.   *)
LEMMA TakeNext ==
  ASSUME NEW c, Take(c)
  PROVE  \E next \in {"disabled", "fetch", "uninstalled", "stopped"} :
           op' = [op EXCEPT ![c] = [@ EXCEPT !.pc = IF running = None THEN next ELSE "kill",
                                             !.rp = running, !.next = next]]
BY DEF Take

(* An update of several fields of a request.                               *)
LEMMA PcRpTyped ==
  ASSUME RequestType, NEW c \in Threads, NEW pc \in {"init", "rollback", "probe", "launch"},
         NEW rp \in ProcOrNone, op' = [op EXCEPT ![c] = [@ EXCEPT !.pc = pc, !.rp = rp]]
  PROVE  RequestType'
<1>1. [op[c] EXCEPT !.pc = pc, !.rp = rp] \in OpType BY ZenonT(40) DEF RequestType, OpType
<1> QED BY <1>1 DEF RequestType

LEMMA PcFlagTyped ==
  ASSUME RequestType, NEW c \in Threads, NEW pc \in {"paged", "take", "refuse"},
         NEW flag \in BOOLEAN, op' = [op EXCEPT ![c] = [@ EXCEPT !.pc = pc, !.flag = flag]]
  PROVE  RequestType'
<1>1. [op[c] EXCEPT !.pc = pc, !.flag = flag] \in OpType BY ZenonT(40) DEF RequestType, OpType
<1> QED BY <1>1 DEF RequestType

LEMMA InitTypes == Init => Types
<1> SUFFICES ASSUME Init PROVE Types OBVIOUS
<1> USE DEF Init
<1>1. RowType BY DEF RowType
<1>2. \E ok \in BOOLEAN : Started(1, ok) OBVIOUS
<1>3. 1 \in ProcOrNone BY BoundAssumption DEF ProcOrNone, Procs
<1>6. running \in ProcOrNone BY <1>2, <1>3 DEF Started, ProcOrNone
<1>7. MapType BY <1>6 DEF MapType, ProcOrNone
<1>4. ProcType BY <1>2, IdleIsTyped DEF ProcType, Started
<1>5. RequestType BY IdleIsTyped DEF RequestType
<1> QED BY <1>1, <1>7, <1>4, <1>5 DEF Types

LEMMA StepRowType ==
  ASSUME Types, Next PROVE RowType'
<1> USE DEF Types, RowType, row, Write
<1>1. ASSUME NEW c \in Callers, RequestStep(c) PROVE RowType'
  <2>1. CASE StartStep(c)
    <3>1. ASSUME LaunchFails(c) \/ Launch(c) \/ InitOK(c) \/ InitFails(c) \/ Register(c)
                 \/ RegisterStopped(c) \/ RecheckKeeps(c) \/ RecheckDrops(c) \/ Probe(c)
          PROVE RowType'
      BY <3>1 DEF LaunchFails, Launch, InitOK, InitFails, Register, RegisterStopped,
         RecheckKeeps, RecheckDrops, Probe
    <3>2. ASSUME Dropped(c) \/ StartOK(c) \/ Paged(c) \/ Rollback(c)
          PROVE RowType'
      <4>1. op[c].flag \in BOOLEAN BY DEF RequestType, OpType, Threads
      <4> QED BY <3>2, <4>1 DEF Dropped, StartOK, Paged, Rollback
    <3> QED BY <2>1, <3>1, <3>2 DEF StartStep
  <2>2. CASE StopStep(c)
    BY <2>2 DEF StopStep, Take, Kill, RemoveTasks
  <2>3. CASE UpdateStep(c)
    BY <2>3 DEF UpdateStep, BeginUpdate, UpdateRefused, Fetch, FetchFails, SwapOut, SwapFails,
       SwapIn, SwapInFails, RestartNothing, Restart
  <2>4. ASSUME BeginSetEnabled(c) \/ EnableReturns(c) \/ EnableStarts(c) \/ Disabled(c)
               \/ BeginUninstall(c) \/ Uninstalled(c) \/ Forget(c) \/ BeginInstall(c) \/ Install(c)
        PROVE RowType'
    BY <2>4 DEF BeginSetEnabled, EnableReturns, EnableStarts, Disabled, BeginUninstall,
       Uninstalled, Forget, BeginInstall, Install
  <2> QED BY <1>1, <2>1, <2>2, <2>3, <2>4 DEF RequestStep
<1>2. ASSUME NEW c \in Callers, Disconnect(c) \/ \E k \in Kinds : Request(c, k) PROVE RowType'
  BY <1>2 DEF Disconnect, Request
<1>3. CASE Shutdown \/ MainStep
  BY <1>3 DEF Shutdown, MainStep, Stopped, StopStep, Take, Kill, RemoveTasks
<1>4. ASSUME NEW p \in Procs, Fail(p) \/ RegisterSchedule(p) \/ WatchStep(p) PROVE RowType'
  BY <1>4 DEF Fail, RegisterSchedule, WatchStep, WatchExit, WatchMark, WatchUntask
<1>5. CASE BeatSnapshot \/ BeatStep
  BY <1>5 DEF BeatSnapshot, BeatStep, BeatPing, BeatDrop, BeatKill, BeatUntask
<1> QED BY <1>1, <1>2, <1>3, <1>4, <1>5 DEF Next

LEMMA StepMapType ==
  ASSUME Types, Next PROVE MapType'
<1> USE DEF Types, MapType, ProcOrNone
<1>0. \A c \in Threads : op[c].rp \in ProcOrNone BY DEF RequestType, OpType
<1>1. ASSUME NEW c \in Callers, RequestStep(c) PROVE MapType'
  <2> c \in Threads BY DEF Threads
  <2>1. CASE StartStep(c)
    BY <1>0, <2>1 DEF StartStep, LaunchFails, Launch, InitOK, InitFails, Register, RegisterStopped,
       RecheckKeeps, RecheckDrops, Dropped, StartOK, Probe, Paged, Rollback, Return
  <2>2. CASE StopStep(c)
    BY <2>2 DEF StopStep, Take, Kill, RemoveTasks
  <2>3. CASE UpdateStep(c)
    BY <2>3 DEF UpdateStep, BeginUpdate, UpdateRefused, Fetch, FetchFails, SwapOut, SwapFails,
       SwapIn, SwapInFails, RestartNothing, Restart, Return, Acquire
  <2>4. ASSUME BeginSetEnabled(c) \/ EnableReturns(c) \/ EnableStarts(c) \/ Disabled(c)
               \/ BeginUninstall(c) \/ Uninstalled(c) \/ Forget(c) \/ BeginInstall(c) \/ Install(c)
        PROVE MapType'
    BY <2>4 DEF BeginSetEnabled, EnableReturns, EnableStarts, Disabled, BeginUninstall,
       Uninstalled, Forget, BeginInstall, Install, Return, Acquire
  <2> QED BY <1>1, <2>1, <2>2, <2>3, <2>4 DEF RequestStep
<1>2. ASSUME NEW c \in Callers, Disconnect(c) \/ \E k \in Kinds : Request(c, k) PROVE MapType'
  BY <1>2 DEF Disconnect, Request
<1>3. CASE Shutdown \/ MainStep
  BY <1>3 DEF Shutdown, MainStep, Stopped, StopStep, Take, Kill, RemoveTasks, Return
<1>4. ASSUME NEW p \in Procs, Fail(p) \/ RegisterSchedule(p) \/ WatchStep(p) PROVE MapType'
  BY <1>4 DEF Fail, RegisterSchedule, WatchStep, WatchExit, WatchMark, WatchUntask
<1>5. CASE BeatSnapshot \/ BeatStep
  BY <1>5 DEF BeatSnapshot, BeatStep, BeatPing, BeatDrop, BeatKill, BeatUntask
<1> QED BY <1>1, <1>2, <1>3, <1>4, <1>5 DEF Next

LEMMA StepProcType ==
  ASSUME Types, Next PROVE ProcType'
<1> USE DEF Types, ProcType
<1>1. ASSUME NEW c \in Callers, RequestStep(c) PROVE ProcType'
  <2>1. CASE StartStep(c)
    BY <2>1 DEF StartStep, LaunchFails, Launch, InitOK, InitFails, Register, RegisterStopped,
       RecheckKeeps, RecheckDrops, Dropped, StartOK, Probe, Paged, Rollback
  <2>2. CASE StopStep(c)
    BY <2>2 DEF StopStep, Take, Kill, RemoveTasks
  <2>3. CASE UpdateStep(c)
    BY <2>3 DEF UpdateStep, BeginUpdate, UpdateRefused, Fetch, FetchFails, SwapOut, SwapFails,
       SwapIn, SwapInFails, RestartNothing, Restart
  <2>4. ASSUME BeginSetEnabled(c) \/ EnableReturns(c) \/ EnableStarts(c) \/ Disabled(c)
               \/ BeginUninstall(c) \/ Uninstalled(c) \/ Forget(c) \/ BeginInstall(c) \/ Install(c)
        PROVE ProcType'
    BY <2>4 DEF BeginSetEnabled, EnableReturns, EnableStarts, Disabled, BeginUninstall,
       Uninstalled, Forget, BeginInstall, Install
  <2> QED BY <1>1, <2>1, <2>2, <2>3, <2>4 DEF RequestStep
<1>2. ASSUME NEW c \in Callers, Disconnect(c) \/ \E k \in Kinds : Request(c, k) PROVE ProcType'
  BY <1>2 DEF Disconnect, Request
<1>3. CASE Shutdown \/ MainStep
  BY <1>3 DEF Shutdown, MainStep, Stopped, StopStep, Take, Kill, RemoveTasks
<1>4. ASSUME NEW p \in Procs, Fail(p) \/ RegisterSchedule(p) \/ WatchStep(p) PROVE ProcType'
  BY <1>4 DEF Fail, RegisterSchedule, WatchStep, WatchExit, WatchMark, WatchUntask
<1>5. CASE BeatSnapshot \/ BeatStep
  BY <1>5, IdleIsTyped DEF BeatSnapshot, BeatStep, BeatPing, BeatDrop, BeatKill, BeatUntask, MapType
<1> QED BY <1>1, <1>2, <1>3, <1>4, <1>5 DEF Next

(* Requests change by Goto, by Return, or by the few records named here.   *)
LEMMA StepRequestType ==
  ASSUME Types, Next PROVE RequestType'
<1> USE DEF Types
<1>0. running \in ProcOrNone /\ None \in ProcOrNone /\ Procs \subseteq ProcOrNone
  BY DEF MapType, ProcOrNone
<1>1. ASSUME NEW c \in Callers, StartStep(c) PROVE RequestType'
  <2> c \in Threads BY DEF Threads
  <2>1. ASSUME LaunchFails(c) \/ InitOK(c) \/ Register(c) \/ RecheckKeeps(c) \/ Dropped(c)
        PROVE RequestType'
    BY <2>1, GotoTyped DEF LaunchFails, InitOK, Register, RecheckKeeps, Dropped
  <2>2. ASSUME Paged(c) \/ Rollback(c) PROVE RequestType'
    BY <2>2, ReturnTyped DEF Paged, Rollback
  <2>3. ASSUME Launch(c) PROVE RequestType'
    BY <2>3, <1>0, PcRpTyped DEF Launch
  <2>4. ASSUME InitFails(c) \/ RegisterStopped(c) \/ StartOK(c) PROVE RequestType'
    BY <2>4, <1>0, PcRpTyped DEF InitFails, RegisterStopped, StartOK
  <2>5. ASSUME RecheckDrops(c) PROVE RequestType'
    <3>1. [op[c] EXCEPT !.pc = "kill", !.next = "dropped", !.flag = installed] \in OpType
      BY ZenonT(40) DEF RequestType, OpType, RowType
    <3> QED BY <2>5, <3>1 DEF RecheckDrops, RequestType
  <2>6. ASSUME Probe(c) PROVE RequestType'
    BY <2>6, PcFlagTyped, ReturnTyped DEF Probe
  <2> QED BY <1>1, <2>1, <2>2, <2>3, <2>4, <2>5, <2>6 DEF StartStep
<1>2. ASSUME NEW c \in Threads, StopStep(c) PROVE RequestType'
  <2>1. ASSUME Take(c) PROVE RequestType'
    <3>1. PICK next \in {"disabled", "fetch", "uninstalled", "stopped"} :
            op' = [op EXCEPT ![c] = [@ EXCEPT !.pc = IF running = None THEN next ELSE "kill",
                                              !.rp = running, !.next = next]]
      BY <2>1, TakeNext
    <3>2. [op[c] EXCEPT !.pc = IF running = None THEN next ELSE "kill",
                        !.rp = running, !.next = next] \in OpType
      BY <1>0, ZenonT(40) DEF RequestType, OpType
    <3> QED BY <3>1, <3>2 DEF RequestType
  <2>2. ASSUME Kill(c) PROVE RequestType'
    BY <2>2, GotoTyped DEF Kill
  <2>3. ASSUME RemoveTasks(c) PROVE RequestType'
    <3>1. op[c].next \in {"idle", "dropped", "disabled", "fetch", "uninstalled", "stopped"}
      BY DEF RequestType, OpType
    <3> QED BY <2>3, <3>1, GotoTyped DEF RemoveTasks
  <2> QED BY <1>2, <2>1, <2>2, <2>3 DEF StopStep
<1>3. ASSUME NEW c \in Callers, UpdateStep(c) PROVE RequestType'
  <2> c \in Threads BY DEF Threads
  <2>1. ASSUME Fetch(c) \/ FetchFails(c) \/ SwapOut(c) \/ SwapFails(c) \/ SwapIn(c) \/ SwapInFails(c)
        PROVE RequestType'
    BY <2>1, GotoTyped DEF Fetch, FetchFails, SwapOut, SwapFails, SwapIn, SwapInFails
  <2>2. ASSUME UpdateRefused(c) \/ RestartNothing(c) PROVE RequestType'
    BY <2>2, ReturnTyped DEF UpdateRefused, RestartNothing
  <2>3. ASSUME BeginUpdate(c) PROVE RequestType'
    BY <2>3, PcFlagTyped DEF BeginUpdate, RowType
  <2>4. ASSUME Restart(c) PROVE RequestType'
    BY <2>4, <1>0, PcRpTyped DEF Restart
  <2> QED BY <1>3, <2>1, <2>2, <2>3, <2>4 DEF UpdateStep
<1>4. ASSUME NEW c \in Callers,
             BeginSetEnabled(c) \/ EnableReturns(c) \/ EnableStarts(c) \/ Disabled(c)
               \/ BeginUninstall(c) \/ Uninstalled(c) \/ Forget(c) \/ BeginInstall(c) \/ Install(c)
      PROVE RequestType'
  <2> c \in Threads BY DEF Threads
  <2> QED BY <1>4, GotoTyped, ReturnTyped DEF BeginSetEnabled, EnableReturns, EnableStarts, Disabled,
          BeginUninstall, Uninstalled, Forget, BeginInstall, Install
<1>5. ASSUME NEW c \in Callers, Disconnect(c) \/ \E k \in Kinds : Request(c, k) PROVE RequestType'
  <2> c \in Threads BY DEF Threads
  <2>1. \A k \in Kinds : [IdleOp EXCEPT !.pc = "begin", !.kind = k] \in OpType
    BY ChoiceAssumption, IdleIsTyped DEF OpType
  <2>2. ASSUME NEW k \in Kinds, Request(c, k) PROVE RequestType'
    BY <2>1, <2>2 DEF Request, RequestType
  <2>3. ASSUME Disconnect(c) PROVE RequestType'
    <3>1. [op[c] EXCEPT !.ctx = FALSE] \in OpType BY ZenonT(40) DEF RequestType, OpType
    <3>2. op' = [op EXCEPT ![c] = [op[c] EXCEPT !.ctx = FALSE]] BY <2>3 DEF Disconnect
    <3> QED BY <3>1, <3>2 DEF RequestType
  <2> QED BY <1>5, <2>2, <2>3
<1>6. CASE Shutdown
  <2>1. [IdleOp EXCEPT !.pc = "take", !.kind = "shutdown"] \in OpType
    BY IdleIsTyped DEF OpType, KindNames
  <2> QED BY <1>6, <2>1 DEF Shutdown, RequestType
<1>7. CASE Stopped
  BY <1>7, ReturnTyped DEF Stopped, Threads
<1>8. Main \in Threads BY DEF Threads
<1>9. ASSUME (\E p \in Procs : Fail(p) \/ RegisterSchedule(p) \/ WatchStep(p)) \/ BeatSnapshot \/ BeatStep
      PROVE RequestType'
  BY <1>9 DEF Fail, RegisterSchedule, WatchStep, WatchExit, WatchMark, WatchUntask,
     BeatSnapshot, BeatStep, BeatPing, BeatDrop, BeatKill, BeatUntask, RequestType
<1>10. Callers \subseteq Threads BY DEF Threads
<1> QED BY <1>1, <1>2, <1>3, <1>4, <1>5, <1>6, <1>7, <1>8, <1>9, <1>10 DEF Next, RequestStep, MainStep

LEMMA StepKeepsTypes ==
  ASSUME Types, [Next]_vars
  PROVE  Types'
<1>1. ASSUME Next PROVE Types'
  BY <1>1, StepRowType, StepMapType, StepProcType, StepRequestType DEF Types
<1>2. ASSUME UNCHANGED vars PROVE Types'
  BY <1>2 DEF Types, RowType, MapType, ProcType, RequestType, vars
<1> QED BY <1>1, <1>2

(* Every field of the state keeps its type, whatever the environment does. *)
THEOREM TypeCorrect == Spec => []TypeOK
<1>1. Init => Types BY InitTypes
<1>2. Types /\ [Next]_vars => Types' BY StepKeepsTypes
<1>3. Types => TypeOK BY TypesIsTypeOK
<1> QED BY <1>1, <1>2, <1>3, PTL DEF Spec

---------------------------------------------------------------------------
(* What the invariant says of one request.                                 *)
Good(c) ==
    /\ op[c].kind \in LockedKinds /\ op[c].pc \notin {"idle", "begin"} => lock = c
    /\ op[c].pc \notin UnlockedPcs => op[c].kind \in LockedKinds
    /\ op[c].pc \in {"kill", "untask"} =>
          \/ op[c].kind \in LockedKinds
          \/ op[c].kind = "uninstall" /\ op[c].next = "uninstalled"
    /\ op[c].pc = "take" => op[c].kind \in {"disable", "update", "uninstall"}
    /\ Emptied(c) => running = None

LEMMA LockInvIsGood == LockInv <=> \A c \in Callers : Good(c)
BY DEF LockInv, HoldersHold, KindsKept, EmptiedStaysEmpty, Good

(* A step that leaves a request and the lock alone, and registers nothing, *)
(* leaves what is said of the request true.                                *)
LEMMA GoodFramed ==
  ASSUME NEW c \in Callers, Good(c), op'[c] = op[c],
         lock' = lock \/ lock # c, running' \in {running, None}
  PROVE  Good(c)'
BY DEF Good, Emptied, InStart, Swapping

(* Two requests cannot both hold the lock.                                 *)
LEMMA HolderIsAlone ==
  ASSUME NEW c \in Callers, NEW d \in Callers, c # d, Good(c), Good(d),
         op[c].kind \in LockedKinds, op[c].pc \notin {"idle", "begin"}
  PROVE  /\ ~(op[d].kind \in LockedKinds /\ op[d].pc \notin {"idle", "begin"})
         /\ ~Emptied(d)
<1>1. ~(op[d].kind \in LockedKinds /\ op[d].pc \notin {"idle", "begin"}) BY DEF Good
<1>2. ~Emptied(d)
  BY <1>1 DEF Good, Emptied, InStart, Swapping, UnlockedPcs
<1> QED BY <1>1, <1>2

(* A step of request c touches no other request.  It takes the lock only   *)
(* when it is free, gives back only its own, and fills the running entry   *)
(* only by registering.                                                    *)
LEMMA StepIsLocal ==
  ASSUME Types, NEW c \in Callers, RequestStep(c), NEW d \in Callers, d # c
  PROVE  /\ op'[d] = op[d]
         /\ lock' = lock \/ lock # d
         /\ running' \in {running, None} \/ op[c].pc = "register"
<1> USE DEF Goto, Return
<1>0. op \in [Threads -> OpType] /\ c \in Threads /\ d \in Threads /\ None \notin Callers
  BY CallersAssumption DEF Types, RequestType, Threads
<1>1. CASE StartStep(c)
  BY <1>0, <1>1 DEF StartStep, LaunchFails, Launch, InitOK, InitFails, Register, RegisterStopped,
     RecheckKeeps, RecheckDrops, Dropped, StartOK, Probe, Paged, Rollback
<1>2. CASE StopStep(c)
  BY <1>0, <1>2 DEF StopStep, Take, Kill, RemoveTasks
<1>3. CASE UpdateStep(c)
  BY <1>0, <1>3 DEF UpdateStep, BeginUpdate, UpdateRefused, Fetch, FetchFails, SwapOut, SwapFails,
     SwapIn, SwapInFails, RestartNothing, Restart, Acquire
<1>4. ASSUME BeginSetEnabled(c) \/ EnableReturns(c) \/ EnableStarts(c) \/ Disabled(c)
             \/ BeginUninstall(c) \/ Uninstalled(c) \/ Forget(c) \/ BeginInstall(c) \/ Install(c)
      PROVE  /\ op'[d] = op[d]
             /\ lock' = lock \/ lock # d
             /\ running' \in {running, None}
  BY <1>0, <1>4 DEF BeginSetEnabled, EnableReturns, EnableStarts, Disabled, BeginUninstall,
     Uninstalled, Forget, BeginInstall, Install, Acquire
<1> QED BY <1>1, <1>2, <1>3, <1>4 DEF RequestStep

(* The request that moves stays good.                                      *)
LEMMA IdleIsGood ==
  ASSUME Types, NEW c \in Callers, Return(c)
  PROVE  Good(c)'
<1>1. op'[c] = IdleOp BY DEF Return, Types, RequestType, Threads
<1> QED BY <1>1 DEF Good, Emptied, InStart, Swapping, IdleOp, LockedKinds, UnlockedPcs

(* A locked request that moves on, to a step that requires running to be   *)
(* empty only if it is.                                                    *)
LEMMA LockedGotoGood ==
  ASSUME Types, NEW c \in Callers, Good(c), lock' = lock, NEW pc,
         op[c].kind \in LockedKinds, op[c].pc \notin {"idle", "begin"},
         pc \notin {"take", "begin"},
         op'[c].pc = pc, op'[c].kind = op[c].kind,
         Emptied(c)' => running' = None
  PROVE  Good(c)'
BY DEF Good

LEMMA StartKeepsGood ==
  ASSUME Types, NEW c \in Callers, Good(c), StartStep(c)
  PROVE  Good(c)'
<1>0. op \in [Threads -> OpType] /\ c \in Threads BY DEF Types, RequestType, Threads
<1>1. op[c].kind \in LockedKinds /\ op[c].pc \notin {"idle", "begin"}
  BY DEF Good, UnlockedPcs, StartStep, LaunchFails, Launch, InitOK, InitFails, Register, RegisterStopped,
     RecheckKeeps, RecheckDrops, Dropped, StartOK, Probe, Paged, Rollback
<1>2. ASSUME LaunchFails(c) \/ InitOK(c) \/ Register(c) \/ RecheckKeeps(c) \/ Dropped(c)
      PROVE Good(c)'
  <2>1. PICK pc \in {"rollback", "register", "recheck", "ok", "probe"} :
          Goto(c, pc) /\ (pc = "register" => InitOK(c))
    BY <1>2 DEF LaunchFails, InitOK, Register, RecheckKeeps, Dropped
  <2>2. op'[c].pc = pc /\ op'[c].kind = op[c].kind BY <1>0, <2>1 DEF Goto, OpType
  <2>3. lock' = lock BY <1>2 DEF LaunchFails, InitOK, Register, RecheckKeeps, Dropped
  <2>4. Emptied(c)' => running' = None
    <3>1. CASE pc = "register"
      BY <3>1, <2>1 DEF InitOK, Good, Emptied, InStart
    <3>2. CASE pc # "register"
      BY <3>2, <2>2 DEF Emptied, InStart, Swapping
    <3> QED BY <3>1, <3>2
  <2> QED BY <1>1, <2>2, <2>3, <2>4, LockedGotoGood
<1>3. ASSUME Paged(c) \/ Rollback(c) PROVE Good(c)'
  BY <1>3, IdleIsGood DEF Paged, Rollback
<1>4. ASSUME Launch(c) PROVE Good(c)'
  <2>1. op'[c].pc = "init" /\ op'[c].kind = op[c].kind /\ lock' = lock
    BY <1>0, <1>4 DEF Launch, OpType
  <2>2. running' = None BY <1>4 DEF Launch, Good, Emptied, InStart
  <2> QED BY <1>1, <2>1, <2>2, LockedGotoGood
<1>5. ASSUME InitFails(c) \/ RegisterStopped(c) \/ StartOK(c) PROVE Good(c)'
  <2>1. PICK pc \in {"rollback", "probe"} :
          op'[c].pc = pc /\ op'[c].kind = op[c].kind /\ lock' = lock
    <3>1. CASE InitFails(c)
      BY <1>0, <3>1 DEF InitFails, OpType
    <3>2. CASE RegisterStopped(c)
      BY <1>0, <3>2 DEF RegisterStopped, OpType
    <3>3. CASE StartOK(c)
      BY <1>0, <3>3 DEF StartOK, OpType
    <3> QED BY <1>5, <3>1, <3>2, <3>3
  <2>2. ~Emptied(c)' BY <2>1 DEF Emptied, InStart, Swapping
  <2> QED BY <1>1, <2>1, <2>2, LockedGotoGood
<1>6. ASSUME RecheckDrops(c) PROVE Good(c)'
  <2>1. op'[c].pc = "kill" /\ op'[c].kind = op[c].kind /\ lock' = lock /\ running' = None
    BY <1>0, <1>6 DEF RecheckDrops, OpType
  <2> QED BY <1>1, <2>1, LockedGotoGood
<1>7. ASSUME Probe(c) PROVE Good(c)'
  <2>1. CASE Return(c) BY <2>1, IdleIsGood
  <2>2. CASE ~Return(c)
    <3>1. op'[c].pc = "paged" /\ op'[c].kind = op[c].kind /\ lock' = lock
      BY <1>0, <1>7, <2>2 DEF Probe, OpType
    <3>2. ~Emptied(c)' BY <3>1 DEF Emptied, InStart, Swapping
    <3> QED BY <1>1, <3>1, <3>2, LockedGotoGood
  <2> QED BY <2>1, <2>2
<1> QED BY <1>2, <1>3, <1>4, <1>5, <1>6, <1>7 DEF StartStep

(* What Goto changes of a request, and what it keeps.                      *)
LEMMA GotoMoves ==
  ASSUME Types, NEW c \in Threads, NEW pc, Goto(c, pc)
  PROVE  op'[c].pc = pc /\ op'[c].kind = op[c].kind /\ op'[c].next = op[c].next
BY DEF Types, RequestType, OpType, Goto

LEMMA StopKeepsGood ==
  ASSUME Types, NEW c \in Callers, Good(c), StopStep(c)
  PROVE  Good(c)'
<1>0. op \in [Threads -> OpType] /\ c \in Threads BY DEF Types, RequestType, Threads
<1>1. CASE Take(c)
  <2>1. op[c].kind \in {"disable", "update", "uninstall"} BY <1>1 DEF Good, Take
  <2>2. PICK next \in {"disabled", "fetch", "uninstalled"} :
          /\ op'[c].pc \in {next, "kill"} /\ op'[c].next = next /\ op'[c].kind = op[c].kind
          /\ next = "uninstalled" <=> op[c].kind = "uninstall"
    BY <1>0, <1>1, <2>1 DEF Take, OpType
  <2>3. lock' = lock /\ running' = None BY <1>1 DEF Take
  <2>4. CASE op[c].kind = "uninstall"
    BY <2>2, <2>3, <2>4 DEF Good, LockedKinds, UnlockedPcs
  <2>5. CASE op[c].kind # "uninstall"
    <3>1. op[c].kind \in LockedKinds /\ op[c].pc = "take"
      BY <1>1, <2>1, <2>5 DEF LockedKinds, Take
    <3> QED BY <2>2, <2>3, <3>1, LockedGotoGood
  <2> QED BY <2>4, <2>5
<1>2. CASE Kill(c) \/ RemoveTasks(c)
  <2>1. /\ op[c].pc \in {"kill", "untask"}
        /\ op'[c].pc = "untask" \/ (op[c].pc = "untask" /\ op'[c].pc = op[c].next)
        /\ op'[c].next = op[c].next /\ op'[c].kind = op[c].kind
        /\ lock' = lock /\ running' = running
    <3>1. CASE Kill(c)
      <4>1. Goto(c, "untask") BY <3>1 DEF Kill
      <4>2. op'[c].pc = "untask" /\ op'[c].kind = op[c].kind /\ op'[c].next = op[c].next
        BY <1>0, <4>1, GotoMoves
      <4>3. op[c].pc = "kill" /\ lock' = lock /\ running' = running BY <3>1 DEF Kill
      <4> QED BY <4>2, <4>3
    <3>2. CASE RemoveTasks(c)
      <4>1. Goto(c, op[c].next) BY <3>2 DEF RemoveTasks
      <4>2. op'[c].pc = op[c].next /\ op'[c].kind = op[c].kind /\ op'[c].next = op[c].next
        BY <1>0, <4>1, GotoMoves
      <4>3. op[c].pc = "untask" /\ lock' = lock /\ running' = running BY <3>2 DEF RemoveTasks
      <4> QED BY <4>2, <4>3
    <3> QED BY <1>2, <3>1, <3>2
  <2>2. op[c].next \in {"idle", "dropped", "disabled", "fetch", "uninstalled", "stopped"}
    BY <1>0 DEF OpType
  <2>3. CASE op[c].kind \in LockedKinds
    <3>1. Emptied(c)' => running' = None
      BY <2>1, <2>2 DEF Good, Emptied, InStart, Swapping
    <3>2. op'[c].pc \notin {"take", "begin"} BY <2>1, <2>2
    <3>3. op[c].pc \notin {"idle", "begin"} BY <2>1
    <3> QED BY <2>1, <2>3, <3>1, <3>2, <3>3, LockedGotoGood
  <2>4. CASE op[c].kind \notin LockedKinds
    <3>1. op[c].kind = "uninstall" /\ op[c].next = "uninstalled" BY <2>1, <2>4 DEF Good
    <3> QED BY <2>1, <3>1 DEF Good, Emptied, InStart, Swapping, LockedKinds, UnlockedPcs
  <2> QED BY <2>3, <2>4
<1> QED BY <1>1, <1>2 DEF StopStep

LEMMA UpdateKeepsGood ==
  ASSUME Types, NEW c \in Callers, Good(c), UpdateStep(c)
  PROVE  Good(c)'
<1>0. op \in [Threads -> OpType] /\ c \in Threads BY DEF Types, RequestType, Threads
<1>1. CASE BeginUpdate(c)
  <2>1. /\ op'[c].pc \in {"take", "refuse"} /\ op'[c].kind = "update" /\ lock' = c
    BY <1>0, <1>1 DEF BeginUpdate, Acquire, OpType
  <2> QED BY <2>1 DEF Good, Emptied, InStart, Swapping, LockedKinds, UnlockedPcs
<1>2. CASE UpdateRefused(c) \/ RestartNothing(c)
  BY <1>2, IdleIsGood DEF UpdateRefused, RestartNothing
<1>3. CASE Fetch(c) \/ FetchFails(c) \/ SwapOut(c) \/ SwapFails(c) \/ SwapIn(c)
           \/ SwapInFails(c) \/ Restart(c)
  <2>1. Emptied(c) /\ op[c].pc \notin UnlockedPcs
    BY <1>3 DEF Fetch, FetchFails, SwapOut, SwapFails, SwapIn, SwapInFails, Restart,
       Emptied, InStart, Swapping, UnlockedPcs
  <2>2. op[c].kind \in LockedKinds /\ op[c].pc \notin {"idle", "begin"} /\ running = None
    BY <2>1 DEF Good, UnlockedPcs
  <2>3. PICK pc \in {"swap", "swapped", "restart", "ensure", "launch", "rollback"} :
          op'[c].pc = pc /\ op'[c].kind = op[c].kind
    <3>1. CASE Restart(c) BY <1>0, <3>1 DEF Restart, OpType
    <3>2. CASE ~Restart(c)
      BY <1>0, <1>3, <3>2, GotoMoves DEF Fetch, FetchFails, SwapOut, SwapFails, SwapIn, SwapInFails
    <3> QED BY <3>1, <3>2
  <2>4. lock' = lock /\ running' = running
    BY <1>3 DEF Fetch, FetchFails, SwapOut, SwapFails, SwapIn, SwapInFails, Restart
  <2> QED BY <2>2, <2>3, <2>4, LockedGotoGood
<1> QED BY <1>1, <1>2, <1>3 DEF UpdateStep

LEMMA RequestKeepsGood ==
  ASSUME Types, NEW c \in Callers, Good(c), RequestStep(c)
  PROVE  Good(c)'
<1>0. op \in [Threads -> OpType] /\ c \in Threads BY DEF Types, RequestType, Threads
<1>1. CASE BeginSetEnabled(c)
  <2>1. /\ op'[c].pc \in {"check", "take"} /\ op'[c].kind = op[c].kind /\ lock' = c
        /\ op[c].kind \in {"enable", "disable"} /\ (op'[c].pc = "take" => op[c].kind = "disable")
    BY <1>0, <1>1 DEF BeginSetEnabled, Acquire, Goto, OpType
  <2> QED BY <2>1 DEF Good, Emptied, InStart, Swapping, LockedKinds, UnlockedPcs
<1>2. CASE EnableReturns(c) \/ Disabled(c) \/ Forget(c) \/ Install(c)
  BY <1>2, IdleIsGood DEF EnableReturns, Disabled, Forget, Install
<1>3. CASE EnableStarts(c)
  <2>1. op[c].kind \in LockedKinds /\ op[c].pc = "check"
    BY <1>3 DEF EnableStarts, Good, UnlockedPcs
  <2>2. /\ op'[c].pc \in {"launch", "rollback"} /\ op'[c].kind = op[c].kind
        /\ lock' = lock /\ running' = None
    BY <1>0, <1>3 DEF EnableStarts, Goto, OpType
  <2> QED BY <2>1, <2>2, LockedGotoGood
<1>4. CASE BeginUninstall(c) \/ Uninstalled(c)
  <2>1. /\ op'[c].kind = op[c].kind /\ lock' = lock
        /\ \/ op'[c].pc = "take" /\ op[c].kind = "uninstall"
           \/ op'[c].pc = "forget" /\ op[c].pc = "uninstalled"
    BY <1>0, <1>4 DEF BeginUninstall, Uninstalled, Goto, OpType
  <2> QED BY <2>1 DEF Good, Emptied, InStart, Swapping, LockedKinds, UnlockedPcs
<1>5. CASE BeginInstall(c)
  <2>1. CASE Return(c) BY <2>1, IdleIsGood
  <2>2. CASE ~Return(c)
    <3>1. op'[c].pc = "install" /\ op'[c].kind = "install" /\ lock' = lock
      BY <1>0, <1>5, <2>2 DEF BeginInstall, Goto, OpType
    <3> QED BY <3>1 DEF Good, Emptied, InStart, Swapping, LockedKinds, UnlockedPcs
  <2> QED BY <2>1, <2>2
<1> QED BY <1>1, <1>2, <1>3, <1>4, <1>5, StartKeepsGood, StopKeepsGood, UpdateKeepsGood DEF RequestStep

LEMMA StepKeepsLockInv ==
  ASSUME Types, LockInv, [Next]_vars
  PROVE  LockInv'
<1>0. op \in [Threads -> OpType] /\ Callers \subseteq Threads /\ Main \notin Callers
  BY CallersAssumption DEF Types, RequestType, Threads
<1>g. \A d \in Callers : Good(d) BY LockInvIsGood
<1> SUFFICES ASSUME NEW d \in Callers PROVE Good(d)'
  BY LockInvIsGood DEF LockInv, HoldersHold, KindsKept, EmptiedStaysEmpty, Good
<1>1. ASSUME NEW c \in Callers, RequestStep(c) PROVE Good(d)'
  <2>1. CASE c = d BY <1>1, <2>1, <1>g, RequestKeepsGood
  <2>2. CASE c # d
    <3>1. /\ op'[d] = op[d] /\ (lock' = lock \/ lock # d)
          /\ running' \in {running, None} \/ op[c].pc = "register"
      BY <1>1, <2>2, StepIsLocal
    <3>2. CASE running' \in {running, None} BY <3>1, <3>2, <1>g, GoodFramed
    <3>3. CASE op[c].pc = "register"
      <4>1. op[c].kind \in LockedKinds /\ op[c].pc \notin {"idle", "begin"}
        BY <3>3, <1>g DEF Good, UnlockedPcs
      <4>2. ~Emptied(d) BY <2>2, <4>1, <1>g, HolderIsAlone
      <4>3. ~Emptied(d)' BY <4>2, <3>1 DEF Emptied, InStart, Swapping
      <4> QED BY <3>1, <4>3, <1>g DEF Good
    <3> QED BY <3>1, <3>2, <3>3
  <2> QED BY <2>1, <2>2
<1>2. ASSUME NEW c \in Callers, Disconnect(c) PROVE Good(d)'
  <2>1. op'[d].pc = op[d].pc /\ op'[d].kind = op[d].kind /\ op'[d].next = op[d].next
    BY <1>0, <1>2 DEF Disconnect, OpType
  <2> QED BY <1>2, <2>1, <1>g DEF Disconnect, Good, Emptied, InStart, Swapping
<1>3. ASSUME NEW c \in Callers, NEW k \in Kinds, Request(c, k) PROVE Good(d)'
  <2>1. CASE c = d
    <3>1. op'[d].pc = "begin"
      BY <1>0, <1>3, <2>1 DEF Request, IdleOp
    <3> QED BY <3>1 DEF Good, Emptied, InStart, Swapping, UnlockedPcs
  <2>2. CASE c # d
    BY <1>0, <1>3, <2>2, <1>g, GoodFramed DEF Request
  <2> QED BY <2>1, <2>2
<1>4. CASE Shutdown \/ MainStep
  <2>1. op'[d] = op[d] /\ running' \in {running, None} /\ (lock' = lock \/ lock = Main)
    BY <1>0, <1>4 DEF Shutdown, MainStep, Stopped, StopStep, Take, Kill, RemoveTasks, Return, Goto
  <2> QED BY <1>0, <2>1, <1>g, GoodFramed
<1>5. CASE \/ \E p \in Procs : Fail(p) \/ RegisterSchedule(p) \/ WatchStep(p)
           \/ BeatSnapshot \/ BeatStep \/ UNCHANGED vars
  <2>1. op' = op /\ running' \in {running, None} /\ lock' = lock
    BY <1>5 DEF Fail, RegisterSchedule, WatchStep, WatchExit, WatchMark, WatchUntask,
       BeatSnapshot, BeatStep, BeatPing, BeatDrop, BeatKill, BeatUntask, vars
  <2> QED BY <2>1, <1>g, GoodFramed
<1> QED BY <1>1, <1>2, <1>3, <1>4, <1>5 DEF Next

LEMMA InitLocks == Init => LockInv
BY DEF Init, IdleOp, Threads, LockInv, HoldersHold, KindsKept, EmptiedStaysEmpty, Emptied,
   InStart, Swapping, UnlockedPcs, LockedKinds

(* Launches of one plugin exclude one another and the directory swap of an *)
(* update, and none finds a registered process, in every environment.      *)
THEOREM LaunchesExclude == Spec => []LaunchUncontended
<1>1. Init => Types /\ LockInv BY InitTypes, InitLocks
<1>2. Types /\ LockInv /\ [Next]_vars => (Types /\ LockInv)'
  BY StepKeepsTypes, StepKeepsLockInv
<1>3. LockInv => LaunchUncontended
  <2> SUFFICES ASSUME LockInv, NEW c \in Callers, InStart(c), NEW d \in Callers \ {c}
               PROVE  running = None /\ ~InStart(d) /\ ~Swapping(d)
    BY DEF LaunchUncontended, LockInv, EmptiedStaysEmpty, Emptied
  <2>1. Good(c) /\ Good(d) BY LockInvIsGood
  <2>2. op[c].kind \in LockedKinds /\ op[c].pc \notin {"idle", "begin"} /\ Emptied(c)
    BY <2>1 DEF Good, InStart, Emptied, UnlockedPcs
  <2>3. ~Emptied(d) BY <2>1, <2>2, HolderIsAlone
  <2> QED BY <2>1, <2>2, <2>3 DEF Good, Emptied
<1> QED BY <1>1, <1>2, <1>3, PTL DEF Spec

---------------------------------------------------------------------------
(* No live process is ever lost.  This needs monitors no slower than the   *)
(* next launch and Install and Uninstall apart from the other requests,    *)
(* which is what the "slow" and "unlocked" faults take away.               *)

InHandshake(c) == op[c].pc \in {"init", "register", "recheck", "ok"}

(* Install and Uninstall are on their own.                                 *)
ExclusiveAlone == \A c, d \in Callers :
    op[c].kind \in Exclusive /\ op[c].pc # "idle" /\ op[d].pc # "idle" => c = d

(* Stop works through once, and nothing registers after its snapshot.      *)
StopOrder == /\ ~stopCh => op[Main].pc = "idle"
             /\ stopCh /\ op[Main].pc # "take" => running = None

(* A monitor that would clear the running entry finds its own process there. *)
PollsRegistered == \A p \in Procs : watch[p] = "poll" => running \in {None, p}
BeatsRegistered == beat.pc \in {"ping", "drop"} => running \in {None, beat.rp}

(* Until Stop, no monitor is about during a handshake, so the entry a      *)
(* launch made is there when it looks again.                               *)
HandshakeAlone == \A c \in Callers : InHandshake(c) /\ ~stopCh =>
    beat.pc = "idle" /\ \A p \in Procs : watch[p] # "poll"
HandshakeHeld == \A c \in Callers :
    /\ InHandshake(c) => op[c].rp \in Procs
    /\ op[c].pc \in {"recheck", "ok"} =>
         running \in {None, op[c].rp} /\ (~stopCh => running = op[c].rp)

TrackInv == /\ LiveIsTracked /\ ExclusiveAlone /\ StopOrder /\ PollsRegistered
            /\ BeatsRegistered /\ HandshakeAlone /\ HandshakeHeld

LEMMA InitTracks == Init => TrackInv
<1> SUFFICES ASSUME Init PROVE TrackInv OBVIOUS
<1>1. PICK ok \in BOOLEAN : Started(1, ok) BY DEF Init
<1>2. \A c \in Threads : op[c].pc = "idle" BY DEF Init, IdleOp
<1>3. beat.pc = "idle" /\ stopCh = FALSE BY DEF Init, IdleBeat
<1>4. \A p \in Procs : (proc[p] # "dead" => running = p) /\ (watch[p] = "poll" => running = p)
  BY <1>1 DEF Started
<1> QED
  BY <1>2, <1>3, <1>4 DEF Threads, TrackInv, LiveIsTracked, ExclusiveAlone, StopOrder, PollsRegistered,
     BeatsRegistered, HandshakeAlone, HandshakeHeld, InHandshake

(* A step of one request that has no process in its hands, before or after.*)
HandPcs == {"init", "register", "recheck", "ok", "kill"}
Empty(c) ==
    /\ \A d \in Threads \ {c} : op'[d] = op[d]
    /\ op[c].pc \notin HandPcs \cup {"idle"} /\ op'[c].pc \notin HandPcs
    /\ op'[c].pc = "idle" \/ op'[c].kind = op[c].kind
    /\ running' = running /\ proc' = proc /\ stopCh' = stopCh /\ watch' = watch /\ beat' = beat

LEMMA GotoEmpty ==
  ASSUME Types, NEW c \in Threads, NEW pc, Goto(c, pc), 
         op[c].pc \notin HandPcs \cup {"idle"}, pc \notin HandPcs,
         running' = running, proc' = proc, stopCh' = stopCh, watch' = watch, beat' = beat
  PROVE  Empty(c)
BY DEF Empty, Goto, Types, RequestType, OpType

LEMMA ReturnEmpty ==
  ASSUME Types, NEW c \in Threads, Return(c), op[c].pc \notin HandPcs \cup {"idle"},
         running' = running, proc' = proc, stopCh' = stopCh, watch' = watch, beat' = beat
  PROVE  Empty(c)
<1>1. IdleOp.pc = "idle" BY DEF IdleOp
<1>2. op'[c] = IdleOp /\ \A d \in Threads \ {c} : op'[d] = op[d] BY DEF Return, Types, RequestType
<1> QED BY <1>1, <1>2 DEF Empty, HandPcs

(* The steps of a request that launch, stop or register a process.         *)
ProcessStep(c) ==
    \/ Launch(c) \/ InitOK(c) \/ InitFails(c) \/ Register(c) \/ RegisterStopped(c)
    \/ RecheckKeeps(c) \/ RecheckDrops(c) \/ StartOK(c) \/ Take(c) \/ Kill(c)

LEMMA OtherStepsAreEmpty ==
  ASSUME Types, NEW c \in Callers, RequestStep(c), ~ProcessStep(c)
  PROVE  Empty(c)
<1>0. op \in [Threads -> OpType] /\ c \in Threads BY DEF Types, RequestType, Threads
<1> USE DEF HandPcs, row
<1>1. CASE LaunchFails(c) \/ Dropped(c)
  BY <1>0, <1>1, GotoEmpty DEF LaunchFails, Dropped
<1>2. CASE Paged(c) \/ Rollback(c) \/ EnableReturns(c) \/ Disabled(c) \/ Forget(c) \/ Install(c)
           \/ UpdateRefused(c) \/ RestartNothing(c)
  BY <1>0, <1>2, ReturnEmpty DEF Paged, Rollback, EnableReturns, Disabled, Forget, Install,
     UpdateRefused, RestartNothing
<1>3. CASE Probe(c)
  <2>1. CASE Return(c) BY <1>0, <1>3, <2>1, ReturnEmpty DEF Probe
  <2>2. CASE ~Return(c)
    <3>1. op'[c].pc = "paged" /\ op'[c].kind = op[c].kind BY <1>0, <1>3, <2>2 DEF Probe, OpType
    <3>2. \A d \in Threads \ {c} : op'[d] = op[d] BY <1>0, <1>3, <2>2 DEF Probe
    <3>3. op[c].pc = "probe" /\ UNCHANGED <<running, proc, stopCh, watch, beat>> BY <1>3 DEF Probe
    <3> QED BY <3>1, <3>2, <3>3 DEF Empty
  <2> QED BY <2>1, <2>2
<1>4. CASE RemoveTasks(c)
  <2>1. op[c].next \in {"idle", "dropped", "disabled", "fetch", "uninstalled", "stopped"}
    BY <1>0 DEF OpType
  <2> QED BY <1>0, <1>4, <2>1, GotoEmpty DEF RemoveTasks
<1>5. CASE BeginUpdate(c)
  <2>1. op[c].pc = "begin" /\ UNCHANGED <<running, proc, stopCh, watch, beat>> BY <1>5 DEF BeginUpdate
  <2>2. op'[c].pc \in {"take", "refuse"} /\ op'[c].kind = op[c].kind BY <1>0, <1>5 DEF BeginUpdate, OpType
  <2>3. \A d \in Threads \ {c} : op'[d] = op[d] BY <1>0, <1>5 DEF BeginUpdate
  <2> QED BY <2>1, <2>2, <2>3 DEF Empty
<1>6. CASE Restart(c)
  <2>1. op[c].pc \in {"restart", "ensure"} /\ UNCHANGED <<running, proc, stopCh, watch, beat>> BY <1>6 DEF Restart
  <2>2. op'[c].pc \in {"launch", "rollback"} /\ op'[c].kind = op[c].kind BY <1>0, <1>6 DEF Restart, OpType
  <2>3. \A d \in Threads \ {c} : op'[d] = op[d] BY <1>0, <1>6 DEF Restart
  <2> QED BY <2>1, <2>2, <2>3 DEF Empty
<1>7. CASE Fetch(c) \/ FetchFails(c) \/ SwapOut(c) \/ SwapFails(c) \/ SwapIn(c) \/ SwapInFails(c)
  BY <1>0, <1>7, GotoEmpty DEF Fetch, FetchFails, SwapOut, SwapFails, SwapIn, SwapInFails
<1>8. CASE BeginSetEnabled(c) \/ EnableStarts(c) \/ BeginUninstall(c) \/ Uninstalled(c)
  BY <1>0, <1>8, GotoEmpty DEF BeginSetEnabled, EnableStarts, BeginUninstall, Uninstalled
<1>9. CASE BeginInstall(c)
  BY <1>0, <1>9, GotoEmpty, ReturnEmpty DEF BeginInstall
<1> QED BY <1>1, <1>2, <1>3, <1>4, <1>5, <1>6, <1>7, <1>8, <1>9
        DEF RequestStep, StartStep, StopStep, UpdateStep, ProcessStep

LEMMA EmptyKeepsTrack ==
  ASSUME Types, TrackInv, NEW c \in Callers, Empty(c)
  PROVE  TrackInv'
<1> USE CallersAssumption DEF Threads, Empty, TrackInv, HandPcs
<1>1. LiveIsTracked' BY DEF LiveIsTracked, Doomed
<1>2. ExclusiveAlone' BY DEF ExclusiveAlone
<1>3. StopOrder' BY DEF StopOrder
<1>4. PollsRegistered' /\ BeatsRegistered' BY DEF PollsRegistered, BeatsRegistered
<1>5. HandshakeAlone' /\ HandshakeHeld' BY DEF HandshakeAlone, HandshakeHeld, InHandshake
<1> QED BY <1>1, <1>2, <1>3, <1>4, <1>5

---------------------------------------------------------------------------
(* One request at a time launches, registers, takes or kills.              *)
Engaged(c) == op[c].pc \notin {"idle", "begin", "uninstalled", "forget", "install", "stopped"}

LEMMA EngagedAlone ==
  ASSUME LockInv, ExclusiveAlone, NEW c \in Callers, NEW d \in Callers, Engaged(c), Engaged(d)
  PROVE  c = d
<1>1. Good(c) /\ Good(d) BY LockInvIsGood
<1>2. /\ op[c].kind \in LockedKinds \/ op[c].kind = "uninstall"
      /\ op[d].kind \in LockedKinds \/ op[d].kind = "uninstall"
  BY <1>1 DEF Good, Engaged, UnlockedPcs, LockedKinds
<1> QED BY <1>1, <1>2 DEF Good, Engaged, ExclusiveAlone, Exclusive

(* What a step of request c that handles a process may assume of the       *)
(* others: they stay as they are and hold no process.                      *)
Apart(c) ==
    /\ \A d \in Threads \ {c} : op'[d] = op[d]
    /\ \A d \in Callers \ {c} : op[d].pc \notin HandPcs
    /\ op[c].pc # "idle" /\ op'[c].kind = op[c].kind

LEMMA ProcessStepsApart ==
  ASSUME Types, LockInv, ExclusiveAlone, NEW c \in Callers, ProcessStep(c)
  PROVE  Apart(c)
<1>0. op \in [Threads -> OpType] /\ c \in Threads BY DEF Types, RequestType, Threads
<1>1. /\ Engaged(c) 
      /\ \A d \in Threads \ {c} : op'[d] = op[d]
      /\ op'[c].kind = op[c].kind
  <2>1. CASE Launch(c) BY <1>0, <2>1 DEF Launch, Engaged, OpType
  <2>2. CASE InitOK(c) \/ Register(c) \/ RecheckKeeps(c) \/ Kill(c)
    BY <1>0, <2>2 DEF InitOK, Register, RecheckKeeps, Kill, Goto, Engaged, OpType
  <2>3. CASE InitFails(c) \/ RegisterStopped(c) \/ StartOK(c)
    BY <1>0, <2>3, ZenonT(40) DEF InitFails, RegisterStopped, StartOK, Engaged, OpType
  <2>4. CASE RecheckDrops(c) BY <1>0, <2>4 DEF RecheckDrops, Engaged, OpType
  <2>5. CASE Take(c) BY <1>0, <2>5 DEF Take, Engaged, OpType
  <2> QED BY <2>1, <2>2, <2>3, <2>4, <2>5 DEF ProcessStep
<1>2. \A d \in Callers \ {c} : op[d].pc \notin HandPcs
  BY <1>1, EngagedAlone DEF Engaged, HandPcs
<1> QED BY <1>1, <1>2 DEF Apart, Engaged

(* What is said of every request follows from what is said of the one that *)
(* moved.                                                                  *)
LEMMA ApartKeepsExclusive ==
  ASSUME ExclusiveAlone, NEW c \in Callers, Apart(c)
  PROVE  ExclusiveAlone'
BY DEF ExclusiveAlone, Apart, Threads

LEMMA ApartKeepsHandshakes ==
  ASSUME NEW c \in Callers, Apart(c),
         InHandshake(c)' => op'[c].rp \in Procs,
         InHandshake(c)' /\ ~stopCh' => beat'.pc = "idle" /\ \A p \in Procs : watch'[p] # "poll",
         op'[c].pc \in {"recheck", "ok"} =>
            running' \in {None, op'[c].rp} /\ (~stopCh' => running' = op'[c].rp)
  PROVE  HandshakeAlone' /\ HandshakeHeld'
BY DEF HandshakeAlone, HandshakeHeld, InHandshake, HandPcs, Apart, Threads

LEMMA ApartKeepsStopOrder ==
  ASSUME StopOrder, NEW c \in Callers, Apart(c), stopCh' = stopCh,
         running' = None \/ running' = running \/ ~stopCh
  PROVE  StopOrder'
BY CallersAssumption DEF StopOrder, Apart, Threads

(* Who may have a live process in hand while request c handles one.        *)
TrackedBy(c, p) ==
    \/ running = p
    \/ op[c].pc \in {"kill", "init", "register"} /\ op[c].rp = p
    \/ op[Main].pc = "kill" /\ op[Main].rp = p
    \/ beat.pc = "kill" /\ beat.rp = p

LEMMA ApartTracked ==
  ASSUME LiveIsTracked, NEW c \in Callers, Apart(c), NEW p \in Procs, proc[p] # "dead"
  PROVE  TrackedBy(c, p)
BY DEF LiveIsTracked, Doomed, TrackedBy, Apart, HandPcs, Threads

LEMMA TrackedIsLive ==
  ASSUME NEW c \in Callers, \A p \in Procs : proc'[p] # "dead" => TrackedBy(c, p)'
  PROVE  LiveIsTracked'
BY DEF LiveIsTracked, Doomed, TrackedBy, Threads

LEMMA LaunchKeepsTrack ==
  ASSUME Types, LockInv, TrackInv, "slow" \notin Faults, NEW c \in Callers, Launch(c)
  PROVE  TrackInv'
<1> USE DEF TrackInv
<1>0. Apart(c) BY ProcessStepsApart DEF ProcessStep
<1>1. PICK q \in Procs : /\ proc' = [proc EXCEPT ![q] = "up"]
                         /\ op' = [op EXCEPT ![c] = [@ EXCEPT !.pc = "init", !.rp = q]]
  BY DEF Launch
<1>2. op'[c].pc = "init" /\ op'[c].rp = q BY <1>1 DEF Types, RequestType, OpType, Threads
<1>3. op[c].pc = "launch" /\ MonitorsDone
      /\ UNCHANGED <<running, stopCh, watch, beat>> BY DEF Launch
<1>4. running = None BY <1>3, LockInvIsGood DEF Good, Emptied, InStart
<1>5. \A p \in Procs : proc[p] # "dead" => op[Main].pc = "kill" /\ op[Main].rp = p
  BY <1>0, <1>3, <1>4, ApartTracked, BoundAssumption DEF TrackedBy, MonitorsDone, Procs
<1>6. \A p \in Procs : proc'[p] # "dead" => p = q \/ proc[p] # "dead" BY <1>1 DEF Types, ProcType
<1>7. op'[Main] = op[Main] BY <1>0, CallersAssumption DEF Apart, Threads
<1>8. LiveIsTracked' BY <1>2, <1>5, <1>6, <1>7, TrackedIsLive DEF TrackedBy
<1>9. StopOrder' BY <1>0, <1>3, ApartKeepsStopOrder
<1>10. PollsRegistered' /\ BeatsRegistered' BY <1>3 DEF PollsRegistered, BeatsRegistered
<1>11. ~stopCh => \A p \in Procs : watch[p] # "poll"
  BY <1>3, <1>5 DEF StopOrder, MonitorsDone
<1>12. HandshakeAlone' /\ HandshakeHeld'
  BY <1>0, <1>2, <1>3, <1>11, ApartKeepsHandshakes DEF MonitorsDone
<1> QED BY <1>0, <1>8, <1>9, <1>10, <1>12, ApartKeepsExclusive

(* Init answers: the process stays in hand, or is killed.                  *)
LEMMA InitKeepsTrack ==
  ASSUME Types, LockInv, TrackInv, NEW c \in Callers, InitOK(c)
  PROVE  TrackInv'
<1> USE DEF TrackInv
<1>0. Apart(c) BY ProcessStepsApart DEF ProcessStep
<1>1. op[c].pc = "init" /\ UNCHANGED <<running, proc, stopCh, watch, beat>> BY DEF InitOK
<1>2. op'[c].pc = "register" /\ op'[c].rp = op[c].rp
  BY DEF InitOK, Goto, Types, RequestType, OpType, Threads
<1>3. op'[Main] = op[Main] BY <1>0, CallersAssumption DEF Apart, Threads
<1>4. LiveIsTracked'
  <2>1. \A p \in Procs : proc'[p] # "dead" => TrackedBy(c, p)'
    BY <1>0, <1>1, <1>2, <1>3, ApartTracked DEF TrackedBy
  <2> QED BY <2>1, TrackedIsLive
<1>5. StopOrder' BY <1>0, <1>1, ApartKeepsStopOrder
<1>6. PollsRegistered' /\ BeatsRegistered' BY <1>1 DEF PollsRegistered, BeatsRegistered
<1>7. HandshakeAlone' /\ HandshakeHeld'
  <2>1. InHandshake(c) BY <1>1 DEF InHandshake
  <2>2. op[c].rp \in Procs /\ (~stopCh => beat.pc = "idle" /\ \A p \in Procs : watch[p] # "poll")
    BY <2>1 DEF HandshakeAlone, HandshakeHeld
  <2> QED BY <1>0, <1>1, <1>2, <2>2, ApartKeepsHandshakes
<1> QED BY <1>0, <1>4, <1>5, <1>6, <1>7, ApartKeepsExclusive

(* A launch that fails after the handshake kills what it launched.         *)
LEMMA FailedStartKeepsTrack ==
  ASSUME Types, LockInv, TrackInv, NEW c \in Callers, InitFails(c) \/ RegisterStopped(c)
  PROVE  TrackInv'
<1> USE DEF TrackInv
<1>0. Apart(c) BY ProcessStepsApart DEF ProcessStep
<1>1. /\ op[c].pc \in {"init", "register"} /\ UNCHANGED <<running, stopCh, watch, beat>>
      /\ proc' = [proc EXCEPT ![op[c].rp] = "dead"]
  BY DEF InitFails, RegisterStopped
<1>2. op'[c].pc = "rollback" /\ op'[c].rp = None
  <2>1. op' = [op EXCEPT ![c] = [@ EXCEPT !.pc = "rollback", !.rp = None]]
    BY DEF InitFails, RegisterStopped
  <2> QED BY <2>1 DEF Types, RequestType, OpType, Threads
<1>3. op'[Main] = op[Main] BY <1>0, CallersAssumption DEF Apart, Threads
<1>4. LiveIsTracked'
  <2>1. ASSUME NEW p \in Procs, proc'[p] # "dead" PROVE proc[p] # "dead" /\ p # op[c].rp
    BY <1>1, <2>1 DEF Types, ProcType
  <2>2. \A p \in Procs : proc'[p] # "dead" => TrackedBy(c, p)'
    BY <1>0, <1>1, <1>3, <2>1, ApartTracked DEF TrackedBy
  <2> QED BY <2>2, TrackedIsLive
<1>5. StopOrder' BY <1>0, <1>1, ApartKeepsStopOrder
<1>6. PollsRegistered' /\ BeatsRegistered' BY <1>1 DEF PollsRegistered, BeatsRegistered
<1>7. HandshakeAlone' /\ HandshakeHeld'
  BY <1>0, <1>2, ApartKeepsHandshakes DEF InHandshake
<1> QED BY <1>0, <1>4, <1>5, <1>6, <1>7, ApartKeepsExclusive

(* Registering: nobody else could have put a process there meanwhile.      *)
LEMMA RegisterKeepsTrack ==
  ASSUME Types, LockInv, TrackInv, NEW c \in Callers, Register(c)
  PROVE  TrackInv'
<1> USE DEF TrackInv
<1>0. Apart(c) BY ProcessStepsApart DEF ProcessStep
<1>1. /\ op[c].pc = "register" /\ ~stopCh /\ running' = op[c].rp
      /\ UNCHANGED <<proc, stopCh, watch, beat>> BY DEF Register
<1>2. op'[c].pc = "recheck" /\ op'[c].rp = op[c].rp
  BY DEF Register, Goto, Types, RequestType, OpType, Threads
<1>3. op'[Main] = op[Main] BY <1>0, CallersAssumption DEF Apart, Threads
<1>4. running = None BY <1>1, LockInvIsGood DEF Good, Emptied, InStart
<1>5. op[c].rp \in Procs /\ beat.pc = "idle" /\ \A p \in Procs : watch[p] # "poll"
  BY <1>1 DEF HandshakeAlone, HandshakeHeld, InHandshake
<1>6. LiveIsTracked'
  <2>1. \A p \in Procs : proc'[p] # "dead" => TrackedBy(c, p)'
    BY <1>0, <1>1, <1>3, <1>4, ApartTracked, BoundAssumption DEF TrackedBy, Procs
  <2> QED BY <2>1, TrackedIsLive
<1>7. StopOrder' BY <1>0, <1>1, ApartKeepsStopOrder
<1>8. PollsRegistered' /\ BeatsRegistered' BY <1>1, <1>5 DEF PollsRegistered, BeatsRegistered
<1>9. HandshakeAlone' /\ HandshakeHeld' BY <1>0, <1>1, <1>2, <1>5, ApartKeepsHandshakes
<1> QED BY <1>0, <1>6, <1>7, <1>8, <1>9, ApartKeepsExclusive

(* The re-check keeps the process, or takes it out again to kill it.       *)
LEMMA RecheckKeepsTrack ==
  ASSUME Types, LockInv, TrackInv, NEW c \in Callers, RecheckKeeps(c) \/ RecheckDrops(c)
  PROVE  TrackInv'
<1> USE DEF TrackInv
<1>0. Apart(c) BY ProcessStepsApart DEF ProcessStep
<1>1. op[c].pc = "recheck" /\ UNCHANGED <<proc, stopCh, watch, beat>>
  BY DEF RecheckKeeps, RecheckDrops
<1>2. \/ op'[c].pc = "ok" /\ op'[c].rp = op[c].rp /\ running' = running
      \/ op'[c].pc = "kill" /\ op'[c].rp = op[c].rp /\ running' = None
  <2>1. CASE RecheckKeeps(c) BY <2>1 DEF RecheckKeeps, Goto, Types, RequestType, OpType, Threads
  <2>2. CASE RecheckDrops(c) BY <2>2 DEF RecheckDrops, Types, RequestType, OpType, Threads
  <2> QED BY <2>1, <2>2
<1>3. op'[Main] = op[Main] BY <1>0, CallersAssumption DEF Apart, Threads
<1>4. /\ op[c].rp \in Procs /\ running \in {None, op[c].rp} /\ (~stopCh => running = op[c].rp)
      /\ ~stopCh => beat.pc = "idle" /\ \A p \in Procs : watch[p] # "poll"
  BY <1>1 DEF HandshakeAlone, HandshakeHeld, InHandshake
<1>5. LiveIsTracked'
  <2>1. \A p \in Procs : proc'[p] # "dead" => TrackedBy(c, p)'
    BY <1>0, <1>1, <1>2, <1>3, <1>4, ApartTracked, BoundAssumption DEF TrackedBy, Procs
  <2> QED BY <2>1, TrackedIsLive
<1>6. StopOrder' BY <1>0, <1>1, <1>2, ApartKeepsStopOrder
<1>7. PollsRegistered' /\ BeatsRegistered' BY <1>1, <1>2 DEF PollsRegistered, BeatsRegistered
<1>8. HandshakeAlone' /\ HandshakeHeld'
  BY <1>0, <1>1, <1>2, <1>4, ApartKeepsHandshakes DEF InHandshake
<1> QED BY <1>0, <1>5, <1>6, <1>7, <1>8, ApartKeepsExclusive

(* The launch is over: its monitor watches the process it registered.      *)
LEMMA StartedKeepsTrack ==
  ASSUME Types, LockInv, TrackInv, NEW c \in Callers, StartOK(c)
  PROVE  TrackInv'
<1> USE DEF TrackInv
<1>0. Apart(c) BY ProcessStepsApart DEF ProcessStep
<1>1. /\ op[c].pc = "ok" /\ UNCHANGED <<running, proc, stopCh, beat>>
      /\ watch' = [watch EXCEPT ![op[c].rp] = "poll"]
  BY DEF StartOK
<1>2. op'[c].pc = "probe"
  BY DEF StartOK, Types, RequestType, OpType, Threads
<1>3. op'[Main] = op[Main] BY <1>0, CallersAssumption DEF Apart, Threads
<1>4. op[c].rp \in Procs /\ running \in {None, op[c].rp}
  BY <1>1 DEF HandshakeHeld, InHandshake
<1>5. LiveIsTracked'
  <2>1. \A p \in Procs : proc'[p] # "dead" => TrackedBy(c, p)'
    BY <1>0, <1>1, <1>3, ApartTracked DEF TrackedBy
  <2> QED BY <2>1, TrackedIsLive
<1>6. StopOrder' BY <1>0, <1>1, ApartKeepsStopOrder
<1>7. PollsRegistered'
  <2>1. \A p \in Procs : watch'[p] = "poll" => watch[p] = "poll" \/ p = op[c].rp
    BY <1>1 DEF Types, ProcType
  <2> QED BY <1>1, <1>4, <2>1 DEF PollsRegistered
<1>8. BeatsRegistered' BY <1>1 DEF BeatsRegistered
<1>9. HandshakeAlone' /\ HandshakeHeld'
  BY <1>0, <1>2, ApartKeepsHandshakes DEF InHandshake
<1> QED BY <1>0, <1>5, <1>6, <1>7, <1>8, <1>9, ApartKeepsExclusive

(* What a request or Stop takes out of the map is in its hands until dead. *)
LEMMA TakeKeepsTrack ==
  ASSUME Types, LockInv, TrackInv, NEW c \in Callers, Take(c)
  PROVE  TrackInv'
<1> USE DEF TrackInv
<1>0. Apart(c) BY ProcessStepsApart DEF ProcessStep
<1>1. op[c].pc = "take" /\ running' = None /\ UNCHANGED <<proc, stopCh, watch, beat>>
  BY DEF Take
<1>2. /\ op'[c].pc \in {"disabled", "fetch", "uninstalled", "stopped", "kill"}
      /\ running # None => op'[c].pc = "kill" /\ op'[c].rp = running
  BY DEF Take, Types, RequestType, OpType, Threads
<1>3. op'[Main] = op[Main] BY <1>0, CallersAssumption DEF Apart, Threads
<1>4. LiveIsTracked'
  <2>1. \A p \in Procs : proc'[p] # "dead" => TrackedBy(c, p)'
    BY <1>0, <1>1, <1>2, <1>3, ApartTracked, BoundAssumption DEF TrackedBy, Procs
  <2> QED BY <2>1, TrackedIsLive
<1>5. StopOrder' BY <1>0, <1>1, ApartKeepsStopOrder
<1>6. PollsRegistered' /\ BeatsRegistered' BY <1>1 DEF PollsRegistered, BeatsRegistered
<1>7. HandshakeAlone' /\ HandshakeHeld'
  BY <1>0, <1>2, ApartKeepsHandshakes DEF InHandshake
<1> QED BY <1>0, <1>4, <1>5, <1>6, <1>7, ApartKeepsExclusive

LEMMA KillKeepsTrack ==
  ASSUME Types, LockInv, TrackInv, NEW c \in Callers, Kill(c)
  PROVE  TrackInv'
<1> USE DEF TrackInv
<1>0. Apart(c) BY ProcessStepsApart DEF ProcessStep
<1>1. /\ op[c].pc = "kill" /\ UNCHANGED <<running, stopCh, watch, beat>>
      /\ proc' = [proc EXCEPT ![op[c].rp] = "dead"]
  BY DEF Kill
<1>2. op'[c].pc = "untask"
  BY DEF Kill, Goto, Types, RequestType, OpType, Threads
<1>3. op'[Main] = op[Main] BY <1>0, CallersAssumption DEF Apart, Threads
<1>4. LiveIsTracked'
  <2>1. ASSUME NEW p \in Procs, proc'[p] # "dead" PROVE proc[p] # "dead" /\ p # op[c].rp
    BY <1>1, <2>1 DEF Types, ProcType
  <2>2. \A p \in Procs : proc'[p] # "dead" => TrackedBy(c, p)'
    BY <1>0, <1>1, <1>3, <2>1, ApartTracked DEF TrackedBy
  <2> QED BY <2>2, TrackedIsLive
<1>5. StopOrder' BY <1>0, <1>1, ApartKeepsStopOrder
<1>6. PollsRegistered' /\ BeatsRegistered' BY <1>1 DEF PollsRegistered, BeatsRegistered
<1>7. HandshakeAlone' /\ HandshakeHeld'
  BY <1>0, <1>2, ApartKeepsHandshakes DEF InHandshake
<1> QED BY <1>0, <1>4, <1>5, <1>6, <1>7, ApartKeepsExclusive

---------------------------------------------------------------------------
(* Arrivals, Stop, and what happens around the requests.                   *)

LEMMA ArrivalKeepsTrack ==
  ASSUME Types, TrackInv, "unlocked" \notin Faults, NEW c \in Callers,
         Disconnect(c) \/ \E k \in Kinds : Request(c, k)
  PROVE  TrackInv'
<1> USE DEF TrackInv
<1>0. UNCHANGED <<running, proc, stopCh, watch, beat>> /\ \A d \in Threads \ {c} : op'[d] = op[d]
  BY DEF Disconnect, Request, Types, RequestType
<1>c. c \in Threads /\ Callers \subseteq Threads /\ Main \in Threads /\ Main # c
  BY CallersAssumption DEF Threads
<1>1. /\ op[c].pc \notin HandPcs => op'[c].pc \notin HandPcs
      /\ op[c].pc \in HandPcs => op'[c].pc = op[c].pc /\ op'[c].rp = op[c].rp
  <2>1. CASE Disconnect(c) BY <2>1, <1>c DEF Disconnect, Types, RequestType, OpType
  <2>2. ASSUME NEW k \in Kinds, Request(c, k) PROVE op[c].pc = "idle" /\ op'[c].pc = "begin"
    BY <2>2, <1>c DEF Request, Types, RequestType, IdleOp
  <2> QED BY <2>1, <2>2 DEF HandPcs
<1>2. LiveIsTracked' BY <1>0, <1>1, <1>c DEF LiveIsTracked, Doomed, HandPcs
<1>3. ExclusiveAlone'
  <2>1. CASE Disconnect(c)
    <3>1. op'[c].pc = op[c].pc /\ op'[c].kind = op[c].kind
      BY <2>1, <1>c DEF Disconnect, Types, RequestType, OpType
    <3> QED BY <3>1, <1>0, <1>c DEF ExclusiveAlone
  <2>2. ASSUME NEW k \in Kinds, Request(c, k) PROVE ExclusiveAlone'
    <3>1. op'[c].kind = k BY <2>2, <1>c DEF Request, Types, RequestType, IdleOp
    <3>2. \A d \in Callers \ {c} : op[d].pc = "idle" \/ {k, op[d].kind} \cap Exclusive = {}
      BY <2>2 DEF Request
    <3>3. \A d \in Callers \ {c} : op'[d].pc # "idle" => k \notin Exclusive /\ op'[d].kind \notin Exclusive
      BY <3>2, <1>0, <1>c
    <3> QED BY <3>1, <3>3, <1>0, <1>c DEF ExclusiveAlone
  <2> QED BY <2>1, <2>2
<1>4. StopOrder' BY <1>0, <1>c DEF StopOrder
<1>5. PollsRegistered' /\ BeatsRegistered' BY <1>0 DEF PollsRegistered, BeatsRegistered
<1>6. HandshakeAlone' /\ HandshakeHeld'
  BY <1>0, <1>1, <1>c DEF HandshakeAlone, HandshakeHeld, InHandshake, HandPcs
<1> QED BY <1>2, <1>3, <1>4, <1>5, <1>6

(* A step of the goroutine that stops the manager.                         *)
LEMMA MainIsApart ==
  ASSUME ExclusiveAlone, \A d \in Callers : op'[d] = op[d]
  PROVE  ExclusiveAlone'
BY DEF ExclusiveAlone

LEMMA MainKeepsTrack ==
  ASSUME Types, TrackInv, Shutdown \/ MainStep
  PROVE  TrackInv'
<1> USE DEF TrackInv
<1>0. op \in [Threads -> OpType] /\ Callers \subseteq Threads /\ Main \in Threads \ Callers
  BY CallersAssumption DEF Threads, Types, RequestType
<1>1. (\A d \in Callers : op'[d] = op[d]) /\ UNCHANGED <<watch, beat>>
  BY <1>0 DEF Shutdown, MainStep, Stopped, StopStep, Take, Kill, RemoveTasks, Return, Goto
<1>2. stopCh'
  BY DEF Shutdown, MainStep, Stopped, StopStep, Take, Kill, RemoveTasks, StopOrder
<1>3. running' = None \/ (running' = running /\ (stopCh => op[Main].pc # "take") /\ (op'[Main].pc = "take" \/ stopCh))
  <2>1. CASE Shutdown BY <1>0, <2>1 DEF Shutdown
  <2>2. CASE ~Shutdown BY <1>0, <2>2 DEF MainStep, Stopped, StopStep, Take, Kill, RemoveTasks, StopOrder
  <2> QED BY <2>1, <2>2
<1>4. LiveIsTracked'
  <2> SUFFICES ASSUME NEW p \in Procs, proc'[p] # "dead"
               PROVE  running' = p \/ Doomed(p)' \/ \E c \in Callers : op[c].pc \in {"init", "register"} /\ op[c].rp = p
    BY <1>1 DEF LiveIsTracked
  <2>1. proc[p] # "dead" /\ (Kill(Main) => p # op[Main].rp)
    BY <1>0 DEF Shutdown, MainStep, Stopped, StopStep, Take, Kill, RemoveTasks, Types, ProcType
  <2>2. \/ running = p \/ (op[Main].pc = "kill" /\ op[Main].rp = p)
        \/ (\E c \in Callers : op[c].pc = "kill" /\ op[c].rp = p) \/ (beat.pc = "kill" /\ beat.rp = p)
        \/ \E c \in Callers : op[c].pc \in {"init", "register"} /\ op[c].rp = p
    BY <2>1 DEF LiveIsTracked, Doomed, Threads
  <2>3. CASE running = p
    <3>1. p # None BY BoundAssumption DEF Procs
    <3>2. CASE Take(Main)
      <4>1. op'[Main].pc = "kill" /\ op'[Main].rp = p BY <1>0, <2>3, <3>1, <3>2 DEF Take, OpType
      <4> QED BY <4>1, <1>0 DEF Doomed
    <3>3. CASE ~Take(Main)
      BY <2>3, <3>3 DEF Shutdown, MainStep, Stopped, StopStep, Kill, RemoveTasks
    <3> QED BY <3>2, <3>3
  <2>4. CASE op[Main].pc = "kill" /\ op[Main].rp = p
    BY <2>1, <2>4 DEF Shutdown, MainStep, Stopped, StopStep, Take, RemoveTasks, StopOrder
  <2> QED BY <1>1, <2>2, <2>3, <2>4 DEF Doomed, Threads
<1>5. ExclusiveAlone' BY <1>1, MainIsApart
<1>6. StopOrder' BY <1>2, <1>3 DEF StopOrder
<1>7. PollsRegistered' /\ BeatsRegistered' BY <1>1, <1>3 DEF PollsRegistered, BeatsRegistered
<1>8. HandshakeAlone' /\ HandshakeHeld'
  BY <1>1, <1>2, <1>3 DEF HandshakeAlone, HandshakeHeld, InHandshake
<1> QED BY <1>4, <1>5, <1>6, <1>7, <1>8

(* The processes and their monitors.  Nothing they do touches a request.   *)
LEMMA MonitorFrame ==
  ASSUME TrackInv, op' = op, stopCh' = stopCh, running' \in {running, None},
         \A c \in Callers : InHandshake(c) /\ ~stopCh => running' = running /\ beat'.pc = "idle",
         \A p \in Procs : watch'[p] = "poll" => watch[p] = "poll"
  PROVE  ExclusiveAlone' /\ StopOrder' /\ PollsRegistered' /\ HandshakeAlone' /\ HandshakeHeld'
BY DEF TrackInv, ExclusiveAlone, StopOrder, PollsRegistered, HandshakeAlone, HandshakeHeld, InHandshake

LEMMA ProcessKeepsTrack ==
  ASSUME Types, TrackInv, NEW p \in Procs, Fail(p) \/ RegisterSchedule(p) \/ WatchStep(p)
  PROVE  TrackInv'
<1> USE DEF TrackInv
<1>1. /\ op' = op /\ stopCh' = stopCh /\ beat' = beat
      /\ \A q \in Procs : (watch'[q] = "poll" => watch[q] = "poll") /\ (proc'[q] # "dead" => proc[q] # "dead")
  BY DEF Fail, RegisterSchedule, WatchStep, WatchExit, WatchMark, WatchUntask, Types, ProcType
<1>2. \/ running' = running
      \/ running' = None /\ running \in {None, p} /\ watch[p] = "poll" /\ proc'[p] = "dead"
  BY DEF Fail, RegisterSchedule, WatchStep, WatchExit, WatchMark, WatchUntask, PollsRegistered
<1>3. \A c \in Callers : InHandshake(c) /\ ~stopCh => running' = running /\ beat'.pc = "idle"
  BY <1>1, <1>2 DEF HandshakeAlone
<1>4. LiveIsTracked' BY <1>1, <1>2, BoundAssumption DEF LiveIsTracked, Doomed, Procs
<1>5. BeatsRegistered' BY <1>1, <1>2 DEF BeatsRegistered
<1> QED BY <1>1, <1>2, <1>3, <1>4, <1>5, MonitorFrame

LEMMA BeatKeepsTrack ==
  ASSUME Types, TrackInv, "slow" \notin Faults, BeatSnapshot \/ BeatStep
  PROVE  TrackInv'
<1> USE DEF TrackInv
<1>1. /\ op' = op /\ stopCh' = stopCh /\ watch' = watch /\ running' \in {running, None}
  BY DEF BeatSnapshot, BeatStep, BeatPing, BeatDrop, BeatKill, BeatUntask
<1>2. \A c \in Callers : InHandshake(c) /\ ~stopCh => running' = running /\ beat'.pc = "idle"
  <2>1. CASE BeatSnapshot BY <2>1 DEF BeatSnapshot, Launching, InHandshake
  <2>2. CASE BeatStep BY <2>2 DEF BeatStep, BeatPing, BeatDrop, BeatKill, BeatUntask, HandshakeAlone
  <2> QED BY <2>1, <2>2
<1>3. LiveIsTracked' /\ BeatsRegistered'
  <2>1. CASE BeatSnapshot
    BY <2>1 DEF BeatSnapshot, LiveIsTracked, Doomed, BeatsRegistered
  <2>2. CASE BeatPing
    <3>1. beat.pc = "ping" /\ UNCHANGED <<running, proc, op>> BY <2>2 DEF BeatPing
    <3>2. beat'.pc \in {"idle", "drop"} /\ (beat'.pc = "drop" => beat'.rp = beat.rp)
      BY <2>2 DEF BeatPing, IdleBeat, Types, ProcType
    <3> QED BY <3>1, <3>2 DEF LiveIsTracked, Doomed, BeatsRegistered
  <2>3. CASE BeatDrop
    <3>1. beat.pc = "drop" /\ running' = None /\ UNCHANGED <<proc, op>> BY <2>3 DEF BeatDrop
    <3>2. IF running = None THEN beat'.pc = "idle" ELSE beat'.pc = "kill" /\ beat'.rp = beat.rp
      BY <2>3 DEF BeatDrop, IdleBeat, Types, ProcType
    <3>3. running \in {None, beat.rp} BY <3>1 DEF BeatsRegistered
    <3> QED BY <3>1, <3>2, <3>3, BoundAssumption DEF LiveIsTracked, Doomed, BeatsRegistered, Procs
  <2>4. CASE BeatKill
    <3>1. beat.pc = "kill" /\ UNCHANGED <<running, op>> /\ proc' = [proc EXCEPT ![beat.rp] = "dead"]
      BY <2>4 DEF BeatKill
    <3>2. beat'.pc = "untask" BY <2>4 DEF BeatKill, Types, ProcType
    <3>3. \A q \in Procs : proc'[q] # "dead" => proc[q] # "dead" /\ q # beat.rp
      BY <3>1 DEF Types, ProcType
    <3> QED BY <3>1, <3>2, <3>3 DEF LiveIsTracked, Doomed, BeatsRegistered
  <2>5. CASE BeatUntask
    BY <2>5 DEF BeatUntask, IdleBeat, LiveIsTracked, Doomed, BeatsRegistered
  <2> QED BY <2>1, <2>2, <2>3, <2>4, <2>5 DEF BeatStep
<1> QED BY <1>1, <1>2, <1>3, MonitorFrame

LEMMA StepKeepsTrack ==
  ASSUME "slow" \notin Faults, "unlocked" \notin Faults, Types, LockInv, TrackInv, [Next]_vars
  PROVE  TrackInv'
<1>1. ASSUME NEW c \in Callers, RequestStep(c) PROVE TrackInv'
  <2>1. CASE ProcessStep(c)
    BY <2>1, LaunchKeepsTrack, InitKeepsTrack, FailedStartKeepsTrack, RegisterKeepsTrack,
       RecheckKeepsTrack, StartedKeepsTrack, TakeKeepsTrack, KillKeepsTrack DEF ProcessStep
  <2>2. CASE ~ProcessStep(c) BY <1>1, <2>2, OtherStepsAreEmpty, EmptyKeepsTrack
  <2> QED BY <2>1, <2>2
<1>2. ASSUME NEW c \in Callers, Disconnect(c) \/ \E k \in Kinds : Request(c, k) PROVE TrackInv'
  BY <1>2, ArrivalKeepsTrack
<1>3. CASE Shutdown \/ MainStep BY <1>3, MainKeepsTrack
<1>4. ASSUME NEW p \in Procs, Fail(p) \/ RegisterSchedule(p) \/ WatchStep(p) PROVE TrackInv'
  BY <1>4, ProcessKeepsTrack
<1>5. CASE BeatSnapshot \/ BeatStep BY <1>5, BeatKeepsTrack
<1>6. CASE UNCHANGED vars
  BY <1>6 DEF vars, TrackInv, LiveIsTracked, Doomed, ExclusiveAlone, StopOrder, PollsRegistered,
     BeatsRegistered, HandshakeAlone, HandshakeHeld, InHandshake
<1> QED BY <1>1, <1>2, <1>3, <1>4, <1>5, <1>6 DEF Next

LEMMA TrackInductive ==
  ASSUME "slow" \notin Faults, "unlocked" \notin Faults
  PROVE  Spec => [](Types /\ LockInv /\ TrackInv)
<1>1. Init => Types /\ LockInv /\ TrackInv BY InitTypes, InitLocks, InitTracks
<1>2. Types /\ LockInv /\ TrackInv /\ [Next]_vars => (Types /\ LockInv /\ TrackInv)'
  BY StepKeepsTypes, StepKeepsLockInv, StepKeepsTrack
<1> QED BY <1>1, <1>2, PTL DEF Spec

(* No process of the plugin is ever lost track of (start, watchExit,       *)
(* heartbeat, stopPlugin): a live one is registered, or in the hands of    *)
(* who launches or kills it.  Requests and processes may be any number,    *)
(* clients may leave, processes crash and hang, Stop come at any time.     *)
THEOREM NoProcessIsLost ==
  ASSUME "slow" \notin Faults, "unlocked" \notin Faults
  PROVE  Spec => []LiveIsTracked
<1>1. TrackInv => LiveIsTracked BY DEF TrackInv
<1> QED BY <1>1, TrackInductive, PTL

(* While an update has the plugin directory out of its place, whatever     *)
(* still runs of the plugin is about to be killed (UpdatePlugin against    *)
(* the restarts of SetEnabled and of other updates).                       *)
THEOREM SwapsAreExclusive ==
  ASSUME "slow" \notin Faults, "unlocked" \notin Faults
  PROVE  Spec => []SwapExclusive
<1>1. LockInv /\ TrackInv => SwapExclusive
  <2> SUFFICES ASSUME LockInv, TrackInv, NEW c \in Callers, op[c].pc = "swapped",
                      NEW p \in Procs, proc[p] # "dead"
               PROVE  Doomed(p)
    BY DEF SwapExclusive
  <2>1. running = None BY DEF LockInv, EmptiedStaysEmpty, Emptied, Swapping
  <2>2. \A d \in Callers : op[d].pc \notin {"init", "register"}
    <3>1. Engaged(c) BY DEF Engaged
    <3> QED BY <3>1, EngagedAlone DEF Engaged, TrackInv
  <2> QED BY <2>1, <2>2, BoundAssumption DEF TrackInv, LiveIsTracked, Procs
<1> QED BY <1>1, TrackInductive, PTL

(* Stop leaves nothing behind (Manager.Stop against a launch that is in    *)
(* its handshake): once it and the requests it overtook are done, nothing  *)
(* is registered and nothing is alive that nobody is about to kill.        *)
THEOREM StopIsThorough ==
  ASSUME "slow" \notin Faults, "unlocked" \notin Faults
  PROVE  Spec => []StopLeavesNothing
<1>1. TrackInv => StopLeavesNothing
  <2> SUFFICES ASSUME TrackInv, stopCh, Idle
               PROVE  running = None /\ \A p \in Procs : proc[p] # "dead" => Doomed(p)
    BY DEF StopLeavesNothing
  <2>1. \A c \in Threads : op[c].pc = "idle" BY DEF Idle
  <2>2. running = None BY <2>1 DEF TrackInv, StopOrder, Threads
  <2> QED BY <2>1, <2>2, BoundAssumption DEF TrackInv, LiveIsTracked, Procs, Threads
<1> QED BY <1>1, TrackInductive, PTL

---------------------------------------------------------------------------
(* What runs is what the row says.  A request decides by the row it read,  *)
(* and while its client is there, what it decided and the row agree.       *)

Decided(c) ==
    /\ op[c].ctx /\ op[c].pc \notin {"dropped", "stopped"}
    /\ op[c].pc # "idle" => op[c].kind \in KindNames \ {"shutdown"}
    /\ op[c].pc = "check" => op[c].kind = "enable" /\ enabled
    /\ op[c].pc \in {"launch", "init", "register", "recheck", "ok"} => installed /\ enabled
    /\ op[c].pc = "refuse" => ~installed
    /\ op[c].pc = "install" => op[c].kind = "install"
    /\ op[c].pc \in {"uninstalled", "forget"} => op[c].kind = "uninstall"
    /\ op[c].pc \in {"fetch", "swap", "swapped", "restart", "ensure"} => op[c].kind = "update"
    /\ op[c].kind = "update" /\ op[c].pc \in {"take", "kill", "untask", "fetch", "swap", "swapped",
                                              "restart", "ensure"} => op[c].flag = enabled
    /\ op[c].pc = "disabled" => op[c].kind = "disable"
    /\ op[c].kind = "disable" => op[c].pc \in {"idle", "begin"}
                                 \/ (op[c].pc \in {"take", "kill", "untask", "disabled"} /\ ~enabled)
    /\ op[c].pc \in {"kill", "untask"} =>
          \/ op[c].kind = "update" /\ op[c].next = "fetch"
          \/ op[c].kind = "disable" /\ op[c].next = "disabled"
          \/ op[c].kind = "uninstall" /\ op[c].next = "uninstalled"
    /\ op[c].pc \in {"rollback", "kill", "untask", "uninstalled", "forget", "install"} => running = None
AllDecided == \A c \in Callers : Decided(c)

(* A registered process is wanted, or a disable is about to take it.       *)
Disabling(c) == op[c].pc = "take" /\ op[c].kind = "disable"
RunsWanted == running # None => (installed /\ enabled) \/ \E c \in Callers : Disabling(c)

(* A wanted plugin runs, or its row says "error", or somebody is at it who *)
(* will start it or write that.                                            *)
Busy(c) == op[c].pc \in {"check", "launch", "init", "register", "rollback", "kill", "untask",
                         "fetch", "swap", "swapped", "restart", "ensure", "uninstalled",
                         "forget", "install"}
Missing == ~stopCh /\ installed /\ enabled /\ running = None /\ status # "error"
Noticed == beat.pc = "kill" \/ \E p \in Procs : watch[p] = "mark"
EnabledRuns == Missing => Noticed \/ \E c \in Callers : Busy(c)

WantInv == AllDecided /\ RunsWanted /\ EnabledRuns

LEMMA InitWants == Init => WantInv
<1> SUFFICES ASSUME Init PROVE WantInv OBVIOUS
<1>1. \A c \in Callers : op[c] = IdleOp BY DEF Init, Threads
<1>2. AllDecided BY <1>1, CallersAssumption DEF AllDecided, Decided, IdleOp, Threads
<1>3. (running # None => installed /\ enabled) /\ (installed /\ enabled => running # None \/ status = "error")
  BY BoundAssumption DEF Init, Started
<1> QED BY <1>2, <1>3 DEF WantInv, RunsWanted, EnabledRuns, Missing

(* A request acts on the plugin alone: every other one is yet to begin.    *)
Alone(c) == \A d \in Callers \ {c} : op'[d] = op[d] /\ op[d].pc \in {"idle", "begin"}

LEMMA RequestsActAlone ==
  ASSUME Types, LockInv, ExclusiveAlone, AllDecided, NEW c \in Callers, RequestStep(c)
  PROVE  Alone(c)
<1> SUFFICES ASSUME NEW d \in Callers \ {c}, op[d].pc \notin {"idle", "begin"} PROVE FALSE
  BY StepIsLocal DEF Alone
<1>1. Good(c) /\ Good(d) /\ Decided(c) /\ Decided(d) BY LockInvIsGood DEF AllDecided
<1>2. op[d].kind \in LockedKinds \cup Exclusive
  BY <1>1 DEF Decided, KindNames, LockedKinds, Exclusive
<1>3. op[c].pc # "idle"
  BY <1>1 DEF RequestStep, StartStep, StopStep, UpdateStep,
     LaunchFails, Launch, InitOK, InitFails, Register, RegisterStopped,
     RecheckKeeps, RecheckDrops, Dropped, StartOK, Probe, Paged, Rollback, Take, Kill, RemoveTasks,
     BeginUpdate, UpdateRefused, Fetch, FetchFails, SwapOut, SwapFails,
     SwapIn, SwapInFails, RestartNothing, Restart,
     BeginSetEnabled, EnableReturns, EnableStarts, Disabled, BeginUninstall,
     Uninstalled, Forget, BeginInstall, Install
<1>4. op[c].kind \notin Exclusive /\ op[d].kind \notin Exclusive
  BY <1>3 DEF ExclusiveAlone
<1>5. lock = d BY <1>1, <1>2, <1>4 DEF Good
<1>6. op[c].pc = "begin"
  BY <1>1, <1>2, <1>3, <1>4, <1>5 DEF Good, Decided, KindNames, LockedKinds, Exclusive
<1>7. op[c].kind \in LockedKinds
  BY <1>1, <1>3, <1>4 DEF Decided, KindNames, LockedKinds, Exclusive
<1>8. lock = None
  BY <1>6, <1>7 DEF RequestStep, StartStep, StopStep, UpdateStep,
     LaunchFails, Launch, InitOK, InitFails, Register, RegisterStopped,
     RecheckKeeps, RecheckDrops, Dropped, StartOK, Probe, Paged, Rollback, Take, Kill, RemoveTasks,
     BeginUpdate, UpdateRefused, Fetch, FetchFails, SwapOut, SwapFails,
     SwapIn, SwapInFails, RestartNothing, Restart,
     BeginSetEnabled, EnableReturns, EnableStarts, Disabled, BeginUninstall,
     Uninstalled, Forget, BeginInstall, Install, Acquire, LockedKinds
<1> QED BY <1>5, <1>8, CallersAssumption

(* So what is said of all follows from what is said of it.                 *)
RunsWantedBy(c) == running # None => (installed /\ enabled) \/ Disabling(c)
EnabledRunsBy(c) == Missing => Noticed \/ Busy(c)
WantedBy(c) == Decided(c) /\ RunsWantedBy(c) /\ EnabledRunsBy(c)

LEMMA AloneSeen ==
  ASSUME WantInv, NEW c \in Callers, Alone(c)
  PROVE  WantedBy(c)
<1> USE DEF Alone
<1>1. Decided(c) BY DEF WantInv, AllDecided
<1>2. RunsWantedBy(c) BY DEF WantInv, RunsWanted, RunsWantedBy, Disabling
<1>3. EnabledRunsBy(c) BY DEF WantInv, EnabledRuns, EnabledRunsBy, Busy
<1> QED BY <1>1, <1>2, <1>3 DEF WantedBy

LEMMA AloneSuffices ==
  ASSUME WantInv, NEW c \in Callers, Alone(c), WantedBy(c)'
  PROVE  WantInv'
<1> USE DEF Alone, WantedBy
<1>1. AllDecided'
  <2> SUFFICES ASSUME NEW d \in Callers \ {c} PROVE Decided(d)' BY DEF AllDecided
  <2>1. Decided(d) /\ op'[d] = op[d] /\ op[d].pc \in {"idle", "begin"} BY DEF WantInv, AllDecided
  <2> QED BY <2>1 DEF Decided
<1>2. RunsWanted' BY DEF RunsWanted, RunsWantedBy
<1>3. EnabledRuns' BY DEF EnabledRuns, EnabledRunsBy
<1> QED BY <1>1, <1>2, <1>3 DEF WantInv

(* Where a request goes, by Goto or by Return.                             *)
MovesTo(c, pc) == /\ op'[c].pc = pc /\ op'[c].kind = op[c].kind /\ op'[c].next = op[c].next
                  /\ op'[c].flag = op[c].flag /\ op'[c].ctx = op[c].ctx
MonitorsKept == stopCh' = stopCh /\ watch' = watch /\ beat' = beat

LEMMA GotoMovesTo ==
  ASSUME Types, NEW c \in Callers, NEW pc, Goto(c, pc)
  PROVE  MovesTo(c, pc)
BY DEF MovesTo, Goto, Types, RequestType, OpType, Threads

LEMMA ReturnIsDecided ==
  ASSUME Types, NEW c \in Callers, Return(c)
  PROVE  Decided(c)' /\ ~Disabling(c)' /\ ~Busy(c)'
<1>1. op'[c] = IdleOp BY DEF Return, Types, RequestType, Threads
<1> QED BY <1>1 DEF Decided, Disabling, Busy, IdleOp

(* start(): it begins and stays on a plugin the row wants.                 *)
LEMMA LaunchWants ==
  ASSUME Types, LockInv, TrackInv, NEW c \in Callers, WantedBy(c),
         EnableStarts(c) \/ LaunchFails(c) \/ Launch(c) \/ InitOK(c) \/ InitFails(c)
           \/ Register(c) \/ RegisterStopped(c) \/ Restart(c)
  PROVE  WantedBy(c)'
<1>1. /\ MonitorsKept /\ UNCHANGED row
      /\ op[c].pc \in {"check", "launch", "init", "register", "restart", "ensure"}
  BY DEF EnableStarts, LaunchFails, Launch, InitOK, InitFails, Register, RegisterStopped, Restart,
     MonitorsKept
<1>2. running = None
  BY LockInvIsGood DEF EnableStarts, LaunchFails, Launch, InitOK, InitFails, Register, RegisterStopped,
     Restart, Good, Emptied, InStart
<1>3. /\ installed /\ enabled
  BY DEF WantedBy, Decided, EnableStarts, LaunchFails, Launch, InitOK, InitFails, Register,
     RegisterStopped, Restart
<1>4. /\ \/ op'[c].pc \in {"launch", "rollback", "init", "register"} /\ running' = running
         \/ op'[c].pc = "recheck" /\ running' \in Procs
      /\ op'[c].kind = op[c].kind /\ op'[c].ctx = op[c].ctx
  <2>1. CASE EnableStarts(c) \/ LaunchFails(c) \/ InitOK(c)
    BY <2>1, GotoMovesTo DEF EnableStarts, LaunchFails, InitOK, MovesTo
  <2>2. CASE Register(c)
    BY <2>2, GotoMovesTo DEF Register, TrackInv, HandshakeHeld, InHandshake, MovesTo
  <2>3. CASE Launch(c)
    <3>1. PICK q \in Procs : op' = [op EXCEPT ![c] = [@ EXCEPT !.pc = "init", !.rp = q]]
      BY <2>3 DEF Launch
    <3>2. op'[c].pc = "init" /\ op'[c].kind = op[c].kind /\ op'[c].ctx = op[c].ctx
      BY <3>1 DEF Types, RequestType, OpType, Threads
    <3> QED BY <2>3, <3>2 DEF Launch
  <2>4. CASE InitFails(c) BY <2>4 DEF InitFails, Types, RequestType, OpType, Threads
  <2>5. CASE RegisterStopped(c) BY <2>5 DEF RegisterStopped, Types, RequestType, OpType, Threads
  <2>6. CASE Restart(c) BY <2>6 DEF Restart, Types, RequestType, OpType, Threads
  <2> QED BY <2>1, <2>2, <2>3, <2>4, <2>5, <2>6
<1>5. op[c].kind \in {"enable", "update"}
  BY <1>1 DEF WantedBy, Decided, KindNames, LockInv, KindsKept, UnlockedPcs, LockedKinds
<1>6. Decided(c)' BY <1>1, <1>2, <1>3, <1>4, <1>5 DEF WantedBy, Decided, row, KindNames
<1>7. RunsWantedBy(c)' BY <1>1, <1>3 DEF RunsWantedBy, row
<1>8. EnabledRunsBy(c)' BY <1>1, <1>4, BoundAssumption DEF EnabledRunsBy, Missing, Busy, Procs
<1> QED BY <1>6, <1>7, <1>8 DEF WantedBy

(* The end of a launch: wanted still, and registered.                      *)
LEMMA StartedWants ==
  ASSUME Types, LockInv, TrackInv, NEW c \in Callers, WantedBy(c),
         RecheckKeeps(c) \/ RecheckDrops(c) \/ Dropped(c) \/ StartOK(c)
  PROVE  WantedBy(c)'
<1>1. RecheckKeeps(c) \/ StartOK(c)
  BY DEF RecheckDrops, Dropped, Wanted, WantedBy, Decided
<1>2. /\ MonitorsKept \/ (stopCh' = stopCh /\ beat' = beat /\ op'[c].pc = "probe")
      /\ running' = running /\ installed' = installed /\ enabled' = enabled
      /\ op[c].pc \in {"recheck", "ok"} /\ op'[c].pc \in {"ok", "probe"}
      /\ op'[c].kind = op[c].kind /\ op'[c].ctx = op[c].ctx
  <2>1. CASE RecheckKeeps(c)
    BY <2>1, GotoMovesTo DEF RecheckKeeps, MovesTo, MonitorsKept, row
  <2>2. CASE StartOK(c)
    <3>1. op'[c].pc = "probe" /\ op'[c].kind = op[c].kind /\ op'[c].ctx = op[c].ctx
      BY <2>2 DEF StartOK, Types, RequestType, OpType, Threads
    <3> QED BY <2>2, <3>1 DEF StartOK
  <2> QED BY <1>1, <2>1, <2>2
<1>3. installed /\ enabled /\ op[c].ctx BY <1>2 DEF WantedBy, Decided
<1>4. ~stopCh => running # None
  BY <1>2, BoundAssumption DEF TrackInv, HandshakeHeld, InHandshake, Procs
<1>5. op[c].kind \in {"enable", "update"}
  BY <1>2 DEF WantedBy, Decided, KindNames, LockInv, KindsKept, UnlockedPcs, LockedKinds
<1>6. Decided(c)' BY <1>2, <1>3, <1>5 DEF WantedBy, Decided, KindNames
<1>7. RunsWantedBy(c)' BY <1>2, <1>3 DEF RunsWantedBy
<1>8. EnabledRunsBy(c)' BY <1>2, <1>4 DEF EnabledRunsBy, Missing, MonitorsKept
<1> QED BY <1>6, <1>7, <1>8 DEF WantedBy

(* Steps that leave the plugin as it is and had no hand in it.             *)
LEMMA IdlingWants ==
  ASSUME NEW c \in Callers, WantedBy(c), MonitorsKept, ~Busy(c), ~Disabling(c),
         UNCHANGED <<installed, enabled, running>>,
         status' = status \/ ~(installed /\ enabled), Decided(c)'
  PROVE  WantedBy(c)'
BY DEF WantedBy, RunsWantedBy, EnabledRunsBy, MonitorsKept, Missing, Noticed

LEMMA IdleStepsWant ==
  ASSUME Types, NEW c \in Callers, WantedBy(c),
         Probe(c) \/ Paged(c) \/ Disabled(c) \/ EnableReturns(c) \/ UpdateRefused(c)
  PROVE  WantedBy(c)'
<1>1. MonitorsKept /\ UNCHANGED <<installed, enabled, running>>
  BY DEF MonitorsKept, Probe, Paged, Disabled, EnableReturns, UpdateRefused, row
<1>2. CASE Probe(c)
  <2>1. Decided(c)'
    <3>1. CASE Return(c) BY <3>1, ReturnIsDecided
    <3>2. CASE ~Return(c)
      <4>1. op'[c].pc = "paged" /\ op'[c].kind = op[c].kind /\ op'[c].ctx = op[c].ctx
        <5>1. PICK hasPage : op' = [op EXCEPT ![c] = [@ EXCEPT !.pc = "paged", !.flag = hasPage]]
          BY <1>2, <3>2 DEF Probe
        <5> QED BY <5>1 DEF Types, RequestType, OpType, Threads
      <4>2. op[c].pc = "probe" BY <1>2 DEF Probe
      <4> QED BY <1>1, <4>1, <4>2 DEF WantedBy, Decided
    <3> QED BY <3>1, <3>2
  <2>2. op[c].pc = "probe" /\ status' = status BY <1>2 DEF Probe, row
  <2> QED BY <1>1, <2>1, <2>2, IdlingWants DEF Busy, Disabling
<1>3. CASE Paged(c)
  <2>1. op[c].pc = "paged" /\ status' = status /\ Return(c) BY <1>3 DEF Paged
  <2> QED BY <1>1, <2>1, ReturnIsDecided, IdlingWants DEF Busy, Disabling
<1>4. CASE Disabled(c)
  <2>1. op[c].pc = "disabled" /\ Return(c) BY <1>4 DEF Disabled
  <2>2. ~enabled BY <2>1 DEF WantedBy, Decided
  <2> QED BY <1>1, <2>1, <2>2, ReturnIsDecided, IdlingWants DEF Busy, Disabling
<1>5. CASE EnableReturns(c)
  <2>1. /\ op[c].pc = "check" /\ status' = status /\ Return(c)
        /\ running # None \/ ~installed
    BY <1>5 DEF EnableReturns, WantedBy, Decided, row
  <2> QED BY <1>1, <2>1, ReturnIsDecided
          DEF WantedBy, RunsWantedBy, EnabledRunsBy, Disabling, Missing
<1>6. CASE UpdateRefused(c)
  <2>1. op[c].pc \in {"refuse", "take"} /\ op[c].kind = "update" /\ status' = status /\ Return(c)
    BY <1>6 DEF UpdateRefused, row
  <2> QED BY <1>1, <2>1, ReturnIsDecided, IdlingWants DEF Busy, Disabling
<1> QED BY <1>2, <1>3, <1>4, <1>5, <1>6

(* A failed start gives up being enabled; disabling clears the flag first. *)
LEMMA GivingUpWants ==
  ASSUME Types, LockInv, NEW c \in Callers, WantedBy(c),
         Rollback(c) \/ BeginSetEnabled(c) \/ Forget(c) \/ Install(c) \/ BeginInstall(c)
  PROVE  WantedBy(c)'
<1> USE DEF WantedBy
<1>1. CASE Rollback(c) \/ Forget(c) \/ Install(c)
  <2>1. Return(c) /\ op[c].ctx /\ running = None /\ running' = running /\ (~enabled' \/ ~installed')
    BY <1>1 DEF Rollback, Forget, Install, Decided, Write
  <2> QED BY <2>1, ReturnIsDecided DEF RunsWantedBy, EnabledRunsBy, Missing
<1>2. CASE BeginSetEnabled(c)
  <2>1. /\ op[c].pc = "begin" /\ op[c].kind \in {"enable", "disable"} /\ enabled' = (op[c].kind = "enable")
        /\ UNCHANGED <<installed, running>>
        /\ MovesTo(c, IF op[c].kind = "enable" THEN "check" ELSE "take")
    BY <1>2, GotoMovesTo DEF BeginSetEnabled
  <2>2. Decided(c)' BY <2>1 DEF Decided, MovesTo
  <2>3. RunsWantedBy(c)' BY <2>1 DEF RunsWantedBy, Disabling, MovesTo
  <2>4. EnabledRunsBy(c)' BY <2>1 DEF EnabledRunsBy, Missing, Busy, MovesTo
  <2> QED BY <2>2, <2>3, <2>4
<1>3. CASE BeginInstall(c)
  <2>1. /\ op[c].pc = "begin" /\ op[c].kind = "install" /\ MonitorsKept
        /\ UNCHANGED <<enabled, status, running>>
    BY <1>3 DEF BeginInstall, MonitorsKept
  <2>2. CASE Return(c) /\ UNCHANGED installed
    BY <2>1, <2>2, ReturnIsDecided, IdlingWants DEF Busy, Disabling
  <2>3. CASE ~installed /\ installed' /\ MovesTo(c, "install")
    <3>1. running = None BY <2>1, <2>3 DEF RunsWantedBy, Disabling
    <3>2. Decided(c)' BY <2>1, <2>3, <3>1 DEF Decided, MovesTo
    <3>3. RunsWantedBy(c)' /\ EnabledRunsBy(c)'
      BY <2>1, <2>3, <3>1 DEF RunsWantedBy, EnabledRunsBy, Busy, MovesTo
    <3> QED BY <3>2, <3>3
  <2> QED BY <1>3, <2>2, <2>3, GotoMovesTo DEF BeginInstall
<1> QED BY <1>1, <1>2, <1>3

(* Stopping the process for a disable, an update or an uninstall.          *)
LEMMA StoppingWants ==
  ASSUME Types, LockInv, NEW c \in Callers, WantedBy(c), StopStep(c)
  PROVE  WantedBy(c)'
<1> USE DEF WantedBy
<1>1. /\ MonitorsKept /\ UNCHANGED row /\ running' = None
      /\ op[c].pc \in {"take", "kill", "untask"}
  BY DEF StopStep, Take, Kill, RemoveTasks, MonitorsKept, Decided
<1>2. /\ op'[c].kind = op[c].kind /\ op'[c].flag = op[c].flag /\ op'[c].ctx = op[c].ctx
      /\ \/ op[c].kind = "update" /\ op'[c].next = "fetch"
         \/ op[c].kind = "disable" /\ op'[c].next = "disabled"
         \/ op[c].kind = "uninstall" /\ op'[c].next = "uninstalled"
      /\ op'[c].pc \in {"kill", "untask"} \/ op'[c].pc = op'[c].next
  <2>1. CASE Take(c)
    <3>1. op[c].kind \in {"disable", "update", "uninstall"}
      BY <2>1, LockInvIsGood DEF Good, Take
    <3> QED BY <2>1, <3>1 DEF Take, Types, RequestType, OpType, Threads
  <2>2. CASE Kill(c) BY <2>2, GotoMovesTo DEF Kill, MovesTo, Decided
  <2>3. CASE RemoveTasks(c) BY <2>3, GotoMovesTo DEF RemoveTasks, MovesTo, Decided
  <2> QED BY <2>1, <2>2, <2>3 DEF StopStep
<1>3. /\ op[c].kind = "disable" => ~enabled
      /\ op[c].kind = "update" => op[c].flag = enabled
  BY <1>1 DEF Decided
<1>4. Decided(c)' BY <1>1, <1>2, <1>3 DEF Decided, row, KindNames
<1>5. RunsWantedBy(c)' /\ EnabledRunsBy(c)'
  BY <1>1, <1>2, <1>3 DEF RunsWantedBy, EnabledRunsBy, Missing, Busy, row
<1> QED BY <1>4, <1>5

LEMMA UninstallWants ==
  ASSUME Types, NEW c \in Callers, WantedBy(c), BeginUninstall(c) \/ Uninstalled(c)
  PROVE  WantedBy(c)'
<1> USE DEF WantedBy
<1>1. CASE BeginUninstall(c)
  <2>1. /\ op[c].pc = "begin" /\ op[c].kind = "uninstall" /\ MonitorsKept
        /\ UNCHANGED <<row, running>> /\ MovesTo(c, "take")
    BY <1>1, GotoMovesTo DEF BeginUninstall, MonitorsKept
  <2>2. Decided(c)' BY <2>1 DEF Decided, MovesTo, row
  <2> QED BY <2>1, <2>2, IdlingWants DEF row, Busy, Disabling
<1>2. CASE Uninstalled(c)
  <2>1. /\ op[c].pc = "uninstalled" /\ MovesTo(c, "forget") /\ UNCHANGED <<installed, enabled, running>>
    BY <1>2, GotoMovesTo DEF Uninstalled
  <2>2. op[c].kind = "uninstall" /\ running = None BY <2>1 DEF Decided
  <2>3. Decided(c)' BY <2>1, <2>2 DEF Decided, MovesTo
  <2>4. RunsWantedBy(c)' /\ EnabledRunsBy(c)' BY <2>1, <2>2 DEF RunsWantedBy, EnabledRunsBy, Busy, MovesTo
  <2> QED BY <2>3, <2>4
<1> QED BY <1>1, <1>2

(* The flag an update restarts by is the one in the row.                   *)
LEMMA UpdateWants ==
  ASSUME Types, LockInv, NEW c \in Callers, WantedBy(c), UpdateStep(c), ~UpdateRefused(c), ~Restart(c)
  PROVE  WantedBy(c)'
<1> USE DEF WantedBy
<1>1. CASE BeginUpdate(c)
  <2>1. /\ op[c].pc = "begin" /\ op[c].kind = "update" /\ MonitorsKept /\ UNCHANGED <<row, running>>
    BY <1>1 DEF BeginUpdate, MonitorsKept
  <2>2. /\ op'[c].pc = IF installed THEN "take" ELSE "refuse"
        /\ op'[c].flag = enabled /\ op'[c].kind = op[c].kind /\ op'[c].ctx = op[c].ctx
    BY <1>1 DEF BeginUpdate, Types, RequestType, OpType, Threads
  <2>3. Decided(c)' BY <2>1, <2>2 DEF Decided, row
  <2> QED BY <2>1, <2>3, IdlingWants DEF row, Busy, Disabling
<1>2. CASE RestartNothing(c)
  <2>1. /\ op[c].pc \in {"restart", "ensure"} /\ Return(c) /\ MonitorsKept
        /\ UNCHANGED <<installed, enabled, running>> /\ (~op[c].flag \/ ~op[c].ctx \/ ~installed)
    BY <1>2 DEF RestartNothing, MonitorsKept
  <2>2. ~(installed /\ enabled) BY <2>1 DEF Decided
  <2> QED BY <2>1, <2>2, ReturnIsDecided DEF RunsWantedBy, EnabledRunsBy, Missing, Disabling
<1>3. CASE Fetch(c) \/ FetchFails(c) \/ SwapOut(c) \/ SwapFails(c) \/ SwapIn(c) \/ SwapInFails(c)
  <2>1. /\ op[c].pc \in {"fetch", "swap", "swapped"} /\ UNCHANGED <<row, running>>
    BY <1>3 DEF Fetch, FetchFails, SwapOut, SwapFails, SwapIn, SwapInFails
  <2>2. PICK pc \in {"swap", "swapped", "restart", "ensure"} : MovesTo(c, pc)
    BY <1>3, GotoMovesTo DEF Fetch, FetchFails, SwapOut, SwapFails, SwapIn, SwapInFails
  <2>3. op[c].kind = "update" /\ op[c].flag = enabled BY <2>1 DEF Decided
  <2>4. Decided(c)' BY <2>1, <2>2, <2>3 DEF Decided, MovesTo, row
  <2>5. RunsWantedBy(c)' /\ EnabledRunsBy(c)'
    BY <2>1, <2>2 DEF RunsWantedBy, EnabledRunsBy, Busy, Disabling, MovesTo, row
  <2> QED BY <2>4, <2>5
<1> QED BY <1>1, <1>2, <1>3 DEF UpdateStep

LEMMA RequestKeepsWant ==
  ASSUME Types, LockInv, TrackInv, WantInv, NEW c \in Callers, RequestStep(c)
  PROVE  WantInv'
<1>1. Alone(c) BY RequestsActAlone DEF TrackInv, WantInv
<1>2. WantedBy(c) BY <1>1, AloneSeen
<1>3. WantedBy(c)'
  <2>1. CASE StartStep(c)
    BY <1>2, <2>1, LaunchWants, StartedWants, IdleStepsWant, GivingUpWants DEF StartStep
  <2>2. CASE StopStep(c) BY <1>2, <2>2, StoppingWants
  <2>3. CASE UpdateStep(c)
    <3>1. CASE Restart(c) BY <1>2, <3>1, LaunchWants
    <3>2. CASE UpdateRefused(c) BY <1>2, <3>2, IdleStepsWant
    <3> QED BY <1>2, <2>3, <3>1, <3>2, UpdateWants
  <2>4. CASE EnableReturns(c) \/ Disabled(c) BY <1>2, <2>4, IdleStepsWant
  <2>5. CASE BeginSetEnabled(c) \/ Forget(c) \/ BeginInstall(c) \/ Install(c) BY <1>2, <2>5, GivingUpWants
  <2>6. CASE BeginUninstall(c) \/ Uninstalled(c) BY <1>2, <2>6, UninstallWants
  <2>7. CASE EnableStarts(c) BY <1>2, <2>7, LaunchWants
  <2> QED BY <2>1, <2>2, <2>3, <2>4, <2>5, <2>6, <2>7 DEF RequestStep
<1> QED BY <1>1, <1>3, AloneSuffices

(* Arrivals, Stop, the processes and their monitors: the running entry is  *)
(* only ever cleared, and a monitor that clears it says so.                *)
LEMMA MonitorsKeepWant ==
  ASSUME WantInv, \A c \in Callers : op'[c] = op[c],
         installed' = installed, enabled' = enabled, running' \in {running, None},
         Missing' => Noticed' \/ (Missing /\ ~Noticed)
  PROVE  WantInv'
<1>1. AllDecided'
  <2> SUFFICES ASSUME NEW c \in Callers PROVE Decided(c)' BY DEF AllDecided
  <2>1. Decided(c) BY DEF WantInv, AllDecided
  <2> QED BY <2>1 DEF Decided
<1>2. RunsWanted' BY DEF WantInv, RunsWanted, Disabling
<1>3. EnabledRuns' BY DEF WantInv, EnabledRuns, Busy
<1> QED BY <1>1, <1>2, <1>3 DEF WantInv

LEMMA ArrivalKeepsWant ==
  ASSUME Types, WantInv, NEW c \in Callers, NEW kind \in Kinds, Request(c, kind)
  PROVE  WantInv'
<1>1. PICK k \in Kinds \ {"shutdown"} : Request(c, k) BY DEF Request
<1>2. /\ op[c].pc = "idle" /\ MonitorsKept /\ UNCHANGED <<row, running>>
      /\ \A d \in Callers \ {c} : op'[d] = op[d]
  BY <1>1 DEF Request, MonitorsKept, Types, RequestType, Threads
<1>3. op'[c].pc = "begin" /\ op'[c].kind = k /\ op'[c].ctx
  BY <1>1 DEF Request, IdleOp, Types, RequestType, Threads
<1>4. AllDecided'
  <2> SUFFICES ASSUME NEW d \in Callers PROVE Decided(d)' BY DEF AllDecided
  <2>1. CASE d = c BY <1>3, <2>1, ChoiceAssumption DEF Decided
  <2>2. CASE d # c
    <3>1. Decided(d) /\ op'[d] = op[d] BY <1>2, <2>2 DEF WantInv, AllDecided
    <3> QED BY <1>2, <3>1 DEF Decided, row
  <2> QED BY <2>1, <2>2
<1>5. RunsWanted' BY <1>2 DEF WantInv, RunsWanted, Disabling, row
<1>6. EnabledRuns'
  BY <1>2 DEF WantInv, EnabledRuns, Busy, Missing, Noticed, MonitorsKept, row
<1> QED BY <1>4, <1>5, <1>6 DEF WantInv

LEMMA MainKeepsWant ==
  ASSUME Types, TrackInv, WantInv, Shutdown \/ MainStep
  PROVE  WantInv'
<1>1. /\ \A c \in Callers : op'[c] = op[c]
      /\ installed' = installed /\ enabled' = enabled /\ running' \in {running, None} /\ stopCh'
  BY CallersAssumption DEF Shutdown, MainStep, Stopped, StopStep, Take, Kill, RemoveTasks, Return,
     Goto, TrackInv, StopOrder, Types, RequestType, Threads, row
<1> QED BY <1>1, MonitorsKeepWant DEF Missing

LEMMA ProcessKeepsWant ==
  ASSUME Types, WantInv, NEW p \in Procs, Fail(p) \/ RegisterSchedule(p) \/ WatchStep(p)
  PROVE  WantInv'
<1>1. /\ \A c \in Callers : op'[c] = op[c]
      /\ installed' = installed /\ enabled' = enabled /\ running' \in {running, None}
  BY DEF Fail, RegisterSchedule, WatchStep, WatchExit, WatchMark, WatchUntask, row
<1>2. Missing' => Noticed' \/ (Missing /\ ~Noticed)
  <2>1. CASE Fail(p) \/ RegisterSchedule(p)
    BY <2>1 DEF Fail, RegisterSchedule, Missing, Noticed, row
  <2>2. CASE WatchExit(p)
    <3>1. CASE running = None
      <4>1. \A q \in Procs : watch'[q] = "mark" <=> watch[q] = "mark"
        BY <2>2, <3>1 DEF WatchExit, Types, ProcType
      <4> QED BY <2>2, <3>1, <4>1 DEF WatchExit, Missing, Noticed, row
    <3>2. CASE running # None
      <4>1. watch'[p] = "mark" BY <2>2, <3>2 DEF WatchExit, Types, ProcType
      <4> QED BY <4>1 DEF Noticed
    <3> QED BY <3>1, <3>2
  <2>3. CASE WatchMark(p) BY <2>3 DEF WatchMark, Missing
  <2>4. CASE WatchUntask(p)
    <3>1. \A q \in Procs : watch'[q] = "mark" <=> watch[q] = "mark"
      BY <2>4 DEF WatchUntask, Types, ProcType
    <3> QED BY <2>4, <3>1 DEF WatchUntask, Missing, Noticed, row
  <2> QED BY <2>1, <2>2, <2>3, <2>4 DEF WatchStep
<1> QED BY <1>1, <1>2, MonitorsKeepWant

LEMMA BeatKeepsWant ==
  ASSUME Types, WantInv, BeatSnapshot \/ BeatStep
  PROVE  WantInv'
<1>1. /\ \A c \in Callers : op'[c] = op[c]
      /\ installed' = installed /\ enabled' = enabled /\ running' \in {running, None}
      /\ watch' = watch /\ stopCh' = stopCh
  BY DEF BeatSnapshot, BeatStep, BeatPing, BeatDrop, BeatKill, BeatUntask, row
<1>2. Missing' => Noticed' \/ (Missing /\ ~Noticed)
  <2>1. CASE BeatKill BY <2>1 DEF BeatKill, Missing
  <2>2. CASE BeatDrop
    <3>1. running # None => beat'.pc = "kill" BY <2>2 DEF BeatDrop, Types, ProcType
    <3>2. beat.pc = "drop" /\ status' = status BY <2>2 DEF BeatDrop, row
    <3> QED BY <1>1, <3>1, <3>2 DEF Missing, Noticed
  <2>3. CASE BeatSnapshot \/ BeatPing \/ BeatUntask
    <3>1. beat.pc # "kill" /\ status' = status /\ running' = running
      BY <2>3 DEF BeatSnapshot, BeatPing, BeatUntask, row
    <3> QED BY <1>1, <3>1 DEF Missing, Noticed
  <2> QED BY <2>1, <2>2, <2>3 DEF BeatStep
<1> QED BY <1>1, <1>2, MonitorsKeepWant

LEMMA WantInductive ==
  ASSUME "slow" \notin Faults, "unlocked" \notin Faults, "disconnect" \notin Faults
  PROVE  Spec => []WantInv
<1>1. Types /\ LockInv /\ TrackInv /\ WantInv /\ [Next]_vars => WantInv'
  <2> SUFFICES ASSUME Types, LockInv, TrackInv, WantInv, [Next]_vars PROVE WantInv' OBVIOUS
  <2>1. ASSUME NEW c \in Callers, RequestStep(c) PROVE WantInv' BY <2>1, RequestKeepsWant
  <2>2. ASSUME NEW c \in Callers, Disconnect(c) \/ \E k \in Kinds : Request(c, k) PROVE WantInv'
    BY <2>2, ArrivalKeepsWant DEF Disconnect
  <2>3. CASE Shutdown \/ MainStep BY <2>3, MainKeepsWant
  <2>4. ASSUME NEW p \in Procs, Fail(p) \/ RegisterSchedule(p) \/ WatchStep(p) PROVE WantInv'
    BY <2>4, ProcessKeepsWant
  <2>5. CASE BeatSnapshot \/ BeatStep BY <2>5, BeatKeepsWant
  <2>6. CASE UNCHANGED vars
    <3>1. /\ \A c \in Callers : op'[c] = op[c]
          /\ UNCHANGED <<installed, enabled, status, running, stopCh, watch, beat>>
      BY <2>6 DEF vars
    <3> QED BY <3>1, MonitorsKeepWant DEF Missing, Noticed
  <2> QED BY <2>1, <2>2, <2>3, <2>4, <2>5, <2>6 DEF Next
<1> QED BY <1>1, InitWants, TrackInductive, PTL DEF Spec

(* The persisted state is authoritative (SetEnabled, start's re-check,     *)
(* UpdatePlugin, Uninstall): with no request in flight a registered        *)
(* process belongs to an installed and enabled plugin.  A client that      *)
(* leaves loses its request's writes, and then it need not.                *)
THEOREM RowIsAuthoritative ==
  ASSUME "slow" \notin Faults, "unlocked" \notin Faults, "disconnect" \notin Faults
  PROVE  Spec => []RunsOnlyIfWanted
<1>1. WantInv => RunsOnlyIfWanted
  BY DEF WantInv, RunsWanted, RunsOnlyIfWanted, Idle, Disabling, Threads
<1> QED BY <1>1, WantInductive, PTL

(* The other way round (SetEnabled's roll-back, watchExit, heartbeat): when*)
(* nothing is under way and Stop has not been called, a plugin whose row   *)
(* says enabled is running, or its row says "error".                       *)
THEOREM EnabledIsHonest ==
  ASSUME "slow" \notin Faults, "unlocked" \notin Faults, "disconnect" \notin Faults
  PROVE  Spec => []EnabledMeansRunning
<1>1. WantInv => EnabledMeansRunning
  BY DEF WantInv, EnabledRuns, EnabledMeansRunning, Missing, Noticed, Busy, Quiet, Idle, Monitored, Threads
<1> QED BY <1>1, WantInductive, PTL

---------------------------------------------------------------------------
(* In calm behaviours schedules and the page follow the process.  Nobody   *)
(* crashes or leaves and launches succeed, so a request that takes the     *)
(* process away is still there to clear what is left, or brings another.   *)
LaunchesSucceed == {"slow", "unlocked", "launch", "init", "swap"} \cap Faults = {}

UpdatePcs == {"fetch", "swap", "swapped", "restart", "ensure"}
Updating(c) == \/ op[c].pc \in UpdatePcs
               \/ op[c].kind = "update" /\ op[c].pc \in {"take", "kill", "untask"}

(* Who will clear the page or register a process.                          *)
Serving(c) == op[c].pc \in {"kill", "untask", "disabled", "uninstalled", "launch", "init", "register"}
                           \cup UpdatePcs
(* Who will clear the schedules, or register the process they are of.      *)
Reached(c) == \/ op[c].pc \in {"kill", "untask"}
              \/ op[c].pc \in {"init", "register"} /\ op[c].rp = task

(* What each request relies on: no start fails, a page it has seen is of a *)
(* registered process, and an update that took a page away restarts.       *)
Steady(c) ==
    /\ op[c].pc # "rollback"
    /\ op[c].pc \in {"init", "register"} => proc[op[c].rp] = "up"
    /\ op[c].pc = "paged" /\ op[c].flag => running # None
    /\ Updating(c) => installed
    /\ Updating(c) /\ op[c].pc # "take" /\ page => op[c].flag

AllUp == ~stopCh /\ (\A p \in Procs : proc[p] # "hung") /\ (running # None => proc[running] = "up")
(* No monitor has anything to do.                                          *)
Unmoved == /\ beat.pc \in {"idle", "ping", "drop"} /\ (beat.pc # "idle" => beat.rp \in Procs)
           /\ beat.pc = "drop" => proc[beat.rp] = "dead"
           /\ \A p \in Procs : watch[p] \in {"none", "poll"}
InPlace == dir \/ \E c \in Callers : op[c].pc = "swapped"
TaskFollows == task # None => running = task \/ \E c \in Callers : Reached(c)
PageFollows == page => running # None \/ \E c \in Callers : Serving(c)

FollowInv == /\ AllUp /\ Unmoved /\ InPlace /\ TaskFollows /\ PageFollows
             /\ \A c \in Callers : Steady(c)

LEMMA InitFollows == Init => FollowInv
<1> SUFFICES ASSUME Init PROVE FollowInv OBVIOUS
<1>1. \A c \in Callers : op[c].pc = "idle" BY DEF Init, IdleOp, Threads
<1>2. PICK ok \in BOOLEAN : Started(1, ok) BY DEF Init
<1>3. 1 \in Procs BY BoundAssumption DEF Procs
<1>4. AllUp BY <1>2, <1>3, BoundAssumption DEF AllUp, Started, Init
<1>5. Unmoved BY <1>2 DEF Unmoved, Started, Init, IdleBeat
<1>6. InPlace /\ TaskFollows /\ PageFollows BY DEF Init, InPlace, TaskFollows, PageFollows
<1>7. \A c \in Callers : Steady(c) BY <1>1 DEF Steady, Updating, UpdatePcs
<1> QED BY <1>4, <1>5, <1>6, <1>7 DEF FollowInv

(* A request acts alone, so that what is said of some request is said of   *)
(* this one.                                                               *)
FollowedBy(c) ==
    /\ AllUp /\ Unmoved /\ Steady(c)
    /\ dir \/ op[c].pc = "swapped"
    /\ task # None => running = task \/ Reached(c)
    /\ page => running # None \/ Serving(c)

LEMMA FollowSeen ==
  ASSUME FollowInv, NEW c \in Callers, Alone(c)
  PROVE  FollowedBy(c)
<1>1. \A d \in Callers \ {c} : op[d].pc \in {"idle", "begin"} BY DEF Alone
<1>2. dir \/ op[c].pc = "swapped" BY <1>1 DEF FollowInv, InPlace
<1>3. task # None => running = task \/ Reached(c) BY <1>1 DEF FollowInv, TaskFollows, Reached
<1>4. page => running # None \/ Serving(c) BY <1>1 DEF FollowInv, PageFollows, Serving, UpdatePcs
<1> QED BY <1>2, <1>3, <1>4 DEF FollowedBy, FollowInv

LEMMA FollowSuffices ==
  ASSUME NEW c \in Callers, Alone(c), FollowedBy(c)'
  PROVE  FollowInv'
<1>1. \A d \in Callers \ {c} : op'[d].pc \in {"idle", "begin"} BY DEF Alone
<1>2. \A d \in Callers : Steady(d)'
  <2> SUFFICES ASSUME NEW d \in Callers \ {c} PROVE Steady(d)' BY DEF FollowedBy
  <2> QED BY <1>1 DEF Steady, Updating, UpdatePcs
<1>3. InPlace' /\ TaskFollows' /\ PageFollows' BY DEF FollowedBy, InPlace, TaskFollows, PageFollows
<1> QED BY <1>2, <1>3 DEF FollowedBy, FollowInv

(* A request that leaves the processes and what belongs to them alone.     *)
Aside(c) == UNCHANGED <<running, proc, stopCh, beat, watch>>

LEMMA ReturnFollows ==
  ASSUME Types, NEW c \in Callers, FollowedBy(c), Aside(c), Return(c), UNCHANGED <<dir, task>>,
         op[c].pc \notin {"init", "register", "kill", "untask", "swapped"}, page' => running # None
  PROVE  FollowedBy(c)'
<1>1. op'[c] = IdleOp BY DEF Return, Types, RequestType, Threads
<1>2. AllUp' /\ Unmoved' BY DEF FollowedBy, AllUp, Unmoved, Aside
<1>3. Steady(c)' BY <1>1 DEF Steady, Updating, UpdatePcs, IdleOp
<1> QED BY <1>1, <1>2, <1>3 DEF FollowedBy, Aside, Reached

LEMMA ReturnsFollow ==
  ASSUME Types, NEW c \in Callers, WantedBy(c), FollowedBy(c),
         \/ EnableReturns(c) \/ Disabled(c) \/ Forget(c) \/ Install(c) \/ Paged(c)
         \/ UpdateRefused(c) \/ RestartNothing(c)
  PROVE  FollowedBy(c)'
<1>1. Return(c) /\ Aside(c) /\ UNCHANGED <<dir, task>>
  BY DEF EnableReturns, Disabled, Forget, Install, Paged, UpdateRefused, RestartNothing, Aside
<1>2. op[c].pc \in {"check", "disabled", "forget", "install", "paged", "refuse", "take", "restart", "ensure"}
  BY DEF EnableReturns, Disabled, Forget, Install, Paged, UpdateRefused, RestartNothing
<1>3. Decided(c) /\ Steady(c) /\ (page => running # None \/ Serving(c)) BY DEF WantedBy, FollowedBy
<1>4. page' => running # None
  <2>1. CASE Disabled(c) BY <1>3, <2>1 DEF Disabled, Write, Decided
  <2>2. CASE Paged(c) BY <1>3, <2>2 DEF Paged, Write, Decided, Steady
  <2>3. CASE RestartNothing(c)
    <3>1. page => op[c].flag /\ op[c].ctx /\ installed
      BY <1>3, <2>3 DEF RestartNothing, Steady, Updating, UpdatePcs, Decided
    <3> QED BY <2>3, <3>1 DEF RestartNothing
  <2>4. CASE EnableReturns(c) \/ Forget(c) \/ Install(c) \/ UpdateRefused(c)
    <3>1. page' = page /\ op[c].pc \in {"check", "forget", "install", "refuse", "take"}
      BY <2>4 DEF EnableReturns, Forget, Install, UpdateRefused, row
    <3> QED BY <1>3, <3>1 DEF Serving, UpdatePcs
  <2> QED BY <2>1, <2>2, <2>3, <2>4
<1> QED BY <1>1, <1>2, <1>4, ReturnFollows

(* A request goes on, with what it has at hand.                            *)
LEMMA GoingOnFollows ==
  ASSUME NEW c \in Callers, FollowedBy(c), Aside(c), task' = task,
         Steady(c)', dir' \/ op'[c].pc = "swapped",
         op[c].pc \notin {"kill", "untask"},
         op[c].pc \in {"init", "register"} =>
            op'[c].pc \in {"init", "register"} /\ op'[c].rp = op[c].rp,
         page' => page /\ (Serving(c) => Serving(c)')
  PROVE  FollowedBy(c)'
<1>1. AllUp' /\ Unmoved' BY DEF FollowedBy, AllUp, Unmoved, Aside
<1>2. task' # None => running' = task' \/ Reached(c)' BY DEF FollowedBy, Reached, Aside
<1>3. page' => running' # None \/ Serving(c)' BY DEF FollowedBy, Aside
<1> QED BY <1>1, <1>2, <1>3 DEF FollowedBy

LEMMA GotoIs ==
  ASSUME Types, NEW c \in Callers, NEW pc, Goto(c, pc)
  PROVE  op'[c] = [op[c] EXCEPT !.pc = pc] /\ op[c] \in OpType
BY DEF Goto, Types, RequestType, Threads

LEMMA StartsFollow ==
  ASSUME Types, LaunchesSucceed, NEW c \in Callers, WantedBy(c), FollowedBy(c),
         \/ EnableStarts(c) \/ BeginSetEnabled(c) \/ InitOK(c) \/ RecheckKeeps(c) \/ Probe(c)
  PROVE  FollowedBy(c)'
<1>0. /\ Steady(c) /\ Decided(c) /\ op \in [Threads -> OpType] /\ c \in Threads
      /\ dir \/ op[c].pc = "swapped"
  BY DEF FollowedBy, WantedBy, Types, RequestType, Threads
<1>1. Aside(c) /\ UNCHANGED <<installed, page, task, dir>>
  BY DEF EnableStarts, BeginSetEnabled, InitOK, RecheckKeeps, Probe, Aside, row
<1>2. CASE EnableStarts(c)
  <2>1. op[c].pc = "check" /\ op'[c] = [op[c] EXCEPT !.pc = "launch"] /\ op[c] \in OpType
    BY <1>0, <1>2, GotoIs DEF EnableStarts
  <2> QED BY <1>0, <1>1, <2>1, GoingOnFollows DEF Steady, Updating, UpdatePcs, Serving, OpType, Decided
<1>3. CASE BeginSetEnabled(c)
  <2>1. PICK pc \in {"check", "take"} : op'[c] = [op[c] EXCEPT !.pc = pc]
    BY <1>0, <1>3, GotoIs DEF BeginSetEnabled
  <2>2. op[c].pc = "begin" /\ op[c] \in OpType /\ op[c].kind # "update" BY <1>0, <1>3 DEF BeginSetEnabled
  <2> QED BY <1>0, <1>1, <2>1, <2>2, GoingOnFollows DEF Steady, Updating, UpdatePcs, Serving, OpType
<1>4. CASE InitOK(c)
  <2>1. op[c].pc = "init" /\ op'[c] = [op[c] EXCEPT !.pc = "register"] /\ op[c] \in OpType
    BY <1>0, <1>4, GotoIs DEF InitOK
  <2> QED BY <1>0, <1>1, <2>1, GoingOnFollows DEF Steady, Updating, UpdatePcs, Serving, OpType, Aside
<1>5. CASE RecheckKeeps(c)
  <2>1. op[c].pc = "recheck" /\ op'[c] = [op[c] EXCEPT !.pc = "ok"] /\ op[c] \in OpType
    BY <1>0, <1>5, GotoIs DEF RecheckKeeps
  <2> QED BY <1>0, <1>1, <2>1, GoingOnFollows DEF Steady, Updating, UpdatePcs, Serving, OpType
<1>6. CASE Probe(c)
  <2>1. op[c].pc = "probe" BY <1>6 DEF Probe
  <2>2. CASE Return(c)
    <3>1. page => running # None BY <1>0, <2>1 DEF FollowedBy, Serving, UpdatePcs
    <3> QED BY <1>1, <2>1, <2>2, <3>1, ReturnFollows
  <2>3. CASE ~Return(c)
    <3>1. PICK hasPage \in BOOLEAN : /\ op' = [op EXCEPT ![c] = [@ EXCEPT !.pc = "paged", !.flag = hasPage]]
                                     /\ running = None => ~hasPage
      BY <1>6, <2>3 DEF Probe
    <3>2. op'[c] = [op[c] EXCEPT !.pc = "paged", !.flag = hasPage] /\ op[c] \in OpType BY <1>0, <3>1
    <3> QED BY <1>0, <1>1, <2>1, <3>1, <3>2, GoingOnFollows DEF Steady, Updating, UpdatePcs, Serving, OpType, Aside
  <2> QED BY <2>2, <2>3
<1> QED BY <1>2, <1>3, <1>4, <1>5, <1>6

LEMMA UpdateFollows ==
  ASSUME Types, LaunchesSucceed, NEW c \in Callers, WantedBy(c), FollowedBy(c),
         \/ BeginUpdate(c) \/ Fetch(c) \/ FetchFails(c) \/ SwapOut(c) \/ SwapIn(c) \/ Restart(c)
  PROVE  FollowedBy(c)'
<1>0. /\ Steady(c) /\ Decided(c) /\ op \in [Threads -> OpType] /\ c \in Threads
      /\ dir \/ op[c].pc = "swapped"
  BY DEF FollowedBy, WantedBy, Types, RequestType, Threads
<1>1. Aside(c) /\ UNCHANGED <<installed, page, task>>
  BY DEF BeginUpdate, Fetch, FetchFails, SwapOut, SwapIn, Restart, Aside, row
<1>2. CASE BeginUpdate(c)
  <2>1. /\ op[c].pc = "begin" /\ dir' = dir
        /\ op'[c] = [op[c] EXCEPT !.pc = IF installed THEN "take" ELSE "refuse", !.flag = enabled]
        /\ op[c] \in OpType
    BY <1>0, <1>2 DEF BeginUpdate
  <2>2. op'[c].pc \in {"take", "refuse"} /\ (op'[c].pc = "take" => installed) BY <2>1 DEF OpType
  <2> QED BY <1>0, <1>1, <2>1, <2>2, GoingOnFollows DEF Steady, Updating, UpdatePcs, Serving
<1>3. CASE Fetch(c) \/ FetchFails(c) \/ SwapOut(c) \/ SwapIn(c)
  <2>1. PICK pc \in {"swap", "restart", "swapped", "ensure"} : /\ op'[c] = [op[c] EXCEPT !.pc = pc] /\ op[c] \in OpType
                                                               /\ dir' \/ pc = "swapped"
    BY <1>0, <1>3, GotoIs DEF Fetch, FetchFails, SwapOut, SwapIn
  <2>2. op[c].pc \in {"fetch", "swap", "swapped"} BY <1>3 DEF Fetch, FetchFails, SwapOut, SwapIn
  <2> QED BY <1>0, <1>1, <2>1, <2>2, GoingOnFollows DEF Steady, Updating, UpdatePcs, Serving, OpType
<1>4. CASE Restart(c)
  <2>1. /\ op[c].pc \in {"restart", "ensure"} /\ dir' = dir /\ op[c] \in OpType
        /\ op'[c] = [op[c] EXCEPT !.pc = IF dir THEN "launch" ELSE "rollback", !.rp = None]
    BY <1>0, <1>4 DEF Restart
  <2>2. dir /\ op'[c].pc = "launch" BY <1>0, <2>1 DEF OpType
  <2> QED BY <1>0, <1>1, <2>1, <2>2, GoingOnFollows DEF Steady, Updating, UpdatePcs, Serving
<1> QED BY <1>2, <1>3, <1>4

LEMMA InstallsFollow ==
  ASSUME Types, LaunchesSucceed, NEW c \in Callers, WantedBy(c), FollowedBy(c),
         BeginInstall(c) \/ BeginUninstall(c) \/ Uninstalled(c)
  PROVE  FollowedBy(c)'
<1>0. /\ Steady(c) /\ Decided(c) /\ op \in [Threads -> OpType] /\ c \in Threads
      /\ dir \/ op[c].pc = "swapped"
  BY DEF FollowedBy, WantedBy, Types, RequestType, Threads
<1>1. Aside(c) /\ UNCHANGED <<task, dir>>
  BY DEF BeginInstall, BeginUninstall, Uninstalled, Aside
<1>2. op[c].pc \in {"begin", "uninstalled"} /\ (page' => page /\ op[c].pc = "begin")
  <2>1. CASE BeginInstall(c) \/ BeginUninstall(c) BY <2>1 DEF BeginInstall, BeginUninstall, row
  <2>2. CASE Uninstalled(c) BY <1>0, <2>2 DEF Uninstalled, Write, Decided
  <2> QED BY <2>1, <2>2
<1>3. CASE Return(c)
  <2>1. page' => running # None BY <1>2 DEF FollowedBy, Serving, UpdatePcs
  <2> QED BY <1>1, <1>2, <1>3, <2>1, ReturnFollows
<1>4. CASE ~Return(c)
  <2>1. PICK pc \in {"install", "take", "forget"} : op'[c] = [op[c] EXCEPT !.pc = pc] /\ op[c] \in OpType
    BY <1>4, GotoIs DEF BeginInstall, BeginUninstall, Uninstalled
  <2>2. op[c].kind # "update" BY <1>0 DEF BeginInstall, BeginUninstall, Uninstalled, Decided
  <2> QED BY <1>0, <1>1, <1>2, <2>1, <2>2, GoingOnFollows DEF Steady, Updating, UpdatePcs, Serving, OpType
<1> QED BY <1>3, <1>4

(* The steps that have a process in hand.                                  *)
LEMMA ProcessesFollow ==
  ASSUME Types, LockInv, TrackInv, LaunchesSucceed, NEW c \in Callers, WantedBy(c), FollowedBy(c),
         Launch(c) \/ Register(c) \/ StartOK(c)
  PROVE  FollowedBy(c)'
<1>0. /\ Steady(c) /\ Decided(c) /\ op \in [Threads -> OpType] /\ c \in Threads
      /\ AllUp /\ Unmoved /\ proc \in [Procs -> {"up", "hung", "dead"}]
      /\ watch \in [Procs -> {"none", "poll", "mark", "untask"}] /\ op[c] \in OpType
  BY DEF FollowedBy, WantedBy, Types, RequestType, ProcType, Threads
<1>1. CASE Launch(c)
  <2>1. PICK p \in Procs : /\ ~Referenced(p) /\ proc' = [proc EXCEPT ![p] = "up"]
                           /\ op' = [op EXCEPT ![c] = [@ EXCEPT !.pc = "init", !.rp = p]]
    BY <1>1 DEF Launch
  <2>2. op'[c].pc = "init" /\ op'[c].rp = p /\ op'[c].kind = op[c].kind BY <1>0, <2>1 DEF OpType
  <2>3. op[c].pc = "launch" /\ UNCHANGED <<row, running, task, dir, stopCh, watch, beat>> BY <1>1 DEF Launch
  <2>4. running # p /\ beat.rp # p /\ proc'[p] = "up" /\ \A q \in Procs \ {p} : proc'[q] = proc[q]
    BY <1>0, <2>1 DEF Referenced
  <2>5. AllUp' BY <1>0, <2>3, <2>4 DEF AllUp, Types, MapType, ProcOrNone
  <2>6. Unmoved' BY <1>0, <2>3, <2>4 DEF Unmoved
  <2>7. Steady(c)' BY <2>2, <2>4, <1>0 DEF Steady, Updating, UpdatePcs
  <2> QED BY <2>2, <2>3, <2>5, <2>6, <2>7 DEF FollowedBy, Reached, Serving, row
<1>2. CASE Register(c)
  <2>1. /\ op[c].pc = "register" /\ running' = op[c].rp /\ op'[c] = [op[c] EXCEPT !.pc = "recheck"]
        /\ UNCHANGED <<row, proc, task, dir, stopCh, watch, beat>>
    BY <1>2, GotoIs DEF Register
  <2>2. op[c].rp \in Procs /\ proc[op[c].rp] = "up" /\ op[c].rp # None
    BY <1>0, <2>1, BoundAssumption DEF TrackInv, HandshakeHeld, InHandshake, Steady, Procs
  <2>3. op'[c].pc = "recheck" /\ op'[c].kind = op[c].kind BY <1>0, <2>1 DEF OpType
  <2>4. running = None BY <2>1 DEF LockInv, EmptiedStaysEmpty, Emptied, InStart
  <2>5. AllUp' /\ Unmoved' BY <1>0, <2>1, <2>2 DEF AllUp, Unmoved
  <2>6. Steady(c)' BY <2>3 DEF Steady, Updating, UpdatePcs
  <2>7. task # None => op[c].rp = task BY <2>1, <2>4 DEF FollowedBy, Reached
  <2> QED BY <2>1, <2>2, <2>5, <2>6, <2>7 DEF FollowedBy, row
<1>3. CASE StartOK(c)
  <2>1. /\ op[c].pc = "ok" /\ op' = [op EXCEPT ![c] = [@ EXCEPT !.pc = "probe", !.rp = None]]
        /\ watch' = [watch EXCEPT ![op[c].rp] = "poll"]
        /\ UNCHANGED <<installed, page, running, proc, task, dir, stopCh, beat>>
    BY <1>3 DEF StartOK
  <2>2. op'[c].pc = "probe" BY <1>0, <2>1 DEF OpType
  <2>3. AllUp' /\ Unmoved' BY <1>0, <2>1 DEF AllUp, Unmoved
  <2>4. Steady(c)' BY <2>2 DEF Steady, Updating, UpdatePcs
  <2> QED BY <2>1, <2>3, <2>4 DEF FollowedBy, Reached, Serving, UpdatePcs
<1> QED BY <1>1, <1>2, <1>3

LEMMA StopsFollow ==
  ASSUME Types, LaunchesSucceed, NEW c \in Callers, WantedBy(c), FollowedBy(c), StopStep(c)
  PROVE  FollowedBy(c)'
<1>0. /\ Steady(c) /\ Decided(c) /\ RunsWantedBy(c) /\ op \in [Threads -> OpType] /\ c \in Threads
      /\ AllUp /\ Unmoved /\ proc \in [Procs -> {"up", "hung", "dead"}]
      /\ op[c] \in OpType
  BY DEF FollowedBy, WantedBy, Types, RequestType, ProcType, Threads
<1>1. CASE Take(c)
  <2> DEFINE next == CASE op[c].kind = "disable"   -> "disabled"
                       [] op[c].kind = "update"    -> "fetch"
                       [] op[c].kind = "uninstall" -> "uninstalled"
                       [] OTHER                    -> "stopped"
  <2>1. /\ op[c].pc = "take" /\ running' = None /\ UNCHANGED <<row, proc, task, dir, stopCh, watch, beat>>
        /\ op' = [op EXCEPT ![c] = [@ EXCEPT !.pc = IF running = None THEN next ELSE "kill",
                                            !.rp = running, !.next = next]]
    BY <1>1 DEF Take
  <2>2. /\ next \in {"disabled", "fetch", "uninstalled", "stopped"} /\ (next = "fetch" => op[c].kind = "update")
    OBVIOUS
  <2> HIDE DEF next
  <2>3. /\ op'[c].pc = (IF running = None THEN next ELSE "kill")
        /\ op'[c].kind = op[c].kind /\ op'[c].flag = op[c].flag
    BY <1>0, <2>1 DEF OpType
  <2>4. AllUp' /\ Unmoved' BY <1>0, <2>1 DEF AllUp, Unmoved
  <2>5. op[c].kind = "update" => installed /\ (page => op[c].flag)
    <3>1. page => running # None BY <2>1 DEF FollowedBy, Serving, UpdatePcs
    <3>2. op[c].kind = "update" /\ running # None => op[c].flag
      BY <1>0, <2>1 DEF RunsWantedBy, Disabling, Decided
    <3>3. op[c].kind = "update" => installed BY <1>0, <2>1 DEF Steady, Updating
    <3> QED BY <3>1, <3>2, <3>3
  <2>6. Steady(c)' BY <2>1, <2>2, <2>3, <2>5 DEF Steady, Updating, UpdatePcs, row
  <2> QED BY <2>1, <2>2, <2>3, <2>4, <2>6 DEF FollowedBy, Reached, Serving, UpdatePcs, row
<1>2. CASE Kill(c)
  <2>1. /\ op[c].pc = "kill" /\ op'[c] = [op[c] EXCEPT !.pc = "untask"] /\ proc' = [proc EXCEPT ![op[c].rp] = "dead"]
        /\ UNCHANGED <<row, running, task, dir, stopCh, watch, beat>>
    BY <1>2, GotoIs DEF Kill
  <2>2. op'[c].pc = "untask" /\ op'[c].kind = op[c].kind /\ op'[c].flag = op[c].flag BY <1>0, <2>1 DEF OpType
  <2>3. running = None BY <1>0, <2>1 DEF Decided
  <2>4. AllUp' /\ Unmoved' BY <1>0, <2>1, <2>3 DEF AllUp, Unmoved
  <2>5. Steady(c)' BY <1>0, <2>1, <2>2 DEF Steady, Updating, UpdatePcs, row
  <2> QED BY <2>1, <2>2, <2>4, <2>5 DEF FollowedBy, Reached, Serving, row
<1>3. CASE RemoveTasks(c)
  <2>1. /\ op[c].pc = "untask" /\ op'[c] = [op[c] EXCEPT !.pc = op[c].next] /\ task' = None
        /\ UNCHANGED <<row, running, proc, dir, stopCh, watch, beat>>
    BY <1>3, GotoIs DEF RemoveTasks
  <2>2. op'[c].pc = op[c].next /\ op'[c].kind = op[c].kind /\ op'[c].flag = op[c].flag BY <1>0, <2>1 DEF OpType
  <2>3. \/ op[c].kind = "update" /\ op[c].next = "fetch"
        \/ op[c].kind # "update" /\ op[c].next \in {"disabled", "uninstalled"}
    BY <1>0, <2>1 DEF Decided
  <2>4. AllUp' /\ Unmoved' BY <1>0, <2>1 DEF AllUp, Unmoved
  <2>5. Steady(c)' BY <1>0, <2>1, <2>2, <2>3 DEF Steady, Updating, UpdatePcs, row
  <2>6. Serving(c)' /\ dir' BY <2>1, <2>2, <2>3 DEF Serving, UpdatePcs, FollowedBy
  <2> QED BY <2>1, <2>4, <2>5, <2>6 DEF FollowedBy
<1> QED BY <1>1, <1>2, <1>3 DEF StopStep

LEMMA RequestFollows ==
  ASSUME Types, LockInv, TrackInv, WantInv, FollowInv, LaunchesSucceed, NEW c \in Callers, RequestStep(c)
  PROVE  FollowInv'
<1>1. Alone(c) BY RequestsActAlone DEF TrackInv, WantInv
<1>2. WantedBy(c) /\ FollowedBy(c) BY <1>1, AloneSeen, FollowSeen
<1>3. ~LaunchFails(c) /\ ~InitFails(c) /\ ~RegisterStopped(c) /\ ~RecheckDrops(c) /\ ~Dropped(c) /\ ~Rollback(c)
      /\ ~SwapFails(c) /\ ~SwapInFails(c)
  <2>1. Decided(c) /\ Steady(c) /\ AllUp BY <1>2 DEF WantedBy, FollowedBy
  <2>2. ~LaunchFails(c) /\ ~SwapFails(c) /\ ~SwapInFails(c) BY DEF LaunchesSucceed, LaunchFails, SwapFails, SwapInFails
  <2>3. ~InitFails(c) BY <2>1 DEF LaunchesSucceed, InitFails, Decided, Steady
  <2>4. ~RegisterStopped(c) BY <2>1 DEF RegisterStopped, AllUp
  <2>5. ~RecheckDrops(c) BY <2>1 DEF RecheckDrops, Wanted, Decided
  <2>6. ~Dropped(c) /\ ~Rollback(c) BY <2>1 DEF Dropped, Rollback, Decided, Steady
  <2> QED BY <2>2, <2>3, <2>4, <2>5, <2>6
<1>4. FollowedBy(c)'
  <2>1. CASE StartStep(c)
    BY <1>2, <1>3, <2>1, StartsFollow, ProcessesFollow, ReturnsFollow DEF StartStep
  <2>2. CASE StopStep(c) BY <1>2, <2>2, StopsFollow
  <2>3. CASE UpdateStep(c) BY <1>2, <1>3, <2>3, UpdateFollows, ReturnsFollow DEF UpdateStep
  <2>4. CASE ~(StartStep(c) \/ StopStep(c) \/ UpdateStep(c))
    BY <1>2, <2>4, StartsFollow, ReturnsFollow, InstallsFollow DEF RequestStep
  <2> QED BY <2>1, <2>2, <2>3, <2>4
<1> QED BY <1>1, <1>4, FollowSuffices

(* Arrivals, the process and its monitors.                                 *)
LEMMA ArrivalFollows ==
  ASSUME Types, FollowInv, NEW c \in Callers, NEW k \in Kinds, Request(c, k)
  PROVE  FollowInv'
<1>1. /\ op[c].pc = "idle" /\ \A d \in Callers \ {c} : op'[d] = op[d]
      /\ UNCHANGED <<row, running, proc, task, dir, stopCh, watch, beat>>
  BY DEF Request, Types, RequestType, Threads
<1>2. op'[c].pc = "begin" BY DEF Request, IdleOp, Types, RequestType, Threads
<1>3. AllUp' /\ Unmoved' BY <1>1 DEF FollowInv, AllUp, Unmoved
<1>4. \A d \in Callers : (d = c /\ ~Reached(d) /\ ~Serving(d) /\ op[d].pc # "swapped") \/ op'[d] = op[d]
  BY <1>1 DEF Reached, Serving, UpdatePcs
<1>5. InPlace' BY <1>1, <1>4 DEF FollowInv, InPlace
<1>6. TaskFollows' BY <1>1, <1>4 DEF FollowInv, TaskFollows, Reached
<1>7. PageFollows' BY <1>1, <1>4 DEF FollowInv, PageFollows, Serving, row
<1>8. \A d \in Callers : Steady(d)'
  <2> TAKE d \in Callers
  <2>1. CASE d = c BY <1>2, <2>1 DEF Steady, Updating, UpdatePcs
  <2>2. CASE d # c BY <1>1, <2>2 DEF FollowInv, Steady, Updating, row
  <2> QED BY <2>1, <2>2
<1> QED BY <1>3, <1>5, <1>6, <1>7, <1>8 DEF FollowInv

LEMMA MonitorsFollow ==
  ASSUME FollowInv, UNCHANGED <<installed, page, running, proc, task, dir, stopCh, op>>, Unmoved'
  PROVE  FollowInv'
<1>1. AllUp' BY DEF FollowInv, AllUp
<1>2. InPlace' /\ TaskFollows' /\ PageFollows'
  BY DEF FollowInv, InPlace, TaskFollows, PageFollows, Reached, Serving
<1>3. \A c \in Callers : Steady(c)' BY DEF FollowInv, Steady, Updating
<1> QED BY <1>1, <1>2, <1>3 DEF FollowInv

LEMMA ProcessFollows ==
  ASSUME Types, TrackInv, FollowInv, NEW p \in Procs, RegisterSchedule(p) \/ WatchStep(p)
  PROVE  FollowInv'
<1>0. AllUp /\ Unmoved BY DEF FollowInv
<1>1. CASE RegisterSchedule(p)
  <2>1. proc[p] = "up" /\ task' = p /\ UNCHANGED <<row, running, proc, dir, stopCh, watch, beat, op>>
    BY <1>1 DEF RegisterSchedule
  <2>2. running = p \/ \E c \in Callers : Reached(c)'
    <3>1. op[Main].pc = "idle" /\ beat.pc # "kill" BY <1>0 DEF AllUp, Unmoved, TrackInv, StopOrder
    <3>2. \/ running = p
          \/ \E c \in Callers : op[c].pc = "kill" \/ (op[c].pc \in {"init", "register"} /\ op[c].rp = p)
      BY <2>1, <3>1 DEF TrackInv, LiveIsTracked, Doomed, Threads
    <3> QED BY <2>1, <3>2 DEF Reached
  <2>3. AllUp' /\ Unmoved' BY <1>0, <2>1 DEF AllUp, Unmoved
  <2>4. InPlace' /\ PageFollows' BY <2>1 DEF FollowInv, InPlace, PageFollows, Serving, row
  <2>5. TaskFollows' BY <2>1, <2>2 DEF TaskFollows
  <2>6. \A c \in Callers : Steady(c)' BY <2>1 DEF FollowInv, Steady, Updating, row
  <2> QED BY <2>3, <2>4, <2>5, <2>6 DEF FollowInv
<1>2. CASE WatchStep(p)
  <2>1. WatchExit(p) BY <1>0, <1>2 DEF WatchStep, WatchMark, WatchUntask, Unmoved
  <2>2. watch[p] = "poll" /\ proc[p] = "dead" BY <2>1 DEF WatchExit
  <2>3. running = None BY <1>0, <2>2 DEF AllUp, TrackInv, PollsRegistered
  <2>4. /\ watch' = [watch EXCEPT ![p] = "none"]
        /\ UNCHANGED <<installed, page, running, proc, task, dir, stopCh, beat, op>>
    BY <2>1, <2>3 DEF WatchExit, row
  <2>5. Unmoved' BY <1>0, <2>4 DEF Unmoved, Types, ProcType
  <2> QED BY <2>4, <2>5, MonitorsFollow
<1> QED BY <1>1, <1>2

LEMMA BeatFollows ==
  ASSUME Types, TrackInv, FollowInv, BeatSnapshot \/ BeatStep
  PROVE  FollowInv'
<1>0. AllUp /\ Unmoved BY DEF FollowInv
<1>1. BeatSnapshot \/ BeatPing \/ BeatDrop BY <1>0 DEF BeatStep, BeatKill, BeatUntask, Unmoved
<1>2. UNCHANGED <<row, running, proc, task, dir, stopCh, watch, op>> /\ Unmoved'
  <2>1. CASE BeatSnapshot
    <3>1. running \in Procs BY <2>1 DEF BeatSnapshot, Types, MapType, ProcOrNone
    <3> QED BY <1>0, <2>1, <3>1 DEF BeatSnapshot, Unmoved
  <2>2. CASE BeatPing
    <3>1. beat.rp \in Procs /\ proc[beat.rp] \in {"up", "dead"}
      BY <1>0, <2>2 DEF BeatPing, Unmoved, AllUp, Types, ProcType
    <3>2. beat' = IdleBeat \/ (beat' = [beat EXCEPT !.pc = "drop"] /\ proc[beat.rp] = "dead")
      BY <2>2, <3>1 DEF BeatPing
    <3>3. beat'.pc = "idle" \/ (beat'.pc = "drop" /\ beat'.rp = beat.rp /\ proc[beat.rp] = "dead")
      BY <3>2 DEF IdleBeat, Types, ProcType
    <3> QED BY <1>0, <2>2, <3>1, <3>3 DEF BeatPing, Unmoved
  <2>3. CASE BeatDrop
    <3>1. proc[beat.rp] = "dead" /\ running \in {None, beat.rp}
      BY <1>0, <2>3 DEF BeatDrop, Unmoved, TrackInv, BeatsRegistered
    <3>2. running = None BY <1>0, <3>1 DEF AllUp
    <3> QED BY <1>0, <2>3, <3>2 DEF BeatDrop, Unmoved, IdleBeat
  <2> QED BY <1>1, <2>1, <2>2, <2>3
<1> QED BY <1>2, MonitorsFollow DEF row

LEMMA CalmStepKeepsWant ==
  ASSUME Types, LockInv, TrackInv, WantInv, Next, ~Accident
  PROVE  WantInv'
<1>1. ASSUME NEW c \in Callers, RequestStep(c) PROVE WantInv' BY <1>1, RequestKeepsWant
<1>2. ASSUME NEW c \in Callers, NEW k \in Kinds, Request(c, k) PROVE WantInv' BY <1>2, ArrivalKeepsWant
<1>3. CASE Shutdown \/ MainStep BY <1>3, MainKeepsWant
<1>4. ASSUME NEW p \in Procs, Fail(p) \/ RegisterSchedule(p) \/ WatchStep(p) PROVE WantInv'
  BY <1>4, ProcessKeepsWant
<1>5. CASE BeatSnapshot \/ BeatStep BY <1>5, BeatKeepsWant
<1> QED BY <1>1, <1>2, <1>3, <1>4, <1>5 DEF Next, Accident

LEMMA CalmStepFollows ==
  ASSUME Types, LockInv, TrackInv, WantInv, FollowInv, LaunchesSucceed, Next, ~Accident, ~stopCh'
  PROVE  FollowInv'
<1>1. ASSUME NEW c \in Callers, RequestStep(c) PROVE FollowInv' BY <1>1, RequestFollows
<1>2. ASSUME NEW c \in Callers, NEW k \in Kinds, Request(c, k) PROVE FollowInv' BY <1>2, ArrivalFollows
<1>3. ~Shutdown /\ ~MainStep
  <2>1. op[Main].pc = "idle" BY DEF FollowInv, AllUp, TrackInv, StopOrder
  <2> QED BY <2>1 DEF Shutdown, MainStep, Stopped, StopStep, Take, Kill, RemoveTasks
<1>4. ASSUME NEW p \in Procs, RegisterSchedule(p) \/ WatchStep(p) PROVE FollowInv' BY <1>4, ProcessFollows
<1>5. CASE BeatSnapshot \/ BeatStep BY <1>5, BeatFollows
<1> QED BY <1>1, <1>2, <1>3, <1>4, <1>5 DEF Next, Accident

LEMMA CalmStutters ==
  ASSUME WantInv, FollowInv, UNCHANGED vars
  PROVE  WantInv' /\ FollowInv'
<1>1. /\ \A c \in Callers : op'[c] = op[c]
      /\ UNCHANGED <<installed, enabled, status, page, running, proc, task, dir, stopCh, watch, beat, op>>
  BY DEF vars
<1>2. Unmoved' BY <1>1 DEF FollowInv, Unmoved
<1> QED BY <1>1, <1>2, MonitorsKeepWant, MonitorsFollow DEF Missing, Noticed

(* When no process crashes, no client leaves and launches and swaps        *)
(* succeed, schedules and the data page follow the process of the plugin   *)
(* (removePluginTasks, SetHasPage), for any requests that overlap, failing *)
(* downloads and a heartbeat that lags.                                    *)
THEOREM ScheduleAndPageFollow ==
  ASSUME LaunchesSucceed
  PROVE  LiveSpec => []FollowsInCalm
<1> DEFINE Calmly == calm => WantInv /\ FollowInv
<1>1. Init => Types /\ LockInv /\ TrackInv /\ Calmly
  BY InitTypes, InitLocks, InitTracks, InitWants, InitFollows
<1>2. ASSUME Types, LockInv, TrackInv, Calmly, [LiveNext]_<<vars, calm>>
      PROVE  (Types /\ LockInv /\ TrackInv /\ Calmly)'
  <2>1. [Next]_vars BY <1>2 DEF LiveNext, Disturbed, Undisturbed
  <2>2. Types' /\ LockInv' /\ TrackInv'
    BY <1>2, <2>1, StepKeepsTypes, StepKeepsLockInv, StepKeepsTrack DEF LaunchesSucceed
  <2>3. ASSUME calm' PROVE (WantInv /\ FollowInv)'
    <3>1. CASE Undisturbed BY <1>2, <2>1, <3>1, CalmStepKeepsWant, CalmStepFollows DEF Undisturbed
    <3>2. CASE UNCHANGED <<vars, calm>>
      <4>1. calm /\ WantInv /\ FollowInv BY <1>2, <2>3, <3>2
      <4> QED BY <3>2, <4>1, CalmStutters DEF vars
    <3> QED BY <1>2, <2>3, <3>1, <3>2 DEF LiveNext, Disturbed
  <2> QED BY <2>2, <2>3
<1>3. WantInv /\ FollowInv => FollowsTheProcess
  BY DEF FollowInv, TaskFollows, PageFollows, Reached, Serving, UpdatePcs, FollowsTheProcess, TasksReachProcess,
         PageOnlyIfRunning, Quiet, Idle, Threads
<1>4. Calmly => FollowsInCalm BY <1>3 DEF FollowsInCalm
<1> HIDE DEF Calmly
<1> QED BY <1>1, <1>2, <1>4, PTL DEF LiveSpec
=============================================================================
