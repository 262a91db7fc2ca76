--------------------------- MODULE PluginManager ---------------------------
(***************************************************************************)
(* The lifecycle of ONE plugin in internal/plugin: manager.go (start,      *)
(* watchExit, heartbeat, stopPlugin, SetEnabled, Install, Uninstall, Stop) *)
(* and the update flow of market.go.  Plugins share nothing but Stop, so   *)
(* one plugin is the whole of the protocol.                                *)
(*                                                                         *)
(* A request is a goroutine: it advances one shared access at a time (a    *)
(* critical section of m.mu, a database statement, an RPC, a rename), and  *)
(* requests, process monitors and the plugin process itself interleave in  *)
(* between.                                                                *)
(***************************************************************************)
EXTENDS Naturals, FiniteSets

CONSTANTS
    Callers,    \* goroutines that serve admin requests
    Main,       \* the goroutine of server.Start, which shuts the manager down
    MaxProcs,   \* bound: plugin processes that may be referenced at one time
    Kinds,      \* the requests the environment makes
    Faults,     \* what may go wrong; see FaultNames
    Heartbeat,  \* whether heartbeatLoop is running
    None

(* "crash"/"hang": the plugin process dies or stops answering.  "launch",  *)
(* "init": the handshake or the Init RPC fails.  "fetch", "swap": the      *)
(* download or the directory swap of an update fails.  "disconnect": the   *)
(* HTTP client goes away, so r.Context() is cancelled and every later      *)
(* database write of the request fails.  "slow": a process monitor may be  *)
(* slower than the next launch.  "unlocked": Install and Uninstall, which  *)
(* do not take the plugin lock, may overlap the other requests.            *)
FaultNames == {"crash", "hang", "launch", "init", "fetch", "swap",
               "disconnect", "slow", "unlocked"}
KindNames  == {"enable", "disable", "update", "uninstall", "install", "shutdown"}

ASSUME CallersAssumption == Main \notin Callers /\ None \notin Callers \cup {Main}
ASSUME BoundAssumption == MaxProcs \in Nat \ {0} /\ None \notin 1..MaxProcs
ASSUME ChoiceAssumption ==
    Kinds \subseteq KindNames /\ Faults \subseteq FaultNames /\ Heartbeat \in BOOLEAN

Procs   == 1..MaxProcs
Threads == Callers \cup {Main}

VARIABLES
    installed, enabled, status, page,   \* the plugin_instances row
    running,    \* Manager.running[id]: the registered process, or None
    proc,       \* what each process is: "up", "hung" or "dead"
    task,       \* the process the registered schedule calls back into, or None
    dir,        \* whether the plugin directory is in its place
    lock,       \* holder of pluginLock(id)
    stopCh,     \* whether Stop closed stopCh
    watch,      \* the watchExit goroutine of each process
    beat,       \* the heartbeat goroutine
    op          \* one record per request

row  == <<installed, enabled, status, page>>
vars == <<installed, enabled, status, page, running, proc, task, dir, lock,
          stopCh, watch, beat, op>>

IdleOp   == [pc |-> "idle", kind |-> None, rp |-> None, next |-> "idle",
             flag |-> FALSE, ctx |-> TRUE]
IdleBeat == [pc |-> "idle", rp |-> None]

(* A process number nothing refers to any more stands for a new process.   *)
Referenced(p) == \/ proc[p] # "dead" \/ watch[p] # "none"
                 \/ running = p \/ task = p \/ beat.rp = p
                 \/ \E c \in Threads : op[c].rp = p

Idle      == \A c \in Threads : op[c].pc = "idle"
Monitored == beat.pc # "idle" \/ \E p \in Procs : watch[p] \in {"mark", "untask"}
Quiet     == Idle /\ ~Monitored

---------------------------------------------------------------------------
(* The state Manager.Start leaves, which has returned before HTTP listens. *)

Started(p, ok) ==
    /\ running = IF ok THEN p ELSE None
    /\ proc = [q \in Procs |-> IF ok /\ q = p THEN "up" ELSE "dead"]
    /\ watch = [q \in Procs |-> IF ok /\ q = p THEN "poll" ELSE "none"]

Init ==
    /\ installed \in BOOLEAN /\ enabled \in BOOLEAN
    /\ page = FALSE /\ task = None /\ dir = TRUE
    /\ lock = None /\ stopCh = FALSE
    /\ beat = IdleBeat
    /\ op = [c \in Threads |-> IdleOp]
    /\ \/ /\ installed /\ enabled
          /\ Started(1, TRUE) /\ status = "ok"
       \/ /\ installed /\ enabled
          /\ Started(1, FALSE) /\ status = "error"
       \/ /\ ~(installed /\ enabled)
          /\ Started(1, FALSE) /\ status = IF installed THEN "disabled" ELSE "stopped"

---------------------------------------------------------------------------
(* Requests.  requireInstalled filters enable and disable on arrival.      *)

Exclusive == {"install", "uninstall"}

Request(c, k) ==
    /\ op[c].pc = "idle" /\ k \in Kinds \ {"shutdown"} /\ ~stopCh
    /\ k \in {"enable", "disable"} => installed
    /\ "unlocked" \notin Faults =>
         \A d \in Callers : op[d].pc = "idle" \/ {k, op[d].kind} \cap Exclusive = {}
    /\ op' = [op EXCEPT ![c] = [IdleOp EXCEPT !.pc = "begin", !.kind = k]]
    /\ UNCHANGED <<row, running, proc, task, dir, lock, stopCh, watch, beat>>

Disconnect(c) ==
    /\ "disconnect" \in Faults
    /\ op[c].pc \notin {"idle", "begin"} /\ op[c].ctx
    /\ op' = [op EXCEPT ![c].ctx = FALSE]
    /\ UNCHANGED <<row, running, proc, task, dir, lock, stopCh, watch, beat>>

Goto(c, pc) == op' = [op EXCEPT ![c].pc = pc]

(* Mutant: an early return forgets the lock.                               *)
ReturnLocked(c) ==
    /\ op' = [op EXCEPT ![c] = IdleOp]
    /\ lock' = lock
(* Unlocks on the way out (defer lk.Unlock()).                             *)
Return(c) ==
    /\ op' = [op EXCEPT ![c] = IdleOp]
    /\ lock' = IF lock = c THEN None ELSE lock

(* A write through the request's context: lost once the client is gone.    *)
Write(c, col, value) == IF op[c].ctx THEN value ELSE col

(* Mutant: SetEnabled and UpdatePlugin run without the plugin lock.        *)
AcquireNothing(c) == lock' = lock
(* lk.Lock() of SetEnabled and UpdatePlugin.                               *)
Acquire(c) == lock = None /\ lock' = c

(* SetEnabled: the flag is persisted first, under the lock.                *)
BeginSetEnabled(c) ==
    /\ op[c].pc = "begin" /\ op[c].kind \in {"enable", "disable"}
    /\ Acquire(c)
    /\ enabled' = (op[c].kind = "enable")
    /\ Goto(c, IF op[c].kind = "enable" THEN "check" ELSE "take")
    /\ UNCHANGED <<installed, status, page, running, proc, task, dir, stopCh, watch, beat>>

(* Mutant: enabling a running plugin counts as a failure and rolls back.   *)
EnableReturnsRolledBack(c) ==
    /\ op[c].pc = "check"
    /\ running # None \/ ~op[c].ctx \/ ~installed
    /\ enabled' = FALSE
    /\ Return(c)
    /\ UNCHANGED <<installed, status, page, running, proc, task, dir, stopCh, watch, beat>>

(* Enabling returns when the plugin is running already, when the state     *)
(* cannot be read and when it is not installed: none of these roll back.   *)
EnableReturns(c) ==
    /\ op[c].pc = "check"
    /\ running # None \/ ~op[c].ctx \/ ~installed
    /\ Return(c)
    /\ UNCHANGED <<row, running, proc, task, dir, stopCh, watch, beat>>

EnableStarts(c) ==
    /\ op[c].pc = "check"
    /\ running = None /\ op[c].ctx /\ installed
    /\ Goto(c, IF dir THEN "launch" ELSE "rollback")
    /\ UNCHANGED <<row, running, proc, task, dir, lock, stopCh, watch, beat>>

---------------------------------------------------------------------------
(* start().                                                                *)

MonitorsDone == /\ beat.pc = "idle"
                /\ \A p \in Procs : proc[p] = "dead" => watch[p] = "none"

LaunchFails(c) ==
    /\ "launch" \in Faults /\ op[c].pc = "launch"
    /\ Goto(c, "rollback")
    /\ UNCHANGED <<row, running, proc, task, dir, lock, stopCh, watch, beat>>

Launch(c) ==
    /\ op[c].pc = "launch"
    /\ "slow" \in Faults \/ MonitorsDone
    /\ \E p \in Procs :
         /\ ~Referenced(p) /\ \A q \in 1..p-1 : Referenced(q)
         /\ proc' = [proc EXCEPT ![p] = "up"]
         /\ op' = [op EXCEPT ![c] = [@ EXCEPT !.pc = "init", !.rp = p]]
    /\ UNCHANGED <<row, running, task, dir, lock, stopCh, watch, beat>>

InitOK(c) ==
    /\ op[c].pc = "init" /\ op[c].ctx /\ proc[op[c].rp] = "up"
    /\ Goto(c, "register")
    /\ UNCHANGED <<row, running, proc, task, dir, lock, stopCh, watch, beat>>

(* client.Kill() and an error: what the plugin registered stays.           *)
InitFails(c) ==
    /\ op[c].pc = "init"
    /\ "init" \in Faults \/ ~op[c].ctx \/ proc[op[c].rp] # "up"
    /\ proc' = [proc EXCEPT ![op[c].rp] = "dead"]
    /\ op' = [op EXCEPT ![c] = [@ EXCEPT !.pc = "rollback", !.rp = None]]
    /\ UNCHANGED <<row, running, task, dir, lock, stopCh, watch, beat>>

(* Mutant: the running entry is written without looking at stopCh.         *)
RegisterUnchecked(c) ==
    /\ op[c].pc = "register"
    /\ running' = op[c].rp /\ Goto(c, "recheck")
    /\ UNCHANGED <<row, proc, task, dir, lock, stopCh, watch, beat>>

Register(c) ==
    /\ op[c].pc = "register" /\ ~stopCh
    /\ running' = op[c].rp /\ Goto(c, "recheck")
    /\ UNCHANGED <<row, proc, task, dir, lock, stopCh, watch, beat>>

RegisterStopped(c) ==
    /\ op[c].pc = "register" /\ stopCh
    /\ proc' = [proc EXCEPT ![op[c].rp] = "dead"]
    /\ op' = [op EXCEPT ![c] = [@ EXCEPT !.pc = "rollback", !.rp = None]]
    /\ UNCHANGED <<row, running, task, dir, lock, stopCh, watch, beat>>

(* The re-check reads the row; a failed read counts as wanted.             *)
Wanted(c) == ~op[c].ctx \/ (installed /\ enabled)

RecheckKeeps(c) ==
    /\ op[c].pc = "recheck" /\ Wanted(c)
    /\ Goto(c, "ok")
    /\ UNCHANGED <<row, running, proc, task, dir, lock, stopCh, watch, beat>>

RecheckDrops(c) ==
    /\ op[c].pc = "recheck" /\ ~Wanted(c)
    /\ running' = None
    /\ op' = [op EXCEPT ![c] = [@ EXCEPT !.pc = "kill", !.next = "dropped", !.flag = installed]]
    /\ UNCHANGED <<row, proc, task, dir, lock, stopCh, watch, beat>>

Dropped(c) ==
    /\ op[c].pc = "dropped"
    /\ page' = Write(c, page, FALSE)
    /\ status' = IF op[c].flag THEN Write(c, status, "disabled") ELSE status
    /\ Goto(c, "probe")
    /\ UNCHANGED <<installed, enabled, running, proc, task, dir, lock, stopCh, watch, beat>>

(* UpdateStatus(ok), then go watchExit(name, rp).                          *)
StartOK(c) ==
    /\ op[c].pc = "ok"
    /\ status' = Write(c, status, "ok")
    /\ watch' = [watch EXCEPT ![op[c].rp] = "poll"]
    /\ op' = [op EXCEPT ![c] = [@ EXCEPT !.pc = "probe", !.rp = None]]
    /\ UNCHANGED <<installed, enabled, page, running, proc, task, dir, lock, stopCh, beat>>

(* refreshHasPage: GetPage answers "" when nothing is running and fails    *)
(* when the process does not answer; then SetHasPage.                      *)
Probe(c) ==
    /\ op[c].pc = "probe"
    /\ IF op[c].ctx /\ (running # None => proc[running] = "up")
       THEN \E hasPage \in (IF running = None THEN {FALSE} ELSE BOOLEAN) :
              op' = [op EXCEPT ![c] = [@ EXCEPT !.pc = "paged", !.flag = hasPage]] /\ UNCHANGED lock
       ELSE Return(c)
    /\ UNCHANGED <<row, running, proc, task, dir, stopCh, watch, beat>>

Paged(c) ==
    /\ op[c].pc = "paged"
    /\ page' = Write(c, page, op[c].flag)
    /\ Return(c)
    /\ UNCHANGED <<installed, enabled, status, running, proc, task, dir, stopCh, watch, beat>>

(* Mutant: a failed start leaves the enabled flag set.                     *)
RollbackNothing(c) ==
    /\ op[c].pc = "rollback"
    /\ Return(c)
    /\ UNCHANGED <<row, running, proc, task, dir, stopCh, watch, beat>>

(* A failed start rolls the flag back and records the error; both writes   *)
(* go through the request's context and their errors are dropped.          *)
Rollback(c) ==
    /\ op[c].pc = "rollback"
    /\ enabled' = Write(c, enabled, FALSE)
    /\ status' = Write(c, status, "error")
    /\ Return(c)
    /\ UNCHANGED <<installed, page, running, proc, task, dir, stopCh, watch, beat>>

---------------------------------------------------------------------------
(* stopPlugin(rp), reached by whoever took rp out of the running map.      *)

Take(c) ==
    /\ op[c].pc = "take"
    /\ LET next == CASE op[c].kind = "disable"   -> "disabled"
                     [] op[c].kind = "update"    -> "fetch"
                     [] op[c].kind = "uninstall" -> "uninstalled"
                     [] OTHER                    -> "stopped"
       IN op' = [op EXCEPT ![c] = [@ EXCEPT !.pc = IF running = None THEN next ELSE "kill",
                                       !.rp = running, !.next = next]]
    /\ running' = None
    /\ UNCHANGED <<row, proc, task, dir, lock, stopCh, watch, beat>>

(* Mutant: Kill is skipped, as if the Shutdown RPC always sufficed.        *)
KillGracefully(c) ==
    /\ op[c].pc = "kill"
    /\ Goto(c, "untask")
    /\ UNCHANGED <<row, running, proc, task, dir, lock, stopCh, watch, beat>>

(* Shutdown RPC, bounded wait, Kill: dead whatever the plugin does.        *)
Kill(c) ==
    /\ op[c].pc = "kill"
    /\ proc' = [proc EXCEPT ![op[c].rp] = "dead"]
    /\ Goto(c, "untask")
    /\ UNCHANGED <<row, running, task, dir, lock, stopCh, watch, beat>>

(* Mutant: the schedules are left in the scheduler.                        *)
RemoveNothing(c) ==
    /\ op[c].pc = "untask"
    /\ Goto(c, op[c].next)
    /\ UNCHANGED <<row, running, proc, task, dir, lock, stopCh, watch, beat>>

(* removePluginTasks selects by plugin, not by process.                    *)
RemoveTasks(c) ==
    /\ op[c].pc = "untask"
    /\ task' = None
    /\ Goto(c, op[c].next)
    /\ UNCHANGED <<row, running, proc, dir, lock, stopCh, watch, beat>>

Disabled(c) ==
    /\ op[c].pc = "disabled"
    /\ status' = IF op[c].rp # None THEN Write(c, status, "disabled") ELSE status
    /\ page' = Write(c, page, FALSE)
    /\ Return(c)
    /\ UNCHANGED <<installed, enabled, running, proc, task, dir, stopCh, watch, beat>>

---------------------------------------------------------------------------
(* Install and Uninstall do not take the plugin lock.                      *)

BeginUninstall(c) ==
    /\ op[c].pc = "begin" /\ op[c].kind = "uninstall"
    /\ Goto(c, "take")
    /\ UNCHANGED <<row, running, proc, task, dir, lock, stopCh, watch, beat>>

Uninstalled(c) ==
    /\ op[c].pc = "uninstalled"
    /\ page' = Write(c, page, FALSE)
    /\ status' = Write(c, status, "stopped")
    /\ Goto(c, "forget")
    /\ UNCHANGED <<installed, enabled, running, proc, task, dir, lock, stopCh, watch, beat>>

Forget(c) ==
    /\ op[c].pc = "forget"
    /\ installed' = Write(c, installed, FALSE)
    /\ Return(c)
    /\ UNCHANGED <<enabled, status, page, running, proc, task, dir, stopCh, watch, beat>>

(* Refused when already installed or when the manifest is missing.         *)
BeginInstall(c) ==
    /\ op[c].pc = "begin" /\ op[c].kind = "install"
    /\ IF installed \/ ~dir
       THEN Return(c) /\ UNCHANGED installed
       ELSE installed' = TRUE /\ Goto(c, "install") /\ UNCHANGED lock
    /\ UNCHANGED <<enabled, status, page, running, proc, task, dir, stopCh, watch, beat>>

Install(c) ==
    /\ op[c].pc = "install"
    /\ enabled' = Write(c, enabled, FALSE)
    /\ status' = Write(c, status, "disabled")
    /\ Return(c)
    /\ UNCHANGED <<installed, page, running, proc, task, dir, stopCh, watch, beat>>

---------------------------------------------------------------------------
(* Market.UpdatePlugin: everything under the lock; the enabled flag it     *)
(* restarts by is the one it read first.                                   *)

BeginUpdate(c) ==
    /\ op[c].pc = "begin" /\ op[c].kind = "update"
    /\ Acquire(c)
    /\ op' = [op EXCEPT ![c] = [@ EXCEPT !.pc = IF installed THEN "take" ELSE "refuse",
                                    !.flag = enabled]]
    /\ UNCHANGED <<row, running, proc, task, dir, stopCh, watch, beat>>

(* Not installed, no source repository, or up to date.                     *)
UpdateRefused(c) ==
    /\ op[c].kind = "update"
    /\ op[c].pc = "refuse" \/ op[c].pc = "take"
    /\ Return(c)
    /\ UNCHANGED <<row, running, proc, task, dir, stopCh, watch, beat>>

Fetch(c) ==
    /\ op[c].pc = "fetch"
    /\ Goto(c, "swap")
    /\ UNCHANGED <<row, running, proc, task, dir, lock, stopCh, watch, beat>>

FetchFails(c) ==
    /\ op[c].pc = "fetch"
    /\ "fetch" \in Faults \/ ~op[c].ctx
    /\ Goto(c, "restart")
    /\ UNCHANGED <<row, running, proc, task, dir, lock, stopCh, watch, beat>>

(* swapPluginDir: the old directory moves away, the new one moves in.      *)
SwapOut(c) ==
    /\ op[c].pc = "swap" /\ dir
    /\ dir' = FALSE
    /\ Goto(c, "swapped")
    /\ UNCHANGED <<row, running, proc, task, lock, stopCh, watch, beat>>

(* Moving the old directory away fails, or there is none.                  *)
SwapFails(c) ==
    /\ op[c].pc = "swap" /\ "swap" \in Faults
    /\ Goto(c, "restart")
    /\ UNCHANGED <<row, running, proc, task, dir, lock, stopCh, watch, beat>>

SwapIn(c) ==
    /\ op[c].pc = "swapped"
    /\ dir' = TRUE
    /\ Goto(c, "ensure")
    /\ UNCHANGED <<row, running, proc, task, lock, stopCh, watch, beat>>

(* A failed second rename is undone; when undoing fails too the plugin     *)
(* is left without a directory.                                            *)
SwapInFails(c) ==
    /\ op[c].pc = "swapped" /\ "swap" \in Faults
    /\ dir' \in BOOLEAN
    /\ Goto(c, "restart")
    /\ UNCHANGED <<row, running, proc, task, lock, stopCh, watch, beat>>

(* restartPlugin after a failure, ensureRunning after the swap.            *)
RestartNothing(c) ==
    /\ op[c].pc \in {"restart", "ensure"}
    /\ ~op[c].flag \/ ~op[c].ctx \/ ~installed
    /\ status' = IF op[c].pc = "ensure" /\ ~op[c].flag
                 THEN Write(c, status, "disabled") ELSE status
    /\ Return(c)
    /\ UNCHANGED <<installed, enabled, page, running, proc, task, dir, stopCh, watch, beat>>

Restart(c) ==
    /\ op[c].pc \in {"restart", "ensure"}
    /\ op[c].flag /\ op[c].ctx /\ installed
    /\ op' = [op EXCEPT ![c] = [@ EXCEPT !.pc = IF dir THEN "launch" ELSE "rollback", !.rp = None]]
    /\ UNCHANGED <<row, running, proc, task, dir, lock, stopCh, watch, beat>>

---------------------------------------------------------------------------
(* Stop.  It closes stopCh BEFORE it snapshots the running map.            *)

Shutdown ==
    /\ "shutdown" \in Kinds /\ ~stopCh
    /\ stopCh' = TRUE
    /\ op' = [op EXCEPT ![Main] = [IdleOp EXCEPT !.pc = "take", !.kind = "shutdown"]]
    /\ UNCHANGED <<row, running, proc, task, dir, lock, watch, beat>>

Stopped ==
    /\ op[Main].pc = "stopped"
    /\ Return(Main)
    /\ UNCHANGED <<row, running, proc, task, dir, stopCh, watch, beat>>

---------------------------------------------------------------------------
(* The plugin process and its monitors.                                    *)

Fail(p) ==
    /\ proc[p] = "up"
    /\ \/ "crash" \in Faults /\ proc' = [proc EXCEPT ![p] = "dead"]
       \/ "hang" \in Faults /\ proc' = [proc EXCEPT ![p] = "hung"]
    /\ UNCHANGED <<row, running, task, dir, lock, stopCh, watch, beat, op>>

(* RegisterSchedule from the plugin, any time it is up.  A schedule that   *)
(* exists already is re-registered with the new process's client.          *)
RegisterSchedule(p) ==
    /\ proc[p] = "up" /\ task # p
    /\ task' = p
    /\ UNCHANGED <<row, running, proc, dir, lock, stopCh, watch, beat, op>>

(* Mutant: an exit is noticed but the running entry is kept.               *)
WatchKeepsEntry(p) ==
    /\ watch[p] = "poll" /\ proc[p] = "dead"
    /\ watch' = [watch EXCEPT ![p] = IF running = None THEN "none" ELSE "mark"]
    /\ UNCHANGED <<row, running, proc, task, dir, lock, stopCh, beat, op>>

(* watchExit: whatever is registered under the name is taken for rp.       *)
WatchExit(p) ==
    /\ watch[p] = "poll" /\ proc[p] = "dead"
    /\ running' = None
    /\ watch' = [watch EXCEPT ![p] = IF running = None THEN "none" ELSE "mark"]
    /\ UNCHANGED <<row, proc, task, dir, lock, stopCh, beat, op>>

(* Mutant: a status no reader of the row knows.                            *)
WatchMarkUnknown(p) ==
    /\ watch[p] = "mark"
    /\ status' = "exited" /\ page' = FALSE
    /\ watch' = [watch EXCEPT ![p] = "untask"]
    /\ UNCHANGED <<installed, enabled, running, proc, task, dir, lock, stopCh, beat, op>>

WatchMark(p) ==
    /\ watch[p] = "mark"
    /\ status' = "error" /\ page' = FALSE
    /\ watch' = [watch EXCEPT ![p] = "untask"]
    /\ UNCHANGED <<installed, enabled, running, proc, task, dir, lock, stopCh, beat, op>>

WatchUntask(p) ==
    /\ watch[p] = "untask"
    /\ task' = None
    /\ watch' = [watch EXCEPT ![p] = "none"]
    /\ UNCHANGED <<row, running, proc, dir, lock, stopCh, beat, op>>

(* heartbeat: snapshot, ping outside the lock, then the same cleanup.      *)
Launching == \E c \in Callers : op[c].pc \in {"launch", "init", "register", "recheck", "ok"}

BeatSnapshot ==
    /\ Heartbeat /\ beat.pc = "idle" /\ running # None /\ ~stopCh
    /\ "slow" \in Faults \/ ~Launching
    /\ beat' = [pc |-> "ping", rp |-> running]
    /\ UNCHANGED <<row, running, proc, task, dir, lock, stopCh, watch, op>>

BeatPing ==
    /\ beat.pc = "ping"
    /\ beat' = IF proc[beat.rp] = "up" THEN IdleBeat ELSE [beat EXCEPT !.pc = "drop"]
    /\ UNCHANGED <<row, running, proc, task, dir, lock, stopCh, watch, op>>

BeatDrop ==
    /\ beat.pc = "drop"
    /\ running' = None
    /\ beat' = IF running = None THEN IdleBeat ELSE [beat EXCEPT !.pc = "kill"]
    /\ UNCHANGED <<row, proc, task, dir, lock, stopCh, watch, op>>

BeatKill ==
    /\ beat.pc = "kill"
    /\ proc' = [proc EXCEPT ![beat.rp] = "dead"]
    /\ status' = "error" /\ page' = FALSE
    /\ beat' = [beat EXCEPT !.pc = "untask"]
    /\ UNCHANGED <<installed, enabled, running, task, dir, lock, stopCh, watch, op>>

BeatUntask ==
    /\ beat.pc = "untask"
    /\ task' = None /\ beat' = IdleBeat
    /\ UNCHANGED <<row, running, proc, dir, lock, stopCh, watch, op>>

---------------------------------------------------------------------------
StartStep(c) ==
    \/ LaunchFails(c) \/ Launch(c) \/ InitOK(c) \/ InitFails(c)
    \/ Register(c) \/ RegisterStopped(c) \/ RecheckKeeps(c) \/ RecheckDrops(c)
    \/ Dropped(c) \/ StartOK(c) \/ Probe(c) \/ Paged(c) \/ Rollback(c)

StopStep(c) == Take(c) \/ Kill(c) \/ RemoveTasks(c)

UpdateStep(c) ==
    \/ BeginUpdate(c) \/ UpdateRefused(c) \/ Fetch(c) \/ FetchFails(c)
    \/ SwapOut(c) \/ SwapFails(c) \/ SwapIn(c) \/ SwapInFails(c)
    \/ RestartNothing(c) \/ Restart(c)

RequestStep(c) ==
    \/ BeginSetEnabled(c) \/ EnableReturns(c) \/ EnableStarts(c) \/ Disabled(c)
    \/ BeginUninstall(c) \/ Uninstalled(c) \/ Forget(c) \/ BeginInstall(c) \/ Install(c)
    \/ StartStep(c) \/ StopStep(c) \/ UpdateStep(c)

MainStep  == Stopped \/ StopStep(Main)
WatchStep(p) == WatchExit(p) \/ WatchMark(p) \/ WatchUntask(p)
BeatStep  == BeatPing \/ BeatDrop \/ BeatKill \/ BeatUntask

Next ==
    \/ \E c \in Callers : RequestStep(c) \/ Disconnect(c) \/ \E k \in Kinds : Request(c, k)
    \/ Shutdown \/ MainStep
    \/ \E p \in Procs : Fail(p) \/ RegisterSchedule(p) \/ WatchStep(p)
    \/ BeatSnapshot \/ BeatStep

(* Every goroutine keeps running: a mutex is handed over in finite time    *)
(* (Go's starvation mode), every RPC carries a deadline and Kill is        *)
(* forced.  Clients, faults and the plugin owe nothing.                    *)
Fairness ==
    /\ \A c \in Callers : WF_vars(RequestStep(c)) /\ SF_vars(BeginSetEnabled(c))
                          /\ SF_vars(BeginUpdate(c))
    /\ WF_vars(MainStep) /\ WF_vars(BeatStep)
    /\ \A p \in Procs : WF_vars(WatchStep(p))

Spec     == Init /\ [][Next]_vars
FairSpec == Spec /\ Fairness

---------------------------------------------------------------------------
(* The shape of the state: the row, the maps of the manager and the        *)
(* program counters of its goroutines.                                     *)
ProcOrNone == Procs \cup {None}
OpType == [pc : {"idle", "begin", "check", "launch", "init", "register", "recheck", "ok",
                 "dropped", "probe", "paged", "rollback", "take", "kill", "untask",
                 "disabled", "uninstalled", "forget", "install", "refuse", "fetch", "swap",
                 "swapped", "restart", "ensure", "stopped"},
           kind : KindNames \cup {None}, rp : ProcOrNone,
           next : {"idle", "dropped", "disabled", "fetch", "uninstalled", "stopped"},
           flag : BOOLEAN, ctx : BOOLEAN]
TypeOK ==
    /\ installed \in BOOLEAN /\ enabled \in BOOLEAN /\ page \in BOOLEAN
    /\ status \in {"ok", "error", "disabled", "stopped"}
    /\ running \in ProcOrNone /\ task \in ProcOrNone
    /\ proc \in [Procs -> {"up", "hung", "dead"}]
    /\ dir \in BOOLEAN /\ stopCh \in BOOLEAN
    /\ lock \in Callers \cup {None}
    /\ watch \in [Procs -> {"none", "poll", "mark", "untask"}]
    /\ beat \in [pc : {"idle", "ping", "drop", "kill", "untask"}, rp : ProcOrNone]
    /\ op \in [Threads -> OpType]

(* start() is entered by one goroutine at a time, never finds a registered *)
(* process (its "already running" and "already starting" answers cannot be *)
(* given to a holder of the plugin lock) and never runs while an update is *)
(* swapping the directory, in any environment: this rests on the lock and  *)
(* on nothing else.                                                        *)
InStart(c)  == op[c].pc \in {"launch", "init", "register"}
Swapping(c) == op[c].pc \in {"fetch", "swap", "swapped"}
LaunchUncontended ==
    \A c \in Callers : InStart(c) =>
        /\ running = None
        /\ \A d \in Callers \ {c} : ~InStart(d) /\ ~Swapping(d)

(* The inductive reason.  A request that is to hold the lock holds it from *)
(* its first step to its return; the steps of start and of an update are   *)
(* reached by such requests only; and between the moment one of them saw   *)
(* or made running empty and the moment it registers, it stays empty.      *)
LockedKinds == {"enable", "disable", "update"}
UnlockedPcs == {"idle", "begin", "take", "kill", "untask", "uninstalled", "forget",
                "install", "stopped"}
Emptied(c)  == \/ InStart(c) \/ Swapping(c) \/ op[c].pc \in {"restart", "ensure"}
               \/ op[c].pc \in {"kill", "untask"} /\ op[c].next = "fetch"

HoldersHold   == \A c \in Callers :
    op[c].kind \in LockedKinds /\ op[c].pc \notin {"idle", "begin"} => lock = c
KindsKept     == \A c \in Callers :
    /\ op[c].pc \notin UnlockedPcs => op[c].kind \in LockedKinds
    /\ op[c].pc \in {"kill", "untask"} =>
          \/ op[c].kind \in LockedKinds
          \/ op[c].kind = "uninstall" /\ op[c].next = "uninstalled"
    /\ op[c].pc = "take" => op[c].kind \in {"disable", "update", "uninstall"}
EmptiedStaysEmpty == \A c \in Callers : Emptied(c) => running = None
LockInv == HoldersHold /\ KindsKept /\ EmptiedStaysEmpty

(* A process somebody has taken out of the running map and will kill.      *)
Doomed(p) == \/ \E c \in Threads : op[c].pc = "kill" /\ op[c].rp = p
             \/ beat.pc = "kill" /\ beat.rp = p

(* "An update's directory swap can never race a restart of the old         *)
(* binary": while the directory is out of its place, a process of the      *)
(* plugin that is still alive is one that somebody is about to kill.       *)
SwapExclusive ==
    \A c \in Callers : op[c].pc = "swapped" =>
        \A p \in Procs : proc[p] # "dead" => Doomed(p)

(* A live process is the registered one, or in the hands of the goroutine  *)
(* that is launching or stopping it: none is ever lost track of, so no     *)
(* second copy of a plugin runs beside the one the manager knows.          *)
LiveIsTracked ==
    \A p \in Procs : proc[p] # "dead" =>
        \/ running = p \/ Doomed(p)
        \/ \E c \in Callers : op[c].pc \in {"init", "register"} /\ op[c].rp = p

(* Stop against a launch in its handshake window, "never both-miss": once  *)
(* Stop and the requests it overtook are done, the only process that can   *)
(* be alive is a hung one that the heartbeat took and is about to kill.    *)
StopLeavesNothing ==
    stopCh /\ Idle =>
        running = None /\ \A p \in Procs : proc[p] # "dead" => Doomed(p)

(* "The persisted state is authoritative": with no request in flight a     *)
(* registered process belongs to an installed and enabled plugin.          *)
RunsOnlyIfWanted == Idle /\ running # None => installed /\ enabled

(* The other way round: a plugin the admin sees enabled is running, or     *)
(* its row says why it is not.                                             *)
EnabledMeansRunning ==
    Quiet /\ ~stopCh /\ installed /\ enabled => running # None \/ status = "error"

(* A schedule in the scheduler calls back into the registered process,     *)
(* never into one that is gone.                                            *)
TasksReachProcess == Quiet /\ task # None => running = task

(* "A stopped plugin cannot serve its data page anymore."                  *)
PageOnlyIfRunning == Quiet /\ page => running # None

(* Schedules and the data page follow the process of the plugin (manager.go, *)
(* removePluginTasks, SetHasPage).                                          *)
FollowsTheProcess == TasksReachProcess /\ PageOnlyIfRunning

(* A process that dies under the manager is noticed, and every request     *)
(* comes to an end, so the plugin lock is not left behind.                 *)
ExitIsNoticed == \A p \in Procs :
    (running = p /\ proc[p] = "dead") ~> (running # p)
RequestsReturn == \A c \in Callers : (op[c].pc # "idle") ~> (op[c].pc = "idle")
=============================================================================
