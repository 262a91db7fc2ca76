---------------------------- MODULE TaskScheduler ----------------------------
(***************************************************************************)
(* The central task scheduler (internal/infrastructure/task/scheduler.go)  *)
(* with its persisted on/off switches (state_store.go).                    *)
(*                                                                         *)
(* One action per critical section of Scheduler.mu.  What the code does    *)
(* outside the mutex is a step of its own: the non-blocking send on the    *)
(* wake channel, the task function, the unlocked read of the schedule at   *)
(* the end of run(), and each arm of the dispatch loop's select.           *)
(***************************************************************************)
EXTENDS Integers, FiniteSets

CONSTANTS
    TaskIds,      \* task IDs that callers register
    Entries,      \* heap cells for *entry values (a bound on live entries)
    None,         \* absence of an entry or of a task
    Intervals,    \* Spec.Interval values, in clock ticks
    Crons,        \* Spec.Cron expressions
    NoCron,       \* the empty cron string (nil cron.Schedule)
    CronNext,     \* CronNext[c][t]: cron.Schedule.Next of the cron library
    MaxTime,      \* bound of the clock
    MaxPending,   \* bound on goroutines between Unlock and signal()
    ReadMayFail,  \* may reading the task_state table fail?
    WriteMayFail, \* may writing it fail or time out?
    MayCrash      \* may the process die and start again?

Time == 0..MaxTime

ASSUME SchedulerAssumption ==
    /\ MaxTime \in Nat
    /\ MaxPending \in Nat \ {0}
    /\ IsFiniteSet(Entries)
    /\ None \notin Entries \cup TaskIds
    /\ Intervals \subseteq Nat \ {0}
    /\ NoCron \notin Crons
    /\ CronNext \in [Crons -> [Time -> Nat]]
    /\ \A c \in Crons, t \in Time : CronNext[c][t] > t
    /\ ReadMayFail \in BOOLEAN
    /\ WriteMayFail \in BOOLEAN
    /\ MayCrash \in BOOLEAN

(* A valid spec sets exactly one of Interval and Cron. *)
Schedule == [interval : Intervals, cron : {NoCron}]
              \cup [interval : {0}, cron : Crons]

(* What a reader without the lock can see: fields of two specs mixed. *)
SeenSchedule == [interval : Intervals \cup {0}, cron : Crons \cup {NoCron}]

NoSchedule == [interval |-> 0, cron |-> NoCron]

VARIABLES
    clock,      \* time.Now()
    tasks,      \* Scheduler.tasks: task ID -> entry, or None
    entry,      \* the entry structs, by heap cell
    run,        \* the run() goroutine of an entry, until it releases the entry
    ending,     \* runs that released their entry and have yet to signal and Done
    wg,         \* the WaitGroup counter
    wake,       \* is a token in the wake channel (capacity 1)?
    unsignalled,\* API callers that unlocked the mutex and have yet to signal
    loop,       \* where the dispatch loop (Start) stands
    loopNow,    \* the loop's local `now` (0 while it is dead)
    target,     \* the loop's sleep target, None when no timer is armed
    baseCtx,    \* has Start set Scheduler.baseCtx?
    ctxDone,    \* is the lifecycle context cancelled?
    stopped,    \* Scheduler.stopped
    shutdown,   \* progress of the Shutdown call
    stored,     \* the task_state table (a missing row reads as enabled)
    acked       \* history: the switch position last acknowledged to an admin

loopVars  == <<loop, loopNow, target, baseCtx>>
stopVars  == <<ctxDone, stopped, shutdown>>
storeVars == <<stored, acked>>
vars == <<clock, tasks, entry, run, ending, wg, wake, unsignalled,
          loopVars, stopVars, storeVars>>

NoRun == [phase |-> "none", trigger |-> 0, ctx |-> "base", next |-> 0]

Free == [id |-> None, sched |-> NoSchedule, enabled |-> FALSE,
         running |-> FALSE, nextRun |-> 0]

EntryRecord ==
    [id : TaskIds \cup {None}, sched : SeenSchedule, enabled : BOOLEAN,
     running : BOOLEAN, nextRun : Nat]

RunRecord ==
    [phase : {"none", "executing", "rescheduling"}, trigger : Time,
     ctx : {"base", "background"}, next : Nat]

RegistryType ==
    /\ tasks \in [TaskIds -> Entries \cup {None}]
    /\ entry \in [Entries -> EntryRecord]
    /\ run \in [Entries -> RunRecord]

CountType ==
    /\ clock \in Time
    /\ ending \in 0..MaxPending
    /\ unsignalled \in 0..MaxPending
    /\ wg \in Nat

LoopType ==
    /\ loop \in {"unstarted", "top", "scan", "select", "returning", "exited"}
    /\ loopNow \in Time
    /\ target \in Nat \cup {None}
    /\ shutdown \in {"no", "waiting", "done"}

FlagType ==
    /\ wake \in BOOLEAN
    /\ baseCtx \in BOOLEAN
    /\ ctxDone \in BOOLEAN
    /\ stopped \in BOOLEAN

StoreType ==
    /\ stored \in [TaskIds -> BOOLEAN]
    /\ acked \in [TaskIds -> {"on", "off", "unknown"}]

TypeOK == RegistryType /\ CountType /\ LoopType /\ FlagType /\ StoreType

Init ==
    /\ clock = 0
    /\ tasks = [id \in TaskIds |-> None]
    /\ entry = [e \in Entries |-> Free]
    /\ run = [e \in Entries |-> NoRun]
    /\ ending = 0
    /\ wg = 0
    /\ wake = FALSE
    /\ unsignalled = 0
    /\ loop = "unstarted"
    /\ loopNow = 0
    /\ target = None
    /\ baseCtx = FALSE
    /\ ctxDone = FALSE
    /\ stopped = FALSE
    /\ shutdown = "no"
    /\ stored = [id \in TaskIds |-> TRUE]
    /\ acked = [id \in TaskIds |-> "unknown"]

-----------------------------------------------------------------------------
(* Helpers *)

Registered(id) == tasks[id] # None
Live == {tasks[id] : id \in TaskIds} \ {None}
Active == {e \in Entries : run[e].phase # "none"}

NextAfter(s, t) == IF s.cron # NoCron THEN CronNext[s.cron][t] ELSE t + s.interval

(* The caller left its critical section and is about to call signal(). *)
SignalLater == /\ unsignalled < MaxPending
               /\ unsignalled' = unsignalled + 1

NewRun(trigger, ctx) == [NoRun EXCEPT !.phase = "executing", !.trigger = trigger,
                                      !.ctx = ctx]

(* An entry that neither the map nor a run refers to is garbage. *)
Reclaim(ents, e, referenced) == IF referenced THEN ents ELSE [ents EXCEPT ![e] = Free]

(* The tail of run(): two unlocked reads of the entry's schedule. *)
Reschedule(r, first, second) ==
    LET n == NextAfter(first, r.trigger)
    IN  [r EXCEPT !.phase = "rescheduling", !.trigger = 0,
                  !.next = IF n < clock THEN NextAfter(second, clock) ELSE n]

(* What those reads can return while Register replaces `old` by `new`. *)
Torn(old, new) == [interval : {old.interval, new.interval}, cron : {old.cron, new.cron}]

-----------------------------------------------------------------------------
(* Register, Remove, SetEnabled, RunNow *)

(* The stored position, or disabled when it cannot be read. *)
RegisteredAs(id) == {stored[id]} \cup (IF ReadMayFail THEN {FALSE} ELSE {})

RegisterNew(id, s, e) ==
    /\ ~Registered(id)
    /\ e \notin Live \cup Active
    /\ \E enabled \in RegisteredAs(id) :
          entry' = [entry EXCEPT ![e] =
                      [id |-> id, sched |-> s, enabled |-> enabled, running |-> FALSE,
                       nextRun |-> NextAfter(s, clock)]]
    /\ tasks' = [tasks EXCEPT ![id] = e]
    /\ SignalLater
    /\ UNCHANGED <<clock, run, ending, wg, wake, loopVars, stopVars, storeVars>>

UpdatedEntry(x, s) ==
    IF x.sched # s /\ x.enabled
    THEN [x EXCEPT !.sched = s, !.nextRun = NextAfter(s, clock)]
    ELSE [x EXCEPT !.sched = s]

RegisterUpdate(id, s) ==
    /\ Registered(id)
    /\ LET e == tasks[id] IN
         /\ entry' = [entry EXCEPT ![e] = UpdatedEntry(@, s)]
         /\ \/ UNCHANGED run
            \/ /\ run[e].phase = "executing"   \* run() reads while we write
               /\ \E first, second \in Torn(entry[e].sched, s) :
                     run' = [run EXCEPT ![e] = Reschedule(@, first, second)]
    /\ SignalLater
    /\ UNCHANGED <<clock, tasks, ending, wg, wake, loopVars, stopVars, storeVars>>

Remove(id) ==
    /\ Registered(id)
    /\ tasks' = [tasks EXCEPT ![id] = None]
    /\ entry' = Reclaim(entry, tasks[id], tasks[id] \in Active)
    /\ SignalLater
    /\ UNCHANGED <<clock, run, ending, wg, wake, loopVars, stopVars, storeVars>>

Position(on) == IF on THEN "on" ELSE "off"

SetEnabledNoop(id, on) ==
    /\ Registered(id)
    /\ entry[tasks[id]].enabled = on
    /\ acked' = [acked EXCEPT ![id] = Position(on)]
    /\ UNCHANGED <<clock, tasks, entry, run, ending, wg, wake, unsignalled,
                   loopVars, stopVars, stored>>

Switched(x, on) ==
    IF on /\ ~x.running
    THEN [x EXCEPT !.enabled = on, !.nextRun = NextAfter(x.sched, clock)]
    ELSE [x EXCEPT !.enabled = on]

(* Mutant: the new position is kept in memory only. *)
SetEnabledUnpersisted(id, on) ==
    /\ Registered(id)
    /\ entry[tasks[id]].enabled # on
    /\ entry' = [entry EXCEPT ![tasks[id]] = Switched(@, on)]
    /\ acked' = [acked EXCEPT ![id] = Position(on)]
    /\ SignalLater
    /\ UNCHANGED <<clock, tasks, run, ending, wg, wake, loopVars, stopVars, stored>>

SetEnabled(id, on) ==
    /\ Registered(id)
    /\ entry[tasks[id]].enabled # on
    /\ stored' = [stored EXCEPT ![id] = on]
    /\ entry' = [entry EXCEPT ![tasks[id]] = Switched(@, on)]
    /\ acked' = [acked EXCEPT ![id] = Position(on)]
    /\ SignalLater
    /\ UNCHANGED <<clock, tasks, run, ending, wg, wake, loopVars, stopVars>>

(* The write reports an error; a timed-out statement may have committed. *)
SetEnabledFails(id, on) ==
    /\ WriteMayFail
    /\ Registered(id)
    /\ entry[tasks[id]].enabled # on
    /\ \E committed \in {stored[id], on} : stored' = [stored EXCEPT ![id] = committed]
    /\ acked' = [acked EXCEPT ![id] = "unknown"]
    /\ UNCHANGED <<clock, tasks, entry, run, ending, wg, wake, unsignalled,
                   loopVars, stopVars>>

(* Mutant: a manual run is accepted after the scheduler stopped. *)
RunNowUnguarded(id) ==
    /\ Registered(id)
    /\ LET e == tasks[id] IN
         /\ ~entry[e].running
         /\ entry' = [entry EXCEPT ![e].running = TRUE]
         /\ run' = [run EXCEPT ![e] = NewRun(clock, IF baseCtx THEN "base" ELSE "background")]
    /\ wg' = wg + 1
    /\ UNCHANGED <<clock, tasks, ending, wake, unsignalled, loopVars, stopVars, storeVars>>

RunNow(id) ==
    /\ ~stopped
    /\ Registered(id)
    /\ LET e == tasks[id] IN
         /\ ~entry[e].running
         /\ entry' = [entry EXCEPT ![e].running = TRUE]
         /\ run' = [run EXCEPT ![e] = NewRun(clock, IF baseCtx THEN "base" ELSE "background")]
    /\ wg' = wg + 1
    /\ UNCHANGED <<clock, tasks, ending, wake, unsignalled, loopVars, stopVars, storeVars>>

-----------------------------------------------------------------------------
(* signal() *)

(* Mutant: the caller forgets to signal. *)
SignalLost ==
    /\ unsignalled > 0
    /\ unsignalled' = unsignalled - 1
    /\ UNCHANGED <<clock, tasks, entry, run, ending, wg, wake, loopVars, stopVars, storeVars>>

Signal ==
    /\ unsignalled > 0
    /\ unsignalled' = unsignalled - 1
    /\ wake' = TRUE
    /\ UNCHANGED <<clock, tasks, entry, run, ending, wg, loopVars, stopVars, storeVars>>

-----------------------------------------------------------------------------
(* run(): the task function returns or panics, the next run is computed,   *)
(* the entry is released under the lock, then signal() and wg.Done().      *)

FnReturns(e) ==
    /\ run[e].phase = "executing"
    /\ run' = [run EXCEPT ![e] = Reschedule(@, entry[e].sched, entry[e].sched)]
    /\ UNCHANGED <<clock, tasks, entry, ending, wg, wake, unsignalled,
                   loopVars, stopVars, storeVars>>

(* Mutant: the entry is not marked idle again. *)
ReleaseKeepsFlag(e) ==
    /\ run[e].phase = "rescheduling"
    /\ ending < MaxPending
    /\ entry' = Reclaim([entry EXCEPT ![e].nextRun = run[e].next], e, e \in Live)
    /\ run' = [run EXCEPT ![e] = NoRun]
    /\ ending' = ending + 1
    /\ UNCHANGED <<clock, tasks, wg, wake, unsignalled, loopVars, stopVars, storeVars>>

Release(e) ==
    /\ run[e].phase = "rescheduling"
    /\ ending < MaxPending
    /\ entry' = Reclaim([entry EXCEPT ![e].running = FALSE, ![e].nextRun = run[e].next], e, e \in Live)
    /\ run' = [run EXCEPT ![e] = NoRun]
    /\ ending' = ending + 1
    /\ UNCHANGED <<clock, tasks, wg, wake, unsignalled, loopVars, stopVars, storeVars>>

(* Mutant: the goroutine ends without wg.Done. *)
NotDone ==
    /\ ending > 0
    /\ ending' = ending - 1
    /\ wake' = TRUE
    /\ UNCHANGED <<clock, tasks, entry, run, wg, unsignalled, loopVars, stopVars, storeVars>>

(* Mutant: wg.Done is called on two paths of the same goroutine. *)
DoneTwice ==
    /\ ending > 0
    /\ ending' = ending - 1
    /\ wake' = TRUE
    /\ wg' = wg - 2
    /\ UNCHANGED <<clock, tasks, entry, run, unsignalled, loopVars, stopVars, storeVars>>

Done ==
    /\ ending > 0
    /\ ending' = ending - 1
    /\ wake' = TRUE
    /\ wg' = wg - 1
    /\ UNCHANGED <<clock, tasks, entry, run, unsignalled, loopVars, stopVars, storeVars>>

-----------------------------------------------------------------------------
(* Start: the dispatch loop *)

StartLoop ==
    /\ loop = "unstarted"
    /\ baseCtx' = TRUE
    /\ loop' = "top"
    /\ UNCHANGED <<clock, tasks, entry, run, ending, wg, wake, unsignalled,
                   loopNow, target, stopVars, storeVars>>

ReadClock ==
    /\ loop = "top"
    /\ loopNow' = clock
    /\ loop' = "scan"
    /\ UNCHANGED <<clock, tasks, entry, run, ending, wg, wake, unsignalled,
                   target, baseCtx, stopVars, storeVars>>

Idle == {e \in Live : entry[e].enabled /\ ~entry[e].running}
Due == {e \in Idle : entry[e].nextRun <= loopNow}

Dispatch(due) ==
    /\ entry' = [e \in Entries |-> IF e \in due THEN [entry[e] EXCEPT !.running = TRUE]
                                                ELSE entry[e]]
    /\ run' = [e \in Entries |-> IF e \in due THEN NewRun(loopNow, "base") ELSE run[e]]
    /\ wg' = wg + Cardinality(due)

Scan ==
    /\ loop = "scan"
    /\ ~stopped
    /\ Dispatch(Due)
    /\ LET later == {entry[e].nextRun : e \in Idle \ Due} IN
         \/ later = {} /\ target' = None
         \/ /\ target' \in later
            /\ \A t \in later : target' <= t
    /\ loop' = "select"
    /\ loopNow' = 0
    /\ UNCHANGED <<clock, tasks, ending, wake, unsignalled, baseCtx,
                   stopVars, storeVars>>

ScanStopped ==
    /\ loop = "scan"
    /\ stopped
    /\ loop' = "returning"
    /\ loopNow' = 0
    /\ UNCHANGED <<clock, tasks, entry, run, ending, wg, wake, unsignalled,
                   target, baseCtx, stopVars, storeVars>>

Woken ==
    /\ loop = "select"
    /\ wake
    /\ wake' = FALSE
    /\ loop' = "top"
    /\ target' = None
    /\ UNCHANGED <<clock, tasks, entry, run, ending, wg, unsignalled,
                   loopNow, baseCtx, stopVars, storeVars>>

TimerFires ==
    /\ loop = "select"
    /\ target # None
    /\ target <= clock
    /\ loop' = "top"
    /\ target' = None
    /\ UNCHANGED <<clock, tasks, entry, run, ending, wg, wake, unsignalled,
                   loopNow, baseCtx, stopVars, storeVars>>

SelectDone ==
    /\ loop = "select"
    /\ ctxDone
    /\ loop' = "returning"
    /\ target' = None
    /\ UNCHANGED <<clock, tasks, entry, run, ending, wg, wake, unsignalled,
                   loopNow, baseCtx, stopVars, storeVars>>

MarkStopped ==
    /\ loop = "returning"
    /\ stopped' = TRUE
    /\ loop' = "exited"
    /\ UNCHANGED <<clock, tasks, entry, run, ending, wg, wake, unsignalled,
                   loopNow, target, baseCtx, ctxDone, shutdown, storeVars>>

LoopStep == ReadClock \/ Scan \/ ScanStopped \/ Woken \/ TimerFires
              \/ SelectDone \/ MarkStopped

-----------------------------------------------------------------------------
(* The server's shutdown (Server.Start): cancel the context, then Shutdown. *)

StopSched ==
    /\ ~ctxDone
    /\ ctxDone' = TRUE
    /\ UNCHANGED <<clock, tasks, entry, run, ending, wg, wake, unsignalled,
                   loopVars, stopped, shutdown, storeVars>>

Shutdown ==
    /\ ctxDone
    /\ shutdown = "no"
    /\ stopped' = TRUE
    /\ shutdown' = "waiting"
    /\ UNCHANGED <<clock, tasks, entry, run, ending, wg, wake, unsignalled,
                   loopVars, ctxDone, storeVars>>

WaitReturns ==
    /\ shutdown = "waiting"
    /\ wg = 0
    /\ shutdown' = "done"
    /\ UNCHANGED <<clock, tasks, entry, run, ending, wg, wake, unsignalled,
                   loopVars, ctxDone, stopped, storeVars>>

Crash ==
    /\ MayCrash
    /\ tasks' = [id \in TaskIds |-> None]
    /\ entry' = [e \in Entries |-> Free]
    /\ run' = [e \in Entries |-> NoRun]
    /\ ending' = 0
    /\ wg' = 0
    /\ wake' = FALSE
    /\ unsignalled' = 0
    /\ loop' = "unstarted"
    /\ loopNow' = 0
    /\ target' = None
    /\ baseCtx' = FALSE
    /\ ctxDone' = FALSE
    /\ stopped' = FALSE
    /\ shutdown' = "no"
    /\ UNCHANGED <<clock, storeVars>>

Tick ==
    /\ clock < MaxTime
    /\ clock' = clock + 1
    /\ UNCHANGED <<tasks, entry, run, ending, wg, wake, unsignalled,
                   loopVars, stopVars, storeVars>>

-----------------------------------------------------------------------------
Next ==
    \/ \E id \in TaskIds, s \in Schedule :
          \/ \E e \in Entries : RegisterNew(id, s, e)
          \/ RegisterUpdate(id, s)
    \/ \E id \in TaskIds : Remove(id) \/ RunNow(id)
    \/ \E id \in TaskIds, on \in BOOLEAN :
          SetEnabledNoop(id, on) \/ SetEnabled(id, on) \/ SetEnabledFails(id, on)
    \/ Signal
    \/ \E e \in Entries : FnReturns(e) \/ Release(e)
    \/ Done
    \/ StartLoop
    \/ LoopStep
    \/ StopSched \/ Shutdown \/ WaitReturns
    \/ Crash
    \/ Tick

Spec == Init /\ [][Next]_vars

(* The goroutines keep being scheduled; a task function is only obliged to *)
(* return once the context it was given is cancelled.                      *)
CancelledFnReturns(e) == ctxDone /\ run[e].ctx = "base" /\ FnReturns(e)

Fairness ==
    /\ WF_vars(Signal)
    /\ WF_vars(Done)
    /\ WF_vars(StartLoop)
    /\ WF_vars(LoopStep)
    /\ WF_vars(WaitReturns)
    /\ \A e \in Entries : WF_vars(Release(e)) /\ WF_vars(CancelledFnReturns(e))

FairSpec == Spec /\ Fairness

-----------------------------------------------------------------------------
(* Properties *)

(* Shutdown joins every run: once wg.Wait returned, no task function is    *)
(* executing and no goroutine is left between releasing its entry and Done *)
(* (server.go closes the logger right after).                              *)
ShutdownJoinsRuns == shutdown = "done" => Active = {} /\ ending = 0

(* The WaitGroup counts exactly the run goroutines: an Add that another    *)
(* path forgets, or a run that a second trigger of the same entry replaces,*)
(* makes Wait return early or never.                                       *)
WaitGroupCountsRuns == wg = Cardinality(Active) + ending

(* An entry is marked running exactly while one goroutine owns it, so that *)
(* neither the loop nor RunNow starts it a second time or skips it forever.*)
RunningMeansOwned == \A e \in Entries : entry[e].running <=> e \in Active

(* Once Start returned or Shutdown began, nothing new starts.              *)
NothingStartsAfterStop == [][stopped /\ stopped' => Active' \subseteq Active]_vars

(* No lost wake-up: with the lifecycle context alive, an enabled idle task *)
(* whose time has come does not stay idle and due.                         *)
Overdue(e) == ~ctxDone /\ e \in Idle /\ entry[e].nextRun <= clock
DueTaskIsDispatched == \A e \in Entries : Overdue(e) ~> ~Overdue(e)

(* "manually triggered runs (RunNow) inherit it so they are cancelled on   *)
(* shutdown" (scheduler.go:86-87).                                         *)
RunsInheritLifecycle == \A e \in Active : run[e].ctx = "base"

(* Shutdown returns, given that no run was started without the lifecycle   *)
(* context (RunNow before Start does).                                     *)
ShutdownReturns == (shutdown = "waiting" /\ RunsInheritLifecycle) ~> shutdown = "done"

(* The switch survives removal, re-registration and restart: a registered  *)
(* task stands where the last acknowledged SetEnabled put it.              *)
AckedSwitchSurvives ==
    \A id \in TaskIds : Registered(id) /\ acked[id] # "unknown"
                          => Position(entry[tasks[id]].enabled) = acked[id]

(* "a schedule change (interval or cron expression) resets the next run"   *)
(* (scheduler.go:104-105): the next run of an enabled idle task is never   *)
(* further away than the schedule it is registered with puts it.           *)
NextRunWithinSchedule ==
    \A e \in Idle : entry[e].nextRun <= NextAfter(entry[e].sched, clock)
=============================================================================
