------------------------- MODULE TaskSchedulerProofs -------------------------
(***************************************************************************)
(* Safety of the task scheduler for every set of tasks, every schedule and *)
(* every clock bound.  Shutdown joins its runs because the WaitGroup       *)
(* counts exactly the goroutines that own an entry or are about to signal; *)
(* that in turn needs the running flag to tell who owns an entry.          *)
(***************************************************************************)
EXTENDS TaskScheduler, FiniteSetTheorems, TLAPS

LEMMA PendingBound == MaxPending \in Nat \ {0}
BY SchedulerAssumption

LEMMA TimeIsNat == Time \subseteq Nat /\ 0 \in Time
BY SchedulerAssumption DEF Time

(* The next run of any schedule, torn or not, is a point in time.          *)
LEMMA NextAfterType ==
    ASSUME NEW s \in SeenSchedule, NEW t \in Time
    PROVE  NextAfter(s, t) \in Nat
<1>1. CASE s.cron # NoCron
  <2>1. s.cron \in Crons
    BY <1>1 DEF SeenSchedule
  <2> QED BY <1>1, <2>1, SchedulerAssumption DEF NextAfter
<1>2. CASE s.cron = NoCron
  <2>1. s.interval \in Nat /\ t \in Nat
    BY SchedulerAssumption, TimeIsNat DEF SeenSchedule
  <2> QED BY <1>2, <2>1 DEF NextAfter
<1> QED BY <1>1, <1>2

LEMMA ScheduleSeen == Schedule \subseteq SeenSchedule
BY DEF Schedule, SeenSchedule

LEMMA TornSeen ==
    ASSUME NEW old \in SeenSchedule, NEW new \in SeenSchedule
    PROVE  Torn(old, new) \subseteq SeenSchedule
BY DEF Torn, SeenSchedule

LEMMA RescheduleType ==
    ASSUME NEW r \in RunRecord, clock \in Time,
           NEW first \in SeenSchedule, NEW second \in SeenSchedule
    PROVE  /\ Reschedule(r, first, second) \in RunRecord
           /\ Reschedule(r, first, second).phase = "rescheduling"
<1>1. NextAfter(first, r.trigger) \in Nat /\ NextAfter(second, clock) \in Nat
  BY NextAfterType DEF RunRecord
<1> QED BY <1>1, TimeIsNat DEF Reschedule, RunRecord

LEMMA NewRunType ==
    ASSUME NEW t \in Time, NEW c \in {"base", "background"}
    PROVE  NewRun(t, c) \in RunRecord /\ NewRun(t, c).phase = "executing"
BY DEF NewRun, NoRun, RunRecord

LEMMA BlankTypes == NoRun \in RunRecord /\ Free \in EntryRecord
BY TimeIsNat DEF NoRun, Free, RunRecord, EntryRecord, SeenSchedule, NoSchedule

LEMMA ActiveFinite == IsFiniteSet(Active) /\ Cardinality(Active) \in Nat
<1>1. IsFiniteSet(Active)
  BY FS_Subset, SchedulerAssumption DEF Active
<1> QED BY <1>1, FS_CardinalityType

-----------------------------------------------------------------------------
(* The inductive invariant.  A run owns an entry from the moment its       *)
(* running flag is set until release; Add precedes ownership and Done      *)
(* follows release, so the counter is the number of owners plus enders.    *)
StopOrder == shutdown # "no" => stopped

IInv == /\ TypeOK
        /\ RunningMeansOwned
        /\ WaitGroupCountsRuns
        /\ StopOrder
        /\ ShutdownJoinsRuns

LEMMA InitIInv == Init => IInv
<1> SUFFICES ASSUME Init PROVE IInv
  OBVIOUS
<1> USE DEF Init
<1>1. TypeOK
  <2>1. RegistryType
    BY BlankTypes DEF RegistryType
  <2>2. CountType
    BY TimeIsNat, PendingBound DEF CountType
  <2>3. LoopType
    BY TimeIsNat DEF LoopType
  <2>4. FlagType /\ StoreType
    BY DEF FlagType, StoreType
  <2> QED BY <2>1, <2>2, <2>3, <2>4 DEF TypeOK
<1>2. Active = {}
  BY DEF Active, NoRun
<1>3. RunningMeansOwned
  BY <1>2 DEF RunningMeansOwned, Free
<1>4. WaitGroupCountsRuns
  BY <1>2, FS_EmptySet DEF WaitGroupCountsRuns
<1> QED BY <1>1, <1>3, <1>4 DEF IInv, StopOrder, ShutdownJoinsRuns

(* Steps that leave entries, runs and the counters alone keep the bookkeeping. *)
LEMMA SameOwners ==
    ASSUME IInv, TypeOK', UNCHANGED <<entry, run, ending, wg>>,
           stopped => stopped', shutdown' # "no" => stopped',
           shutdown' = "done" => shutdown = "done" \/ wg = 0
    PROVE  IInv'
<1>1. Active' = Active
  BY DEF Active
<1>2. RunningMeansOwned' /\ WaitGroupCountsRuns'
  BY <1>1 DEF IInv, RunningMeansOwned, WaitGroupCountsRuns
<1>3. ASSUME wg = 0 PROVE Active = {} /\ ending = 0
  <2>1. Cardinality(Active) = 0 /\ ending = 0
    BY <1>3, ActiveFinite, PendingBound DEF IInv, WaitGroupCountsRuns, TypeOK, CountType
  <2> QED BY <2>1, ActiveFinite, FS_EmptySet
<1>4. ShutdownJoinsRuns'
  BY <1>1, <1>3 DEF IInv, ShutdownJoinsRuns
<1> QED BY <1>2, <1>4 DEF IInv, StopOrder

(* Steps that rewrite entries without touching their running flags.        *)
LEMMA SameFlags ==
    ASSUME IInv, TypeOK', UNCHANGED <<ending, wg, stopped, shutdown>>,
           \A e \in Entries : entry'[e].running = entry[e].running,
           \A e \in Entries : run'[e].phase # "none" <=> run[e].phase # "none"
    PROVE  IInv'
<1>1. Active' = Active
  BY DEF Active
<1> QED BY <1>1 DEF IInv, RunningMeansOwned, WaitGroupCountsRuns, StopOrder,
                   ShutdownJoinsRuns

-----------------------------------------------------------------------------
(* Types of the control variables, the flags and the store.                *)

LEMMA LoopTypeStep ==
    ASSUME IInv, [Next]_vars
    PROVE  LoopType'
<1> USE DEF IInv, TypeOK, LoopType, loopVars, stopVars, storeVars, vars
<1>1. ASSUME NEW id \in TaskIds, NEW s \in Schedule, NEW e \in Entries,
             RegisterNew(id, s, e)
      PROVE  LoopType'
  BY <1>1, TimeIsNat DEF RegisterNew, SignalLater
<1>2. ASSUME NEW id \in TaskIds, NEW s \in Schedule, RegisterUpdate(id, s)
      PROVE  LoopType'
  BY <1>2, TimeIsNat DEF RegisterUpdate, SignalLater
<1>3. ASSUME NEW id \in TaskIds, Remove(id) \/ RunNow(id)
      PROVE  LoopType'
  BY <1>3, TimeIsNat DEF Remove, RunNow, SignalLater
<1>4. ASSUME NEW id \in TaskIds, NEW on \in BOOLEAN,
             \/ SetEnabledNoop(id, on)
             \/ SetEnabled(id, on)
             \/ SetEnabledFails(id, on)
      PROVE  LoopType'
  BY <1>4, TimeIsNat DEF SetEnabledNoop, SetEnabled, SetEnabledFails, SignalLater
<1>5. CASE Signal \/ Done \/ StartLoop
  BY <1>5, TimeIsNat DEF Signal, Done, StartLoop
<1>6. CASE StopSched \/ Shutdown \/ WaitReturns \/ Tick
  BY <1>6, TimeIsNat DEF StopSched, Shutdown, WaitReturns, Tick
<1>7. CASE Crash
  BY <1>7, TimeIsNat DEF Crash
<1>8. ASSUME NEW e \in Entries, FnReturns(e) \/ Release(e)
      PROVE  LoopType'
  BY <1>8, TimeIsNat DEF FnReturns, Release
<1>9. CASE Scan
  BY <1>9, TimeIsNat DEF Scan, RegistryType, Live, Idle, Due, EntryRecord
<1>10. CASE \/ ReadClock \/ ScanStopped \/ Woken
            \/ TimerFires \/ SelectDone \/ MarkStopped
  BY <1>10, TimeIsNat DEF CountType, ReadClock, ScanStopped, Woken, TimerFires, SelectDone, MarkStopped
<1>11. CASE UNCHANGED vars
  BY <1>11 DEF vars
<1> QED BY <1>1, <1>2, <1>3, <1>4, <1>5, <1>6, <1>7, <1>8, <1>9, <1>10, <1>11
        DEF Next, LoopStep

LEMMA FlagTypeStep ==
    ASSUME IInv, [Next]_vars
    PROVE  FlagType'
<1> USE DEF IInv, TypeOK, FlagType, loopVars, stopVars, storeVars, vars
<1>1. ASSUME NEW id \in TaskIds, NEW s \in Schedule, NEW e \in Entries,
             RegisterNew(id, s, e)
      PROVE  FlagType'
  BY <1>1 DEF RegisterNew, SignalLater
<1>2. ASSUME NEW id \in TaskIds, NEW s \in Schedule, RegisterUpdate(id, s)
      PROVE  FlagType'
  BY <1>2 DEF RegisterUpdate, SignalLater
<1>3. ASSUME NEW id \in TaskIds, Remove(id) \/ RunNow(id)
      PROVE  FlagType'
  BY <1>3 DEF Remove, RunNow, SignalLater
<1>4. ASSUME NEW id \in TaskIds, NEW on \in BOOLEAN,
             \/ SetEnabledNoop(id, on)
             \/ SetEnabled(id, on)
             \/ SetEnabledFails(id, on)
      PROVE  FlagType'
  BY <1>4 DEF SetEnabledNoop, SetEnabled, SetEnabledFails, SignalLater
<1>5. CASE Signal \/ Done \/ StartLoop
  BY <1>5 DEF Signal, Done, StartLoop
<1>6. CASE StopSched \/ Shutdown \/ WaitReturns \/ Tick
  BY <1>6 DEF StopSched, Shutdown, WaitReturns, Tick
<1>7. CASE Crash
  BY <1>7 DEF Crash
<1>8. ASSUME NEW e \in Entries, FnReturns(e) \/ Release(e)
      PROVE  FlagType'
  BY <1>8 DEF FnReturns, Release
<1>9. CASE Scan
  BY <1>9 DEF Scan, Dispatch
<1>10. CASE \/ ReadClock \/ ScanStopped \/ Woken
            \/ TimerFires \/ SelectDone \/ MarkStopped
  BY <1>10 DEF ReadClock, ScanStopped, Woken, TimerFires, SelectDone, MarkStopped
<1>11. CASE UNCHANGED vars
  BY <1>11 DEF vars
<1> QED BY <1>1, <1>2, <1>3, <1>4, <1>5, <1>6, <1>7, <1>8, <1>9, <1>10, <1>11
        DEF Next, LoopStep

LEMMA StoreTypeStep ==
    ASSUME IInv, [Next]_vars
    PROVE  StoreType'
<1> USE DEF IInv, TypeOK, StoreType, loopVars, stopVars, storeVars, vars
<1>1. ASSUME NEW id \in TaskIds, NEW s \in Schedule, NEW e \in Entries,
             RegisterNew(id, s, e)
      PROVE  StoreType'
  BY <1>1 DEF RegisterNew, SignalLater
<1>2. ASSUME NEW id \in TaskIds, NEW s \in Schedule, RegisterUpdate(id, s)
      PROVE  StoreType'
  BY <1>2 DEF RegisterUpdate, SignalLater
<1>3. ASSUME NEW id \in TaskIds, Remove(id) \/ RunNow(id)
      PROVE  StoreType'
  BY <1>3 DEF Remove, RunNow, SignalLater
<1>4. ASSUME NEW id \in TaskIds, NEW on \in BOOLEAN,
             \/ SetEnabledNoop(id, on)
             \/ SetEnabled(id, on)
             \/ SetEnabledFails(id, on)
      PROVE  StoreType'
  BY <1>4 DEF SetEnabledNoop, SetEnabled, SetEnabledFails, SignalLater, Position
<1>5. CASE Signal \/ Done \/ StartLoop
  BY <1>5 DEF Signal, Done, StartLoop
<1>6. CASE StopSched \/ Shutdown \/ WaitReturns \/ Tick
  BY <1>6 DEF StopSched, Shutdown, WaitReturns, Tick
<1>7. CASE Crash
  BY <1>7 DEF Crash
<1>8. ASSUME NEW e \in Entries, FnReturns(e) \/ Release(e)
      PROVE  StoreType'
  BY <1>8 DEF FnReturns, Release
<1>9. CASE Scan
  BY <1>9 DEF Scan, Dispatch
<1>10. CASE \/ ReadClock \/ ScanStopped \/ Woken
            \/ TimerFires \/ SelectDone \/ MarkStopped
  BY <1>10 DEF ReadClock, ScanStopped, Woken, TimerFires, SelectDone, MarkStopped
<1>11. CASE UNCHANGED vars
  BY <1>11 DEF vars
<1> QED BY <1>1, <1>2, <1>3, <1>4, <1>5, <1>6, <1>7, <1>8, <1>9, <1>10, <1>11
        DEF Next, LoopStep

LEMMA DueFinite == ASSUME RegistryType
                   PROVE  /\ Due \subseteq Entries
                          /\ IsFiniteSet(Due) /\ Cardinality(Due) \in Nat
<1>1. Due \subseteq Entries
  BY DEF Due, Idle, Live, RegistryType
<1>2. IsFiniteSet(Due)
  BY <1>1, FS_Subset, SchedulerAssumption
<1> QED BY <1>1, <1>2, FS_CardinalityType

LEMMA CountTypeStep ==
    ASSUME IInv, [Next]_vars
    PROVE  CountType'
<1> USE PendingBound, TimeIsNat
    DEF IInv, TypeOK, CountType, loopVars, stopVars, storeVars, vars
<1>1. ASSUME NEW id \in TaskIds, NEW s \in Schedule, NEW e \in Entries,
             RegisterNew(id, s, e)
      PROVE  CountType'
  BY <1>1 DEF RegisterNew, SignalLater
<1>2. ASSUME NEW id \in TaskIds, NEW s \in Schedule, RegisterUpdate(id, s)
      PROVE  CountType'
  BY <1>2 DEF RegisterUpdate, SignalLater
<1>3. ASSUME NEW id \in TaskIds, Remove(id) \/ RunNow(id)
      PROVE  CountType'
  BY <1>3 DEF Remove, RunNow, SignalLater
<1>4. ASSUME NEW id \in TaskIds, NEW on \in BOOLEAN,
             \/ SetEnabledNoop(id, on)
             \/ SetEnabled(id, on)
             \/ SetEnabledFails(id, on)
      PROVE  CountType'
  BY <1>4 DEF SetEnabledNoop, SetEnabled, SetEnabledFails, SignalLater
<1>5. CASE Signal \/ StartLoop
  BY <1>5 DEF Signal, StartLoop
<1>6. CASE Done
  <2>1. wg > 0
    BY <1>6, ActiveFinite DEF Done, WaitGroupCountsRuns
  <2>2. wg' \in Nat
    BY <1>6, <2>1 DEF Done
  <2>3. ending' \in 0..MaxPending
    BY <1>6 DEF Done
  <2>4. UNCHANGED <<clock, unsignalled>>
    BY <1>6 DEF Done
  <2> QED BY <2>2, <2>3, <2>4
<1>7. CASE StopSched \/ Shutdown \/ WaitReturns \/ Crash
  BY <1>7 DEF StopSched, Shutdown, WaitReturns, Crash
<1>8. CASE Tick
  <2>1. MaxTime \in Nat
    BY SchedulerAssumption
  <2> QED BY <1>8, <2>1 DEF Tick, Time
<1>9. ASSUME NEW e \in Entries, FnReturns(e) \/ Release(e)
      PROVE  CountType'
  BY <1>9 DEF FnReturns, Release
<1>10. CASE Scan
  BY <1>10, DueFinite DEF Scan, Dispatch
<1>11. CASE \/ ReadClock \/ ScanStopped \/ Woken
            \/ TimerFires \/ SelectDone \/ MarkStopped
  BY <1>11 DEF ReadClock, ScanStopped, Woken, TimerFires, SelectDone, MarkStopped
<1>12. CASE UNCHANGED vars
  BY <1>12
<1> QED BY <1>1, <1>2, <1>3, <1>4, <1>5, <1>6, <1>7, <1>8, <1>9, <1>10, <1>11, <1>12
        DEF Next, LoopStep
-----------------------------------------------------------------------------
(* Steps that rewrite entries or runs without changing who owns an entry.  *)

SameOwnership ==
    /\ RegistryType'
    /\ \A e \in Entries : entry'[e].running = entry[e].running
    /\ \A e \in Entries : run'[e].phase # "none" <=> run[e].phase # "none"

LEMMA CallersKeepOwners ==
    ASSUME IInv, NEW id \in TaskIds, NEW s \in Schedule
    PROVE  /\ \A e \in Entries : RegisterNew(id, s, e) => SameOwnership
           /\ RegisterUpdate(id, s) => SameOwnership
<1> USE DEF IInv, TypeOK, RegistryType
<1>0. s \in SeenSchedule /\ NextAfter(s, clock) \in Nat
  BY ScheduleSeen, NextAfterType DEF CountType
<1>1. ASSUME NEW e \in Entries, RegisterNew(id, s, e) PROVE SameOwnership
  <2>1. PICK enabled \in BOOLEAN :
           entry' = [entry EXCEPT ![e] =
              [id |-> id, sched |-> s, enabled |-> enabled, running |-> FALSE,
               nextRun |-> NextAfter(s, clock)]]
    BY <1>1 DEF RegisterNew, RegisteredAs, StoreType
  <2>2. entry' \in [Entries -> EntryRecord]
    BY <1>0, <2>1 DEF EntryRecord
  <2>3. e \notin Active /\ entry[e].running = FALSE
    BY <1>1 DEF RegisterNew, RunningMeansOwned, EntryRecord
  <2>4. \A f \in Entries : entry'[f].running = entry[f].running
    BY <2>1, <2>3
  <2> QED BY <1>1, <2>2, <2>4 DEF RegisterNew, SameOwnership
<1>2. ASSUME RegisterUpdate(id, s) PROVE SameOwnership
  <2> DEFINE e == tasks[id]
  <2>1. e \in Entries
    BY <1>2 DEF RegisterUpdate, Registered
  <2>2. /\ UpdatedEntry(entry[e], s) \in EntryRecord
        /\ UpdatedEntry(entry[e], s).running = entry[e].running
    BY <1>0, <2>1 DEF UpdatedEntry, EntryRecord
  <2>3. /\ entry' \in [Entries -> EntryRecord]
        /\ \A f \in Entries : entry'[f].running = entry[f].running
    BY <1>2, <2>1, <2>2 DEF RegisterUpdate
  <2>4. /\ run' \in [Entries -> RunRecord]
        /\ \A f \in Entries : run'[f].phase # "none" <=> run[f].phase # "none"
    <3>1. CASE UNCHANGED run
      BY <3>1
    <3>2. CASE /\ run[e].phase = "executing"
               /\ \E first, second \in Torn(entry[e].sched, s) :
                     run' = [run EXCEPT ![e] = Reschedule(@, first, second)]
      <4>1. entry[e].sched \in SeenSchedule /\ run[e] \in RunRecord
        BY <2>1 DEF EntryRecord
      <4>2. PICK first, second \in SeenSchedule :
               run' = [run EXCEPT ![e] = Reschedule(run[e], first, second)]
        BY <1>0, <3>2, <4>1, TornSeen
      <4>3. /\ Reschedule(run[e], first, second) \in RunRecord
            /\ Reschedule(run[e], first, second).phase = "rescheduling"
        BY <4>1, RescheduleType DEF CountType
      <4> QED BY <2>1, <3>2, <4>2, <4>3
    <3> QED BY <1>2, <3>1, <3>2 DEF RegisterUpdate
  <2> QED BY <1>2, <2>3, <2>4 DEF RegisterUpdate, SameOwnership
<1> QED BY <1>1, <1>2

LEMMA RemoveKeepsOwners ==
    ASSUME IInv, NEW id \in TaskIds, Remove(id)
    PROVE  SameOwnership
<1> USE DEF IInv, TypeOK, RegistryType
<1> DEFINE e == tasks[id]
<1>1. e \in Entries
  BY DEF Remove, Registered
<1>2. e \notin Active => entry[e].running = FALSE
  BY <1>1 DEF RunningMeansOwned, EntryRecord
<1>3. /\ entry' \in [Entries -> EntryRecord]
      /\ \A f \in Entries : entry'[f].running = entry[f].running
  BY <1>1, <1>2, BlankTypes DEF Remove, Reclaim, Free
<1> QED BY <1>3 DEF Remove, SameOwnership

LEMMA SwitchKeepsOwners ==
    ASSUME IInv, NEW id \in TaskIds, NEW on \in BOOLEAN,
           SetEnabledNoop(id, on) \/ SetEnabled(id, on) \/ SetEnabledFails(id, on)
    PROVE  SameOwnership
<1> USE DEF IInv, TypeOK, RegistryType, SameOwnership, loopVars, stopVars
<1>1. CASE SetEnabledNoop(id, on) \/ SetEnabledFails(id, on)
  BY <1>1 DEF SetEnabledNoop, SetEnabledFails
<1>2. CASE SetEnabled(id, on)
  <2> DEFINE e == tasks[id]
  <2>1. e \in Entries
    BY <1>2 DEF SetEnabled, Registered
  <2>2. NextAfter(entry[e].sched, clock) \in Nat
    BY <2>1, NextAfterType DEF EntryRecord, CountType
  <2>3. /\ Switched(entry[e], on) \in EntryRecord
        /\ Switched(entry[e], on).running = entry[e].running
    BY <2>1, <2>2 DEF Switched, EntryRecord
  <2> QED BY <1>2, <2>1, <2>3 DEF SetEnabled
<1> QED BY <1>1, <1>2

LEMMA FnReturnsKeepsOwners ==
    ASSUME IInv, NEW e \in Entries, FnReturns(e)
    PROVE  SameOwnership
<1> USE DEF IInv, TypeOK, RegistryType
<1>1. /\ Reschedule(run[e], entry[e].sched, entry[e].sched) \in RunRecord
      /\ Reschedule(run[e], entry[e].sched, entry[e].sched).phase = "rescheduling"
  BY RescheduleType DEF CountType, EntryRecord
<1> QED BY <1>1 DEF FnReturns, SameOwnership

LEMMA SameOwnershipStep ==
    ASSUME IInv, TypeOK', SameOwnership, UNCHANGED <<ending, wg, stopped, shutdown>>
    PROVE  IInv'
BY SameFlags DEF SameOwnership

-----------------------------------------------------------------------------
(* Steps that start or end a run.                                          *)

LEMMA RunNowStep ==
    ASSUME IInv, NEW id \in TaskIds, RunNow(id)
    PROVE  /\ RegistryType'
           /\ RunningMeansOwned' /\ WaitGroupCountsRuns' /\ ShutdownJoinsRuns'
<1> USE DEF IInv, TypeOK, RegistryType
<1> DEFINE e == tasks[id]
           r == NewRun(clock, IF baseCtx THEN "base" ELSE "background")
<1>1. e \in Entries /\ entry[e].running = FALSE
  BY DEF RunNow, Registered, EntryRecord
<1>2. r \in RunRecord /\ r.phase = "executing"
  BY NewRunType DEF CountType
<1>3. /\ entry' = [entry EXCEPT ![e].running = TRUE]
      /\ run' = [run EXCEPT ![e] = r]
      /\ UNCHANGED <<tasks, ending, stopped, shutdown>> /\ wg' = wg + 1
  BY DEF RunNow, stopVars
<1>4. RegistryType'
  BY <1>1, <1>2, <1>3 DEF EntryRecord
<1>5. e \notin Active /\ Active' = Active \cup {e}
  BY <1>1, <1>2, <1>3 DEF RunningMeansOwned, Active
<1>6. RunningMeansOwned'
  BY <1>1, <1>3, <1>5 DEF RunningMeansOwned, EntryRecord
<1>7. Cardinality(Active \cup {e}) = Cardinality(Active) + 1
  BY <1>5, ActiveFinite, FS_AddElement
<1>8. WaitGroupCountsRuns'
  BY <1>3, <1>5, <1>7, ActiveFinite, PendingBound DEF WaitGroupCountsRuns, CountType
<1>9. ShutdownJoinsRuns'
  BY <1>3 DEF RunNow, ShutdownJoinsRuns, StopOrder
<1> QED BY <1>4, <1>6, <1>8, <1>9

LEMMA ScanStep ==
    ASSUME IInv, Scan
    PROVE  /\ RegistryType'
           /\ RunningMeansOwned' /\ WaitGroupCountsRuns' /\ ShutdownJoinsRuns'
<1> USE DEF IInv, TypeOK, RegistryType
<1> DEFINE r == NewRun(loopNow, "base")
<1>1. r \in RunRecord /\ r.phase = "executing"
  BY NewRunType DEF LoopType
<1>2. Due \subseteq Entries /\ \A e \in Due : entry[e].running = FALSE
  BY DueFinite DEF Due, Idle, EntryRecord
<1>3. /\ entry' = [e \in Entries |-> IF e \in Due THEN [entry[e] EXCEPT !.running = TRUE]
                                                  ELSE entry[e]]
      /\ run' = [e \in Entries |-> IF e \in Due THEN r ELSE run[e]]
      /\ UNCHANGED <<tasks, ending, stopped, shutdown>> /\ wg' = wg + Cardinality(Due)
  BY DEF Scan, Dispatch, stopVars
<1>4. RegistryType'
  BY <1>1, <1>2, <1>3 DEF EntryRecord
<1>5. Due \cap Active = {} /\ Active' = Active \cup Due
  BY <1>1, <1>2, <1>3 DEF RunningMeansOwned, Active
<1>6. RunningMeansOwned'
  BY <1>2, <1>3, <1>5 DEF RunningMeansOwned, EntryRecord
<1>7. Cardinality(Active \cup Due) = Cardinality(Active) + Cardinality(Due)
  <2>1. Cardinality(Active \cap Due) = 0
    BY <1>5, FS_EmptySet, Zenon
  <2>2. Cardinality(Active \cup Due) =
           Cardinality(Active) + Cardinality(Due) - Cardinality(Active \cap Due)
    BY ActiveFinite, DueFinite, FS_Union, Zenon
  <2> QED BY <2>1, <2>2, ActiveFinite, DueFinite
<1>8. WaitGroupCountsRuns'
  BY <1>3, <1>5, <1>7, ActiveFinite, DueFinite, PendingBound
     DEF WaitGroupCountsRuns, CountType
<1>9. ShutdownJoinsRuns'
  BY <1>3 DEF Scan, ShutdownJoinsRuns, StopOrder
<1> QED BY <1>4, <1>6, <1>8, <1>9

LEMMA ReleaseStep ==
    ASSUME IInv, NEW e \in Entries, Release(e)
    PROVE  /\ RegistryType'
           /\ RunningMeansOwned' /\ WaitGroupCountsRuns' /\ ShutdownJoinsRuns'
<1> USE DEF IInv, TypeOK, RegistryType
<1>1. e \in Active
  BY DEF Release, Active
<1>2. /\ run' = [run EXCEPT ![e] = NoRun] /\ ending' = ending + 1
      /\ UNCHANGED <<tasks, wg, shutdown>>
  BY DEF Release, stopVars
<1>3. /\ entry' \in [Entries -> EntryRecord]
      /\ \A f \in Entries : entry'[f].running = (IF f = e THEN FALSE ELSE entry[f].running)
  BY BlankTypes DEF Release, Reclaim, Free, EntryRecord, RunRecord
<1>4. RegistryType'
  BY <1>2, <1>3, BlankTypes
<1>5. Active' = Active \ {e}
  BY <1>2 DEF Active, NoRun
<1>6. RunningMeansOwned'
  BY <1>3, <1>5 DEF RunningMeansOwned
<1>7. Cardinality(Active \ {e}) = Cardinality(Active) - 1
  BY <1>1, ActiveFinite, FS_RemoveElement
<1>8. WaitGroupCountsRuns'
  BY <1>2, <1>5, <1>7, ActiveFinite, PendingBound DEF WaitGroupCountsRuns, CountType
<1>9. ShutdownJoinsRuns'
  BY <1>1, <1>2 DEF ShutdownJoinsRuns
<1> QED BY <1>4, <1>6, <1>8, <1>9

-----------------------------------------------------------------------------
(* Every step preserves the invariant.                                     *)

LEMMA TypeStep ==
    ASSUME IInv, [Next]_vars, RegistryType'
    PROVE  TypeOK'
BY CountTypeStep, LoopTypeStep, FlagTypeStep, StoreTypeStep DEF TypeOK

LEMMA NextIInv == IInv /\ [Next]_vars => IInv'
<1> SUFFICES ASSUME IInv, [Next]_vars PROVE IInv'
  OBVIOUS
<1> RegistryType
  BY DEF IInv, TypeOK
<1>1. ASSUME NEW id \in TaskIds, NEW s \in Schedule, NEW e \in Entries,
             RegisterNew(id, s, e)
      PROVE  IInv'
  <2>1. SameOwnership
    BY <1>1, CallersKeepOwners
  <2>2. UNCHANGED <<ending, wg, stopped, shutdown>>
    BY <1>1 DEF RegisterNew, stopVars
  <2> QED BY <2>1, <2>2, TypeStep, SameOwnershipStep DEF SameOwnership
<1>2. ASSUME NEW id \in TaskIds, NEW s \in Schedule, RegisterUpdate(id, s)
      PROVE  IInv'
  <2>1. SameOwnership
    BY <1>2, CallersKeepOwners
  <2>2. UNCHANGED <<ending, wg, stopped, shutdown>>
    BY <1>2 DEF RegisterUpdate, stopVars
  <2> QED BY <2>1, <2>2, TypeStep, SameOwnershipStep DEF SameOwnership
<1>3. ASSUME NEW id \in TaskIds, Remove(id) PROVE IInv'
  <2>1. SameOwnership
    BY <1>3, RemoveKeepsOwners
  <2>2. UNCHANGED <<ending, wg, stopped, shutdown>>
    BY <1>3 DEF Remove, stopVars
  <2> QED BY <2>1, <2>2, TypeStep, SameOwnershipStep DEF SameOwnership
<1>4. ASSUME NEW id \in TaskIds, NEW on \in BOOLEAN,
             SetEnabledNoop(id, on) \/ SetEnabled(id, on) \/ SetEnabledFails(id, on)
      PROVE  IInv'
  <2>1. SameOwnership
    BY <1>4, SwitchKeepsOwners
  <2>2. UNCHANGED <<ending, wg, stopped, shutdown>>
    BY <1>4 DEF SetEnabledNoop, SetEnabled, SetEnabledFails, stopVars
  <2> QED BY <2>1, <2>2, TypeStep, SameOwnershipStep DEF SameOwnership
<1>5. ASSUME NEW e \in Entries, FnReturns(e) PROVE IInv'
  <2>1. SameOwnership
    BY <1>5, FnReturnsKeepsOwners
  <2>2. UNCHANGED <<ending, wg, stopped, shutdown>>
    BY <1>5 DEF FnReturns, stopVars
  <2> QED BY <2>1, <2>2, TypeStep, SameOwnershipStep DEF SameOwnership
<1>6. ASSUME NEW id \in TaskIds, RunNow(id) PROVE IInv'
  <2>1. UNCHANGED <<stopped, shutdown>>
    BY <1>6 DEF RunNow, stopVars
  <2> QED BY <1>6, <2>1, RunNowStep, TypeStep DEF IInv, StopOrder
<1>7. CASE Scan
  <2>1. UNCHANGED <<stopped, shutdown>>
    BY <1>7 DEF Scan, stopVars
  <2> QED BY <1>7, <2>1, ScanStep, TypeStep DEF IInv, StopOrder
<1>8. ASSUME NEW e \in Entries, Release(e) PROVE IInv'
  <2>1. UNCHANGED <<stopped, shutdown>>
    BY <1>8 DEF Release, stopVars
  <2> QED BY <1>8, <2>1, ReleaseStep, TypeStep DEF IInv, StopOrder
<1>9. CASE Done
  <2>1. UNCHANGED <<tasks, entry, run, stopped, shutdown>>
    BY <1>9 DEF Done, stopVars
  <2>2. TypeOK'
    BY <2>1, TypeStep DEF RegistryType
  <2>3. Active' = Active
    BY <2>1 DEF Active
  <2>4. WaitGroupCountsRuns'
    <3>1. ending \in 0..MaxPending /\ wg \in Nat /\ wg = Cardinality(Active) + ending
      BY DEF IInv, TypeOK, CountType, WaitGroupCountsRuns
    <3>2. ending' = ending - 1 /\ wg' = wg - 1
      BY <1>9 DEF Done
    <3> QED BY <2>3, <3>1, <3>2, ActiveFinite, PendingBound DEF WaitGroupCountsRuns
  <2>5. shutdown # "done"
    BY <1>9 DEF Done, IInv, ShutdownJoinsRuns
  <2> QED BY <2>1, <2>2, <2>3, <2>4, <2>5
          DEF IInv, RunningMeansOwned, StopOrder, ShutdownJoinsRuns
<1>10. CASE Signal \/ StartLoop \/ ReadClock \/ ScanStopped \/ Woken \/ TimerFires
             \/ SelectDone \/ MarkStopped \/ StopSched \/ Shutdown \/ WaitReturns \/ Tick
  <2> USE DEF Signal, StartLoop, ReadClock, ScanStopped, Woken, TimerFires, SelectDone,
              MarkStopped, StopSched, Shutdown, WaitReturns, Tick, loopVars, stopVars
  <2>1. UNCHANGED <<tasks, entry, run, ending, wg>>
    BY <1>10
  <2>2. TypeOK'
    BY <2>1, TypeStep DEF RegistryType
  <2>3. /\ stopped => stopped'
        /\ shutdown' # "no" => stopped'
        /\ shutdown' = "done" => shutdown = "done" \/ wg = 0
    BY <1>10 DEF IInv, StopOrder
  <2> QED BY <2>1, <2>2, <2>3, SameOwners
<1>11. CASE Crash
  <2>1. RegistryType' /\ Active' = {}
    BY <1>11, BlankTypes DEF Crash, RegistryType, Active, NoRun
  <2>2. TypeOK'
    BY <2>1, TypeStep
  <2>3. RunningMeansOwned' /\ WaitGroupCountsRuns'
    BY <1>11, <2>1, FS_EmptySet
       DEF Crash, RunningMeansOwned, WaitGroupCountsRuns, Free
  <2> QED BY <1>11, <2>2, <2>3 DEF Crash, IInv, StopOrder, ShutdownJoinsRuns
<1>12. CASE UNCHANGED vars
  <2>1. UNCHANGED <<tasks, entry, run, ending, wg, stopped, shutdown>>
    BY <1>12 DEF vars, stopVars
  <2>2. TypeOK'
    BY <2>1, TypeStep DEF RegistryType
  <2> QED BY <2>1, <2>2, SameFlags
<1> QED BY <1>1, <1>2, <1>3, <1>4, <1>5, <1>6, <1>7, <1>8, <1>9, <1>10, <1>11, <1>12
        DEF Next, LoopStep

-----------------------------------------------------------------------------
(* The state stays well typed: in particular the WaitGroup never goes      *)
(* negative, which would panic in Done.                                    *)
THEOREM TypeCorrect == Spec => []TypeOK
<1>1. IInv => TypeOK
  BY DEF IInv
<1> QED BY <1>1, InitIInv, NextIInv, PTL DEF Spec

(* No task function is executing once Scheduler.Shutdown has returned.     *)
THEOREM ShutdownJoins == Spec => []ShutdownJoinsRuns
<1>1. IInv => ShutdownJoinsRuns
  BY DEF IInv
<1> QED BY <1>1, InitIInv, NextIInv, PTL DEF Spec

(* The WaitGroup counter is exactly the number of unfinished runs.         *)
THEOREM RunAccounting == Spec => []WaitGroupCountsRuns
<1>1. IInv => WaitGroupCountsRuns
  BY DEF IInv
<1> QED BY <1>1, InitIInv, NextIInv, PTL DEF Spec

(* An entry is marked running exactly while one goroutine owns it: neither *)
(* the loop nor RunNow starts it twice or passes it over forever.          *)
THEOREM RunningIsOwned == Spec => []RunningMeansOwned
<1>1. IInv => RunningMeansOwned
  BY DEF IInv
<1> QED BY <1>1, InitIInv, NextIInv, PTL DEF Spec

(* Once stopped, the scheduler starts nothing: neither the loop nor RunNow *)
(* creates a new owner.                                                    *)
THEOREM StopIsFinal == Spec => NothingStartsAfterStop
<1>1. IInv /\ [Next]_vars => [stopped /\ stopped' => Active' \subseteq Active]_vars
  <2> SUFFICES ASSUME IInv, Next, stopped, stopped'
               PROVE  Active' \subseteq Active
    OBVIOUS
  <2> USE DEF IInv, TypeOK, RegistryType
  <2>1. ASSUME SameOwnership PROVE Active' \subseteq Active
    BY <2>1 DEF SameOwnership, Active
  <2>2. ASSUME NEW id \in TaskIds, NEW s \in Schedule, NEW e \in Entries,
               RegisterNew(id, s, e)
        PROVE  Active' \subseteq Active
    BY <2>1, <2>2, CallersKeepOwners
  <2>3. ASSUME NEW id \in TaskIds, NEW s \in Schedule, RegisterUpdate(id, s)
        PROVE  Active' \subseteq Active
    BY <2>1, <2>3, CallersKeepOwners
  <2>4. ASSUME NEW e \in Entries, FnReturns(e) PROVE Active' \subseteq Active
    BY <2>1, <2>4, FnReturnsKeepsOwners
  <2>5. ASSUME NEW e \in Entries, Release(e) PROVE Active' \subseteq Active
    BY <2>5 DEF Release, Active, NoRun
  <2>6. CASE Crash
    BY <2>6 DEF Crash, Active, NoRun
  <2>7. ASSUME UNCHANGED run PROVE Active' \subseteq Active
    BY <2>7 DEF Active
  <2> QED BY <2>2, <2>3, <2>4, <2>5, <2>6, <2>7
          DEF Next, LoopStep, Remove, RunNow, SetEnabledNoop, SetEnabled, SetEnabledFails,
              Signal, Done, StartLoop, ReadClock, Scan, ScanStopped, Woken, TimerFires,
              SelectDone, MarkStopped, StopSched, Shutdown, WaitReturns, Tick
<1> QED BY <1>1, InitIInv, NextIInv, PTL DEF Spec, NothingStartsAfterStop

-----------------------------------------------------------------------------
(* The switch.  While the store works, memory, store and what was          *)
(* acknowledged agree, and no two tasks share an entry.                    *)
EntriesAreOwn == \A i, j \in TaskIds : Registered(i) /\ tasks[i] = tasks[j] => i = j
MemoryAgrees == \A id \in TaskIds : Registered(id) => entry[tasks[id]].enabled = stored[id]
StoreAgrees == \A id \in TaskIds : acked[id] # "unknown" => Position(stored[id]) = acked[id]

SwitchInv == EntriesAreOwn /\ MemoryAgrees /\ StoreAgrees

(* Steps that leave the switches of all registered tasks alone.            *)
LEMMA SameSwitches ==
    ASSUME IInv, SwitchInv, UNCHANGED storeVars,
           \A id \in TaskIds : tasks'[id] \in {tasks[id], None},
           \A id \in TaskIds : tasks'[id] # None =>
                 entry'[tasks[id]].enabled = entry[tasks[id]].enabled
    PROVE  SwitchInv'
BY DEF SwitchInv, EntriesAreOwn, MemoryAgrees, StoreAgrees, storeVars, Registered

LEMMA RegisterKeepsSwitch ==
    ASSUME IInv, SwitchInv, ~ReadMayFail, NEW id \in TaskIds, NEW s \in Schedule
    PROVE  /\ \A e \in Entries : RegisterNew(id, s, e) => SwitchInv'
           /\ RegisterUpdate(id, s) => SwitchInv'
<1> USE DEF IInv, TypeOK, RegistryType
<1>1. ASSUME NEW e \in Entries, RegisterNew(id, s, e) PROVE SwitchInv'
  <2>1. /\ e \notin Live /\ tasks[id] = None
        /\ tasks' = [tasks EXCEPT ![id] = e]
        /\ entry' = [entry EXCEPT ![e] =
                      [id |-> id, sched |-> s, enabled |-> stored[id], running |-> FALSE,
                       nextRun |-> NextAfter(s, clock)]]
        /\ UNCHANGED storeVars
    BY <1>1 DEF RegisterNew, RegisteredAs, Registered
  <2>2. e # None /\ \A i \in TaskIds : tasks[i] # e
    BY <2>1, SchedulerAssumption DEF Live
  <2>3. entry'[e].enabled = stored[id] /\ \A f \in Entries \ {e} : entry'[f] = entry[f]
    BY <2>1
  <2>4. tasks'[id] = e /\ \A i \in TaskIds \ {id} : tasks'[i] = tasks[i]
    BY <2>1
  <2>5. EntriesAreOwn'
    BY <2>2, <2>4 DEF SwitchInv, EntriesAreOwn, Registered
  <2>6. MemoryAgrees'
    BY <2>1, <2>2, <2>3, <2>4 DEF SwitchInv, MemoryAgrees, Registered, storeVars
  <2>7. StoreAgrees'
    BY <2>1 DEF SwitchInv, StoreAgrees, storeVars
  <2> QED BY <2>5, <2>6, <2>7 DEF SwitchInv
<1>2. ASSUME RegisterUpdate(id, s) PROVE SwitchInv'
  <2> DEFINE e == tasks[id]
  <2>1. e \in Entries /\ entry' = [entry EXCEPT ![e] = UpdatedEntry(entry[e], s)]
        /\ UNCHANGED <<tasks, storeVars>>
    BY <1>2 DEF RegisterUpdate, Registered
  <2>2. UpdatedEntry(entry[e], s).enabled = entry[e].enabled
    BY <2>1 DEF UpdatedEntry, EntryRecord
  <2>3. \A f \in Entries : entry'[f].enabled = entry[f].enabled
    BY <2>1, <2>2
  <2> QED BY <2>1, <2>3, SameSwitches
<1> QED BY <1>1, <1>2

LEMMA RemoveKeepsSwitch ==
    ASSUME IInv, SwitchInv, NEW id \in TaskIds, Remove(id)
    PROVE  SwitchInv'
<1> USE DEF IInv, TypeOK, RegistryType
<1>1. tasks' = [tasks EXCEPT ![id] = None] /\ UNCHANGED storeVars
      /\ \A f \in Entries \ {tasks[id]} : entry'[f] = entry[f]
  BY DEF Remove, Reclaim, Registered
<1>2. \A i \in TaskIds \ {id} : tasks[i] # None => tasks[i] # tasks[id]
  BY DEF SwitchInv, EntriesAreOwn, Registered
<1>3. \A i \in TaskIds : tasks'[i] # None => entry'[tasks[i]] = entry[tasks[i]]
  BY <1>1, <1>2
<1> QED BY <1>1, <1>3, SameSwitches

LEMMA SetKeepsSwitch ==
    ASSUME IInv, SwitchInv, NEW id \in TaskIds, NEW on \in BOOLEAN,
           SetEnabledNoop(id, on) \/ SetEnabled(id, on)
    PROVE  SwitchInv'
<1> USE DEF IInv, TypeOK, RegistryType, StoreType
<1>1. UNCHANGED tasks /\ acked' = [acked EXCEPT ![id] = Position(on)] /\ tasks[id] \in Entries
  BY DEF SetEnabledNoop, SetEnabled, Registered
<1>2. stored'[id] = on /\ entry'[tasks[id]].enabled = on
  <2>1. CASE SetEnabledNoop(id, on)
    BY <2>1 DEF SetEnabledNoop, SwitchInv, MemoryAgrees
  <2>2. CASE SetEnabled(id, on)
    <3>1. Switched(entry[tasks[id]], on).enabled = on
      BY <1>1 DEF Switched, EntryRecord
    <3>2. entry' = [entry EXCEPT ![tasks[id]] = Switched(entry[tasks[id]], on)]
          /\ stored' = [stored EXCEPT ![id] = on]
      BY <2>2 DEF SetEnabled
    <3> QED BY <1>1, <3>1, <3>2
  <2> QED BY <2>1, <2>2
<1>3. /\ \A i \in TaskIds \ {id} : stored'[i] = stored[i] /\ acked'[i] = acked[i]
      /\ \A f \in Entries \ {tasks[id]} : entry'[f] = entry[f]
  BY DEF SetEnabledNoop, SetEnabled
<1>4. \A i \in TaskIds \ {id} : tasks[i] # None => tasks[i] # tasks[id]
  BY DEF SwitchInv, EntriesAreOwn, Registered
<1>5. EntriesAreOwn'
  BY <1>1 DEF SwitchInv, EntriesAreOwn, Registered
<1>6. MemoryAgrees'
  BY <1>1, <1>2, <1>3, <1>4 DEF SwitchInv, MemoryAgrees, Registered
<1>7. StoreAgrees'
  BY <1>1, <1>2, <1>3 DEF SwitchInv, StoreAgrees, Position
<1> QED BY <1>5, <1>6, <1>7 DEF SwitchInv

LEMMA RunsKeepSwitch ==
    ASSUME IInv, SwitchInv,
           \/ \E id \in TaskIds : RunNow(id)
           \/ \E e \in Entries : Release(e) \/ FnReturns(e)
           \/ Scan
    PROVE  SwitchInv'
<1> USE DEF IInv, TypeOK, RegistryType
<1>1. UNCHANGED <<tasks, storeVars>>
  BY DEF RunNow, Release, FnReturns, Scan
<1>2. ASSUME NEW f \in Live PROVE entry'[f].enabled = entry[f].enabled
  <2>0. f \in Entries /\ entry[f] \in EntryRecord
    BY DEF Live
  <2>1. ASSUME NEW id \in TaskIds, RunNow(id) PROVE entry'[f].enabled = entry[f].enabled
    BY <2>0, <2>1 DEF RunNow, EntryRecord
  <2>2. ASSUME NEW e \in Entries, Release(e) PROVE entry'[f].enabled = entry[f].enabled
    <3> DEFINE released == [entry EXCEPT ![e].running = FALSE, ![e].nextRun = run[e].next]
    <3>1. entry' = IF e \in Live THEN released ELSE [released EXCEPT ![e] = Free]
      BY <2>2 DEF Release, Reclaim
    <3>2. released[f].enabled = entry[f].enabled
      BY <2>0 DEF EntryRecord
    <3>3. entry'[f] = released[f]
      BY <2>0, <3>1
    <3> QED BY <3>2, <3>3
  <2>3. ASSUME NEW e \in Entries, FnReturns(e) PROVE entry'[f].enabled = entry[f].enabled
    BY <2>3 DEF FnReturns
  <2>4. CASE Scan
    BY <2>0, <2>4 DEF Scan, Dispatch, EntryRecord
  <2> QED BY <2>1, <2>2, <2>3, <2>4
<1>3. \A id \in TaskIds : tasks[id] # None => entry'[tasks[id]].enabled = entry[tasks[id]].enabled
  BY <1>2 DEF Live
<1> QED BY <1>1, <1>3, SameSwitches

(* Unless reading or writing the state table fails, a registered task      *)
(* stands where the last acknowledged SetEnabled put it, through removals, *)
(* registrations and crashes in any order.                                 *)
THEOREM SwitchSurvives ==
    ASSUME ~ReadMayFail, ~WriteMayFail
    PROVE  Spec => []AckedSwitchSurvives
<1>1. Init => SwitchInv
  BY DEF Init, SwitchInv, EntriesAreOwn, MemoryAgrees, StoreAgrees, Registered
<1>2. IInv /\ SwitchInv /\ [Next]_vars => SwitchInv'
  <2> SUFFICES ASSUME IInv, SwitchInv, [Next]_vars PROVE SwitchInv'
    OBVIOUS
  <2>1. ASSUME NEW id \in TaskIds, NEW s \in Schedule,
               (\E e \in Entries : RegisterNew(id, s, e)) \/ RegisterUpdate(id, s)
        PROVE  SwitchInv'
    BY <2>1, RegisterKeepsSwitch
  <2>2. ASSUME NEW id \in TaskIds, Remove(id) PROVE SwitchInv'
    BY <2>2, RemoveKeepsSwitch
  <2>3. ASSUME NEW id \in TaskIds, NEW on \in BOOLEAN,
               SetEnabledNoop(id, on) \/ SetEnabled(id, on) \/ SetEnabledFails(id, on)
        PROVE  SwitchInv'
    BY <2>3, SetKeepsSwitch DEF SetEnabledFails
  <2>4. CASE \/ \E id \in TaskIds : RunNow(id)
             \/ \E e \in Entries : Release(e) \/ FnReturns(e)
             \/ Scan
    BY <2>4, RunsKeepSwitch
  <2>5. CASE Signal \/ Done \/ StartLoop \/ ReadClock \/ ScanStopped \/ Woken \/ TimerFires
               \/ SelectDone \/ MarkStopped \/ StopSched \/ Shutdown \/ WaitReturns \/ Tick
               \/ UNCHANGED vars
    <3>1. UNCHANGED <<tasks, entry, storeVars>>
      BY <2>5 DEF Signal, Done, StartLoop, ReadClock, ScanStopped, Woken, TimerFires, SelectDone,
                  MarkStopped, StopSched, Shutdown, WaitReturns, Tick, vars
    <3> QED BY <3>1, SameSwitches
  <2>6. CASE Crash
    <3>1. UNCHANGED storeVars /\ \A id \in TaskIds : tasks'[id] = None
      BY <2>6 DEF Crash
    <3> QED BY <3>1, SameSwitches
  <2> QED BY <2>1, <2>2, <2>3, <2>4, <2>5, <2>6 DEF Next, LoopStep
<1>3. SwitchInv => AckedSwitchSurvives
  BY DEF SwitchInv, MemoryAgrees, StoreAgrees, AckedSwitchSurvives
<1> QED BY <1>1, <1>2, <1>3, InitIInv, NextIInv, PTL DEF Spec
=============================================================================
