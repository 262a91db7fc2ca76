# A verification project for Sonicore

Sonicore is a self-hosted music server: a Go process that scans libraries into
PostgreSQL, serves and transcodes them over REST and Subsonic, plays them on
local audio devices, and runs plugins as child processes. This directory holds
TLA+ models of the parts whose correctness depends on the order in which
goroutines, requests, child processes and failures interleave, the TLC
configurations that check them, and TLAPS proofs of the properties that matter
most.

Paths are relative to the repository root; `map` in `PROJECT.json` names the
source lines behind every definition.

1. [Inventory](#1-inventory) — what the system consists of
2. [Modules](#2-modules) — what is modelled, and how it corresponds to the code
3. [Runs](#3-runs) — what TLC checks, with which bounds
4. [Fairness](#4-fairness)
5. [Proofs](#5-proofs)
6. [Where the code and its documentation disagree](#6-where-the-code-and-its-documentation-disagree)
7. [What is not modelled](#7-what-is-not-modelled)
8. [Plan](#8-plan)

## 1. Inventory

### Components with a protocol of their own

| Component | State | Operations | Talks to | What is hard | Correct means |
|---|---|---|---|---|---|
| **Task scheduler** `internal/infrastructure/task` | `tasks` map of entries, one mutex, one-slot `wake` channel, WaitGroup, `baseCtx`, `stopped`; table `task_state` | `Register`, `Remove`, `SetEnabled`, `RunNow`, `Start` (dispatch loop), `run`, `Shutdown` | plugin manager, library and cache tasks (callbacks); PostgreSQL | signals sent after unlock; a run reads its schedule without the lock; runs against shutdown; store failures and restarts | no due task sleeps for ever; Shutdown outlives every run; an acknowledged switch stays |
| **Plugin manager** `internal/plugin/manager.go` | `running` map (`m.mu`), one lock per plugin, `stopCh`; the plugin's row; child processes; registered schedules | `Start`, `SetEnabled`, `start`, `stopPlugin`, `Install`, `Uninstall`, `Stop`; `watchExit` and `heartbeat` goroutines | scheduler, market, PostgreSQL, child processes | handshake window of a launch against stop; monitors that act by name on a later process; rows written through a request's context | no process is lost track of; the persisted state decides what runs; the page and the schedules belong to a live process |
| **Plugin market** `internal/plugin/market.go` | plugin directory, download cache, catalog | `Install`, `UpdatePlugin`, `Reconcile` | plugin manager's locks | two renames around a restart, rollback of a failed swap | no binary is launched from a directory being swapped |
| **Scanner service** `internal/core/service/scanner_service.go` | `activeScan`, `deleting` (`s.mu`), cached metadata registry with a single flight (`registryMu`) | `StartScan`, `runScan`, `BeginLibraryDelete`, `CancelScan`, `EndLibraryDelete`, `buildRegistry`, `rebuildEngine` | scan engine, repositories, library handler | a delete racing a scan; a bounded wait; cleanup on a dead context | one scan per library; a deleted library stays deleted |
| **Library REST handler** `internal/api/rest/library.go` | library rows; covers and lyrics on disk | `Delete` and CRUD | scanner service, jukebox engines | the teardown is many steps with failures between | as above |
| **Scan engine** `internal/infrastructure/scanner` | none beyond a scan | `ScanLibrary`: walk, parse, write covers, lyrics, rows, prune | repositories, metadata chain, file system | where it notices cancellation, and what it has written by then | nothing is written after a cancelled scan has reported it is done |
| **Player engine** `internal/infrastructure/player/engine.go` | queue, shuffle order, indexes, pid, state (`e.mu`); an ffplay process | `Play`, `Pause`, `Next`, `Prev`, `SetQueue`, `RemoveFromQueue`, `playNext`, exit goroutine | jukebox handler | the exit of an old process against a newer `Play`; index arithmetic over two orders | one process is heard, it is the one the state describes, and playback comes to the end of the queue |
| **Jukebox handler** `internal/api/rest/jukebox.go` | jukebox and device rows, one engine per jukebox | create, update, delete, device bindings, restore, asynchronous save | player engines, PostgreSQL, WebSocket hub | saves in goroutines of their own; engines created anew | a device serves one jukebox, the saved queue survives, a playing engine can be stopped |
| **Transcoder** `internal/infrastructure/transcoder` | cache files, `inflight` and `running` maps | `lockInflight`, `Transcode`, `startTranscode`, segment requests, cleaning | ffmpeg, file system | a shared transcode that fails; a parser that reads a growing file; validity by modification time | one ffmpeg per path; a cached file is whole; what a segment request got is a prefix of it |
| **Download manager** `internal/infrastructure/download` | job rows, cancel functions | `CreateJob`, `runJob`, `Cancel` | sources, PostgreSQL | cancelling before registration; writes through the cancelled context | a job settles as what happened to it |
| **Listening heat** `internal/core/domain/heat.go`, `cache/play_marker.go`, `repository/heat_repo.go` | listen windows and gates in Valkey, events and counters in PostgreSQL | report progress, scrobble, jukebox events, count | Valkey, PostgreSQL | a gate consumed before the transaction it guards; events of one engine from several goroutines | a listen counts once, and heat is the sum of the log |
| **User data handlers** `internal/api/rest/user_data.go`, playlists and stars of `internal/api/subsonic/handler.go` | favorites, playlists, history, saved queue | add, remove, reorder, delete, list | PostgreSQL | heat awarded and taken back next to the rows, statement by statement, while the client may leave | every favorite and listed track has earned its heat once |
| **Accounts and sessions** `rest/auth.go`, `user.go`, `library.go`, `cache/token_store.go` | users, refresh tokens and the set that indexes them, library members | register, login, refresh, logout, change password or role | PostgreSQL, Valkey | whole rows written from copies; tokens and their index in two steps | somebody administers; a logout ends what was issued before it |
| **Settings and notifications** `rest/admin.go`, `service/notification_service.go` | settings table, log level, mail sender, preferences | save a batch, apply, send | PostgreSQL | stored in one step, applied in another | what applies is one saved batch; nobody who opted out is sent a message |
| **Settings cache** `internal/server/server.go` | cached values with a refresh flag | `cachedSettings` | PostgreSQL | readers during a refresh, failing refreshes | a change applies within a TTL |
| **Cover manager** `metadata/cover_manager.go`, `repository/image_repo.go` | image rows, pointers, files | import, restore, backfill, delete, sweep | file system, PostgreSQL | rows, pointers and files are written separately; album rows name the file of a track | a row has its file and no row is left over |
| **Tracks** `scanner/scanner.go`, `merge.go`, `rest/metadata.go`, `repository/track_repo.go` | track rows, ids of other sources, version groups | scan, merge, save, identify, reidentify, regroup | the metadata chain | scan and editor write whole rows read earlier, and regroup one another's versions | one song has one identity and is listed once |
| **Market catalog** `internal/plugin/market.go`, `repo.go` | cached bodies and metas, repository rows | sync, load, add, remove | HTTP | conditional requests on a body and a meta that two steps write | a catalog is that of its repository; 304 means current |
| **WebSocket hub** `internal/api/ws/hub.go` | client list | register, unregister, broadcast | every publisher | the list edited while it is walked | every connected client gets each message once |
| **Metadata chain** `internal/infrastructure/metadata` | sources in priority order | resolve, complete, search | MusicBrainz, NetEase, plugins | partial answers, failing sources | a field comes from the first source that has it |
| **Server wiring** `internal/server/server.go`, `cmd/sonicore` | component lifetimes | start and shut down in order | all | what may still call a component that stopped | plugins stop after the tasks that call them |

### Components without one

Lyrics store, rate limiter, the other repositories (one SQL statement each),
the remaining REST and Subsonic handlers (a read or one statement per request),
plugin host services, the NetEase client, configuration, logging and network
guards, and the browser client. They are listed in `PROJECT.json` with the reason.

### How they interact

```
   REST / Subsonic ──► ScannerService ──► ScanEngine ──► files, tracks, covers
        │                  ▲   shared build of the metadata chain ▲
        │  DELETE library ─┘        metadata editor ──────────────┘
        ├──► Plugin manager ◄── Market (same plugin lock) ──► catalogs, directories
        │        │  ▲ schedules call back into the process
        │        ▼  │
        │     Task scheduler ──► library scans, cache cleaning, plugin tasks
        ├──► user data, history ──► heat ◄── events of the jukebox
        └──► Jukebox ──► Player engine ──► ffplay;   Transcoder ──► ffmpeg
```

The hazards, each at the line where it bites, with the properties that watch it,
are in `PROJECT.json`: 40 of them, all but three watched by a property.

## 2. Modules

| Module | Models | Run |
|---|---|---|
| `TaskScheduler` (`TaskSchedulerProofs`) | the scheduler and its persisted switches | `sched_*` |
| `PluginManager` (`PluginManagerProofs`) | one plugin: manager, market update, monitors | `plugin_*` |
| `ScanService` (`ScannerProofs`) | one library: scans and deletions | `scanner`, `scan_delete_race` |
| `RegistryCache` (`ScannerProofs`), implements `FreshRegistry` | the cached and shared build of the metadata chain | `scanner` |
| `Player` (`PlaybackProofs`) | one playback engine | `playback` |
| `Jukebox` (`PlaybackProofs`) | rows, engines and requests of the jukeboxes | `playback` |
| `Listening` (`PlaybackProofs`) | how a listen becomes heat | `playback` |
| `Transcode` over `Fmp4` (`TranscodeProofs`) | one cache path and the parser of the growing file | `playback` |
| `UserData` (`TracksProofs`) | favorites, playlists, history, saved queue | `library` |
| `Accounts` (`TablesProofs`) | users, tokens, membership | `library` |
| `Settings`, `SettingsCache` (both `TablesProofs`) | saves, their effects and who goes by them; the values in memory | `library` |
| `Covers` (`TablesProofs`) | images: rows, pointers, files | `library` |
| `Tracks` (`TracksProofs`) | identities, aliases, version groups | `library` |
| `Downloads` (`LibraryProofs`) | download jobs | `library` |
| `RepoCache`, `MarketPlugin` (both `LibraryProofs`) | the market's catalogs; one plugin's directories and row | `library` |

`MCTaskScheduler` and `MCPluginManager` define symmetry sets. `MCPluginLiveness`
checks two kinds of behaviour of `PluginManager` in one run: calm ones, in which no process
crashes, no client leaves and the server is not stopped, and ones with those accidents, in which
the plugin is turned on and off only.
`MCScanner`, `MCPlayback` and `MCLibrary` put modules side by side: their parts
share no variable, so a behaviour is one of a single part while the others stay as
they began, which is what one run needs to check several modules. Operators
commented `Mutant:` are variants of the definition below them with a plausible
bug; no specification uses them. Each one is paired in `PROJECT.json` with the
property that has to notice it.

### TaskScheduler

*State.* `tasks` maps an ID to a heap cell, `entry` holds the structs, `run` the
goroutine of an entry. An entry outlives its removal from the map while a run
holds it, as in the code, so the same ID can be registered again meanwhile.
`ending` counts runs that released the lock and have not yet signalled and called
`wg.Done`; `unsignalled` counts API callers between `Unlock` and `signal()`;
`wake` is the one-slot channel. `loop`, `loopNow` and `target` are the dispatch
loop's position, its local `now` and its timer. `stored` is the table, `acked` a
history variable with the position an administrator was last told.

*Actions.* One per critical section of `Scheduler.mu`, plus the steps outside
it: the send on `wake`, the task function's return, the unlocked read of the
schedule at the end of `run()` (a concurrent `Register` may be seen in part:
`Torn`), and each arm of the loop's `select`. `RegisterNew` chooses what a
failing read of the table yields; `SetEnabled` is split by what the write does,
including a timeout after the row was committed; `Crash` drops everything but the
table. `CronNext` stands for the cron library and is only assumed to return a
later time.

*Abstracted.* Task functions are opaque, `Get` and `List` only read,
`lastRun`/`lastErr` are read by nobody inside, `Trigger` validation happens
before the lock.

### PluginManager

Everything the manager keeps is keyed by plugin ID, so the module is about one
plugin and all that may happen to it at once.

*State.* The row (`installed`, `enabled`, `status`, `page`), the `running` entry,
`proc` (child processes: up, hung or dead), `task` (the process whose schedule
the scheduler would call), `dir` (is the directory in place), `lock` (the plugin
lock), `stopCh`. Each request is a record `op[c]` with its position, kind and
what it carries: the process in hand, where to go after a stop, a flag read
earlier, and whether its context is alive. `watch[p]` is the `watchExit`
goroutine of a process, `beat` the heartbeat.

*Actions.* A request walks the code: for example enable is `BeginSetEnabled`
(lock, persist) → `EnableStarts` → `Launch` → `InitOK` → `Register` (which
looks at `stopCh` in the same critical section) → the authoritative re-check →
`ok` status → page probe → return. Disable, uninstall, update and shutdown share
`Take`/`Kill`/`RemoveTasks`. Update then goes `fetch` → `swap` → `swapped` → restart.
Writes through a request's context are lost once the client has gone
(`Write`), and the monitors write through the background context.

*Environment.* `Faults` says what may go wrong: a process crashes (`crash`) or
hangs (`hang`); launching, `Init`, the download or the swap fail (`launch`,
`init`, `fetch`, `swap`); the client disconnects (`disconnect`); a monitor lags
behind the next launch (`slow`; otherwise the two-second poll is assumed to have
ended before the plugin is started again); install and uninstall, which take no
plugin lock, overlap other requests (`unlocked`). Runs name the environment they
assume, and the two findings about the manager need exactly `slow` and
`unlocked`.

### ScanService

*State.* Does the row exist (`row`), are covers or lyrics on disk (`files`),
`deleting` and `active` for `s.deleting[id]` and `s.activeScan[id]`, the scan
goroutines `run` and the delete requests `del`.

*Actions.* A scan goes find → create job → walk/save per file → tail → finalize
the job on a fresh context → statistics (unless cancelled) → `clearActive` →
`close(done)`. The walk looks at the context before each file, and writes cover
and lyrics files before the track row, which fails if the library is gone: the
files stay. A delete goes `BeginLibraryDelete` → cancel → bounded wait →
delete the row → remove files → `EndLibraryDelete`, with the deferred end on
every early return.

*Environment.* `abort`: the wait times out or the client leaves; `db`: the
deleting statement fails; `engine`: a scan cannot read the database; `overlap`:
a second delete of the library may begin while one is at work.

### RegistryCache and FreshRegistry

`FreshRegistry` is the promise: a caller gets a chain of sources built from settings
no older than those of the last explicit rebuild before its call, and an older one
only after a read has failed. `RegistryCache` is `buildRegistry` and `rebuildEngine`
statement by statement: the generation, the slot of the one build in flight, the
callers that wait for it, the settings read one at a time, a failing read, a panic,
and the publication that is skipped if the generation has moved on. The refinement
mapping gives each caller of the cache the position of a caller of the promise;
`KeepsThePromise` is the implication.

### Player and Jukebox

*Player.* `eng` holds the fields of the engine under `e.mu`, each play is one use of
`Engine.Play` with its process and the goroutine that waits for it. Starting ffplay
happens outside the lock, as in the code, so other commands come between;
the end of a track is noticed late and checked against the current play
(`CheckEnd`). Commands are `Play`, `Next`, `Prev`, `Pause`, `Stop`, the queue
operations and the modes. `queuing` says that each command waits for
the play of the one before to start; `PlayingIsHeard` and `PlaybackGoesOn` are about such
commands, as overlapping ones break them (section 6). A wedged engine (a panic with the mutex held) is a state
of the model.

*Jukebox.* A request is a thread and each action a database call or a critical
section. A queue is abstracted to the number of the command that made it. Engines
are created on demand, restored or not, saved by goroutines that may be late, and
removed. `AdminAlone` names the assumption that requests of the administration
(creating, deleting, updating jukeboxes and devices) are not interleaved with others.

### Listening and UserData

*Listening.* Time in ticks; `listenProgressScript` is the Lua script that Valkey runs as one
step, the gates are keys with an expiry, and a count is a transaction on
log and heat. A request is reports, gate, transaction, with the client free to
leave. `MaxLatency` bounds how long a request takes and `EmitsInOrder` says that the
events of one engine reach the handler in order; both are assumptions of the runs,
and named as such because the code does not enforce them.

*UserData.* A request is a thread and each action one statement; between two of
them other requests run, a scan deletes tracks, and the client may leave, which
cancels what is still to come. `clash` remembers what two requests worked on at the same
time or a client left half done: statements are not wrapped in a transaction, so
what the properties promise is for the rest.

### Transcode

One cache path. Whole-file requests take the path's place in `inflight` and look at the
cache again; segment requests start one background transcode and read the growing
file through `Fmp4`, which is the parser: which boxes are seen, which fragments are
complete, which time is covered. Failing, timing out, a replaced source and a stopped
server are the upsets. The finished file is any sequence of boxes that starts with a moov
and goes on with fragments of equal length in time (`BoxesAssumption`); the history
`retried` says that a request which had waited for the path's place found no valid file when
it looked again, which is when waiting requests start transcodes next to each other.

### Accounts, Settings, SettingsCache

`Accounts` has one action per statement of PostgreSQL and command of Valkey; a user's
row is read, changed and written back as a whole. `acked` is a history of the fields that
requests were told they had changed, each taking only what it was asked to change (the write
takes the whole row), which is what makes `UserRowsAreCurrent` say something. `Settings` numbers saves; a
value is the save that wrote it, and applying the log level, the sender and the
preferences follow the transaction as steps of their own. `SettingsCache` is one
goroutine's view of `cachedSettings`: hit, stale hit while another refreshes, refresh,
failed refresh.

### Covers and Tracks

*Covers.* The critical sections of `extractMu` are one action each, with an outcome for
every step in them that can fail or be the last before a crash (`InPlace` and
`Outcomes`); what a request read before it had the lock may be old. An image is its
content. `SweepAlone` names what the comment of `SweepOrphanCovers` asks for. Histories name the owners
that the properties except: those that two requests worked on at once, and those for whom an operation was cut
short with no way back.

*Tracks.* A song is a number and an id is a record of source and song, so that
an id shows who issued it. A scan walks the files in order with the resolved identity,
merges duplicates and regroups versions; the editor's operations work from the
copy they read. The statements of one regrouping are taken as one action. Two histories say what the
properties may promise: `agreed`, that the last regrouping was bypassed by no write from an old copy, and
`scan.tidy`, that the groups a merge worked on were of one text each and no row was edited since.

### Downloads, RepoCache, MarketPlugin

*Downloads.* The goroutine of a job and the calls on it; every write goes through the
job's own context. *RepoCache.* All rows of one repository name, which share one body
and one meta; a sync is a conditional request and two writes, with stops of
the server in between. *MarketPlugin.* The directories of one plugin (its own, the
backups a swap moves versions to, the one an archive is unpacked in), as numbers in the order
of their names, since the discovery of a start goes by that order (a backup's name begins
with the name of the directory it comes from, so it sorts after it; `MaxBackups` bounds how many lie
there), its row and what the repository lists, through install, update, delete, update checks
and the recovery at a start, with a stop or a failure after each step.

## 3. Runs

Each passing run fixes an environment; all finish within about two minutes. Four
runs expect a violation, see section 6.

| Run | Question | Instance | Properties |
|---|---|---|---|
| `sched_safety` | Are runs accounted for, joined, and switches kept, across crashes? | 1 task, 2 entries, interval 1, clock ≤ 2 | `TypeOK`, `ShutdownJoinsRuns`, `WaitGroupCountsRuns`, `RunningMeansOwned`, `AckedSwitchSurvives`, `NothingStartsAfterStop` |
| `sched_liveness` | Are wake-ups ever lost, does Shutdown return? | 1 task, 1 entry, a cron schedule, reads and writes may fail | `DueTaskIsDispatched`, `ShutdownReturns` |
| `plugin_safety` | With process, launch and download failures and shutdown, is every process tracked, every swap exclusive and the row obeyed? | 2 requests, 3 processes, heartbeat on | `TypeOK`, `SwapExclusive`, `LiveIsTracked`, `StopLeavesNothing`, `RunsOnlyIfWanted`, `EnabledMeansRunning` |
| `plugin_lock` | Do launches exclude one another when requests overlap, monitors lag and clients leave? | 2 requests, 2 processes, `slow`, `unlocked`, `disconnect` | `LaunchUncontended` |
| `plugin_liveness` | Is a crash noticed, does every request return; and if launches succeed, do schedules and the data page follow the process? | 2 requests, 2 processes; enable and disable with crashes and lost clients, or requests of every kind without, and failing downloads | `ExitIsNoticed`, `RequestsReturn`, `FollowsInCalm` |
| `scanner` | One scan at a time, nothing outlives a delete, jobs settle, marks are lifted; does the registry keep its promise? | 2 scans, 2 deletes in turn, 1 file; 3 callers, 2 settings, a save, a fault, a rebuild | `TypeOK`, `TeardownAlone`, `GoneForGood`, `WritersAreTracked`, `JobsAreSettled`, `ScanEnds`, `MarkIsLifted`; `RegistrySound`, `KeepsThePromise` |
| `playback` | Is what plays what the engine says, do rows and engines agree, does a listen count once, is a cached transcode whole and current? | see below | `PlayerSound`, `JukeSound`, `ListeningSound`, `TranscodeSound`, `PlaybackGoesOn` |
| `library` | Do the requests and jobs around the library keep their tables, stores and files in agreement? | see below | `UserDataHolds`, `AccountsSound`, `AdminChangesApply`, `CacheSound`, `CoversHold`, `TracksHold`, `DownloadsSound`, `NothingIsTakenAway` |
| `sched_ack_lost` | *violation*: does an acknowledged switch survive a failing store? | reads and writes fail | `AckedSwitchSurvives` |
| `plugin_orphan` | *violation*: can a monitor that lags forget a live process? | `slow` | `LiveIsTracked` |
| `plugin_uninstall_race` | *violation*: does an uninstalled plugin stay stopped? | `unlocked` | `RunsOnlyIfWanted` |
| `scan_delete_race` | *violation*: does a deletion hold when two overlap? | `overlap`, `abort` | `GoneForGood` |

The properties of `playback` and `library` are conjunctions; each part is defined and
explained in its module:

| Property | Parts, beside the types |
|---|---|
| `RegistrySound` | `BuildsAreShared`: no two builds of one generation run at once |
| `PlayerSound` | `OneVoice`: one process is heard; `PlayingIsHeard`: the one the engine names; `WedgedByShuffleOnly` |
| `PlaybackGoesOn` | `PlaysAreNotCutShort`: the end of an old play does not touch the current one; `PlaybackEnds` (liveness) |
| `JukeSound` | `DevicesAreBoundOnce`, `PlayingCanBeStopped`, `RowKeepsQueue`, `MappingReachesEngine` |
| `ListeningSound` | `HeatIsTheLog`, `ListenedIsReal`, `PlaysAreSpaced`, `GateIsNotWasted`, `JukeboxListensOnce` |
| `TranscodeSound` | `CacheIsWhole`, `TranscodesAreShared`, `HitsAreCurrent`, `SegmentsArePrefixes` |
| `UserDataHolds` | `HeatIsItsEvents`, `FavoritesEarnHeat`, `PlaylistsEarnHeat`, `PlaylistsHaveNoDuplicates`, `FavoritesAreListed`, `HistoryOnce`, `QueueIdxInRange`, `PagesAreThePlaylist` |
| `AccountsSound` | `SomeoneAdministers`, `UserRowsAreCurrent`, `LogoutEndsEarlier`, `OwnersSeeTheirs` |
| `CacheSound` | `RefreshIsShared`: one goroutine refreshes a key; `ChangesApplyInTime`: a change is served within a TTL and a query |
| `AdminChangesApply` | of the settings: `SenderIsOneBatch`, `EffectsFollowTable`, `OptedOutGetNothing`; of the catalogs: `CatalogIsOfItsRepo`, `NotModifiedMeansCurrent`; of a plugin's directories: `RowNamesWhatIsThere`, `SwapLosesNothing`, `OnlyVerifiedBytes`, `SourceIsKept`, `OfferIsNewer`, `NoHalfInstalled` |
| `CoversHold` | `NoRowIsLeft`, `CoverIsThere` |
| `TracksHold` | `AliasInStep`, `ListedOnce`, `OneSongOneIdentity` |
| `DownloadsSound` | `EndedIsSettled`, `CancelledIsNotCompleted`, `CompletedHasItsFile` |
| `NothingIsTakenAway` | `SuperAdminsStay`: no request takes a superadmin's role; `NetworkFillsGaps`: a platform's picture never replaces one that is there |

*Bounds.* `TaskScheduler`: two entries are what a removed task with a run in
flight and its re-registration need; a third would only repeat this. `MaxTime` 2
lets a task come due, run, be rescheduled and come due again; two pending
signallers are enough to fill the one-slot channel and have one to spare.
`PluginManager`: two requests give every pair of operations (a third caller of
the same lock only waits), three processes give one being stopped, one being
launched and one that a monitor still remembers. Process numbers and run
objects are reused once nothing refers to them, so no bound on launches or scans
is needed. `ScanService`: the old scan and the one that may follow it, the delete
that waits and the one that disturbs it; one file distinguishes "before", "during"
and "after" the last write. `RegistryCache`: one caller that builds, one that waits and one
that comes after the rebuild; two settings can be read at different times.

`playback`: two tracks and two plays in flight, which is the newest and the one it
replaced; two commands on any queue of at most two. Two jukeboxes that want one of two
devices, two engines (one in the map, one that a request still holds), two requests.
One listener with two requests at a time, a track of two ticks and a clock of four, which
is a listen, a loop and the end of the window. Two stream requests, one upset and a
file of two fragments, whose last one is where a parser of a growing file goes wrong.
The initial states of `Player` include any small queue and order, those of `Jukebox` jukeboxes
that exist already; as jukeboxes and devices are interchangeable, the run starts from one of
the states that differ in their names only.

`library`: two requests of every kind at once; two versions of one recording and one
playlist; two users and three tokens; two saves; a TTL of two in a clock of three; one
track with an album and an artist, two embedded pictures and one from a platform; two files
and two songs with three pieces of work; two jobs; two URLs under one name with four edits;
two versions of a plugin with two accidents. Initial states where earlier requests have left
something replace longer runs.

*Symmetry* is used over entries and over requests, in safety runs only.

*Deadlock* is checked except where the system really may stop: `plugin_safety` includes
shutdown; in `plugin_orphan`, and in the behaviours of `plugin_liveness` that are not calm, only
enable and disable exist and both are refused for a plugin that is not installed; and in
`scanner`, `playback` and `library` the bounded requests run out.

## 4. Fairness

* `TaskScheduler!FairSpec`: weak fairness of the steps of goroutines that are
  runnable (the loop, a caller about to signal, a run that releases its entry or
  calls `Done`, `wg.Wait`), which the Go scheduler gives. A task function need not
  return until the lifecycle context it was given is cancelled; this is why
  `ShutdownReturns` has the premise `RunsInheritLifecycle`, see below. Callers are
  never obliged to call anything, and time need not pass: `DueTaskIsDispatched` is
  about tasks whose time has come.
* `PluginManager!FairSpec`: weak fairness of a request's steps, of shutdown and of
  the monitors, strong fairness of taking the plugin lock (Go's mutex hands over
  to a starving waiter). Every call to a plugin process has a deadline in the code,
  after which the process is killed, so a hung process does not stop a request.
* `ScanService!FairSpec`: only the delete's steps are fair, since its wait is
  bounded by `scanCancelWait` (`DeleteFairness`). A scan may hang in a decoder or a remote source;
  `ScanEnds` therefore states the scan's fairness as its premise, and
  `MarkIsLifted` holds without it.
* `Player`: weak fairness of each play's own steps (the start of ffplay, the goroutine
  that waits for it, the check after 300 ms), since ffplay comes to the end of a file. Commands are
  never obliged. `PlaybackEnds` is about a queue without
  duplicates that no command changes any more, in normal or shuffle mode.
* `RegistryCache`: weak fairness of each caller once it has called: reads of the
  settings have deadlines and a closed channel wakes everybody who waits.

## 5. Proofs

The proofs hold for every value of the constants that the named assumption of each module
allows: any number of tasks, requests, processes, scans, callers, jobs or streams, any
schedules, any bounds. The assumptions say that bounds are naturals and that the model
values which stand for "none" are none of the others; where one says more, it is given below. A
theorem about some environments only has them as explicit hypotheses on `Faults`.

**TaskScheduler** (`SchedulerAssumption`: besides, intervals are positive and cron's next
time is later than its argument). `IInv` is the conjunction of `TypeOK`,
`RunningMeansOwned`, `WaitGroupCountsRuns`, `StopOrder` and `ShutdownJoinsRuns`.

* `TypeCorrect`: `Spec => []TypeOK`.
* `RunAccounting`: `Spec => []WaitGroupCountsRuns`, and `RunningIsOwned`:
  `Spec => []RunningMeansOwned`. The count is not inductive alone: that a start adds exactly
  one goroutine needs the running flag to tell who owns an entry. The step that counts is a
  lemma about the cardinality of `Active` when one entry enters or leaves it.
* `ShutdownJoins`: `Spec => []ShutdownJoinsRuns`. When `wg.Wait` returns the counter is
  zero, so nothing runs; `stopped`, which Shutdown sets first (`StopOrder`), then keeps
  the loop and `RunNow` from adding.
* `StopIsFinal`: `Spec => NothingStartsAfterStop`, an action property.
* `SwitchSurvives`: with a store that does not fail (`~ReadMayFail`, `~WriteMayFail`),
  `Spec => []AckedSwitchSurvives`. `SwitchInv`: tasks have entries of their own, an entry's
  flag is the table's, and the table says what was last acknowledged. `sched_ack_lost`
  shows that the hypothesis cannot be dropped.

**PluginManager** (`CallersAssumption`, `BoundAssumption`, `ChoiceAssumption`: the kinds and
faults are known ones). Four invariants, each over the ones before it.

* `TypeCorrect`, in the parts row, map, processes and requests.
* `LaunchesExclude`: `Spec => []LaunchUncontended`, in every environment. `LockInv`: a
  request of a kind that takes the plugin lock holds it from its first step to its return,
  the steps of a launch and of a swap are reached by such requests only, and between seeing
  or making the running entry empty and registering, it stays empty. Monitors and
  unlocked requests can only empty the entry, so nothing need be assumed of them.
* `NoProcessIsLost`, `SwapsAreExclusive`, `StopIsThorough` (`LiveIsTracked`, `SwapExclusive`,
  `StopLeavesNothing`) if neither `slow` nor `unlocked` is among the faults. `TrackInv`: a
  live process is registered, in the hands of the request that launches or stops it, or about
  to be killed; a monitor that would clear the entry finds its own process there; until
  `Stop`, no monitor is about during a handshake; after it nothing registers.
* `RowIsAuthoritative`, `EnabledIsHonest` (`RunsOnlyIfWanted`, `EnabledMeansRunning`) if
  `disconnect` is not among the faults either. `WantInv`: what a request decided by the row
  it read is still what the row says, so what is registered is wanted, and what is
  wanted but missing is in somebody's hands.

  How much of the hypotheses is needed, by TLC on the instance of `plugin_safety` with the fault
added (besides the runs of section 3): `unlocked` breaks `LiveIsTracked`, `SwapExclusive` and
`StopLeavesNothing`; `slow`   breaks `LiveIsTracked` (`plugin_orphan`), `SwapExclusive`,
`StopLeavesNothing` and   `EnabledMeansRunning`; `disconnect` breaks `EnabledMeansRunning`
(section 6). TLC   finds no violation of `RunsOnlyIfWanted` under `disconnect`, but it is not
proved for it.

* `ScheduleAndPageFollow`: `LaunchesSucceed` implies `LiveSpec => []FollowsInCalm`, whatever is
  requested in a calm behaviour, with the heartbeat on or off. `LaunchesSucceed` excludes `slow`,
  `unlocked`, `launch`, `init` and `swap`, and TLC finds `FollowsInCalm` violated with any one of
  the five added to the instance of `plugin_liveness`. `FollowInv`: every process that was not told to
  end is up, and no monitor has anything to notice (`AllUp`, `Unmoved`); a schedule belongs to the
  registered process, or to one in the hands of the request that launches it or takes it away
  (`TaskFollows`); the page is shown only while a process is registered, or an update that has
  taken it away is still to start the next (`PageFollows`); the directory is missing only in the middle of
  a swap (`InPlace`), so such an update does start it. TLC
  found no violation of it in 229,016 states with three processes before it was proved.

**ScanService** (`ConstantsAssumption`).

* `TypeCorrect`, which carries that a scan has a file left when it saves one.
* `ScansAreTracked`: `Spec => []WritersAreTracked`, overlapping deletes included.
* `TeardownIsAlone`, `DeletionIsFinal` (`TeardownAlone`, `GoneForGood`) if deletions do not
  overlap (`overlap` is not among the faults). At most one delete is at work; its mark
  stands; the run it waits for is the only one that can be active, and once it is let through
  none is; once the row is gone no scan can be at a writing step. `scan_delete_race` shows
  that the hypothesis cannot be dropped.
* `JobsSettle`: `Spec => []JobsAreSettled`. A job says "running" from its insert until
  `finalize`, which by then knows an outcome (`JobInv`).

**RegistryCache** (`RegistryAssumption`). `RInv`: each builder holds the generation it began
with, at most one is of the current generation and then the slot is its; what a builder has
read so far is new enough for its caller, for all that wait for it, and, while its generation
lasts, for all that may still join it or hit what it publishes (`BuildsServe`).

* `BuildsShared`: `RegistrySpec => []RegistrySound`.
* `KeepsTheSafePromise`: `RegistrySpec => Promised!FreshSafety`, the refinement of
  `FreshRegistry` without its fairness: the initial state is one of the promise's, and
  every step is one of its steps or a stutter under the refinement mapping.

**SettingsCache** (`CacheConstants`: the TTL is positive). `ChangesReachReaders`:
`CacheSpec => []CacheSound`. `CacheInv`: marks belong to the goroutine that set them and end
within its timeout; what a query brought is what the table says or was overtaken since
it began; so is an entry, up to the time of a query.

**Downloads** (`DownloadsAssumption`). `DownloadsAreSound`: `DownloadsSpec => []DownloadsSound`.
`DownloadsInv`: only the job's goroutine writes its row, and only while its context lives; a
cut context is one that a cancel found registered; and where names are a job's own
(`OwnNames`), what was copied stays in the file.

**Settings** (`SettingsConstants`: `Never` is no number). `SettingsTakeEffect`: `SettingsSpec =>
[]SettingsSound`. `SettingsInv`: values are numbers of saves that were made (`Numbered`); for each
of the three effects, unless two requests with that effect overlapped (`crossed`), at most one
request has it still to bring about and holds what the table says, and when none has, the effect is
there (`LevelPending`, `SenderPending`, `PrefsPending`); what is or will be the sender was in the
table at one moment (`WholeBatches`); whoever had opted out when recipients were resolved
and has not asked for messages since is still out (`OutKnown`).

**RepoCache** (`RepoCacheAssumption`: `NoFile` is no catalog). `CatalogsAreTheirs`: `InTurn` implies
`RepoSpec => []RepoCacheSound`. `InTurn`, one sync at a time from servers that send an ETag, is the
environment in which the run checks it; section 6 has what happens otherwise. `RepoInv`: a sync that
asks sends the validators of the meta file as it is; an answer is of the sync's URL and no older
than what the meta file vouches for (`Fits`); the body is never older than a meta file of its
URL (`Vouched`), and without a stop between the two files they say the same (`Together`). That
there is a newest publication (`PublishedFacts`) follows from the well-foundedness of `<` (`LargestExists`).

**MarketPlugin** (`MarketPluginAssumption`: `Nowhere` is neither a content nor a row).
`PluginFilesAreTheirs`: `~Flat` implies `MarketSpec => []MarketSound`; with `Flat` archives
`NoHalfInstalled` fails (section 6). `MarketInv`: what lies in a directory but the temporary one is
whole and verified; the directory an operation will fill is empty, and filled with the
operation's version afterwards unless someone deleted it (`PlaceInv`); the row, installed or not, names
the version in its directory, except between the files and the row of an operation, and between
the renames of a swap the backup is the row's version (`RowInv`); an installed row has a
whole version somewhere and no install under way (`WholeInv`); a flag, or a check about to
store one, is about a newer version unless `late` (`OfferInv`). That the last discovered directory
exists (`LastOf`) is `LargestExists`.

`ChangesApply` puts the three together in the composition that the run checks: `InTurn` and `~Flat`
imply `LibrarySpec => []AdminChangesApply`, from the parts' invariants, each under the condition
that its part is the one that runs.

**Accounts** (`AccountConstants`). `AccountsInv` is about types, roles, rows, tokens and owners.

* `AccountsAreSound`: `AccountsSpec => []AccountsSound`. A request that is about to write a
  row holds a copy that is current but for what it was asked to change, unless two were at
  that row (`RowInv`); a token is in its user's index, about to be put there, or one that
  slipped, and an index about to be emptied holds no other live token (`TokenInv`).
* `SuperAdminsAreSafe`: `AccountsSpec => SuperAdminsStay`, one half of `NothingIsTakenAway`: a
  request that is about to write a superadmin's row has read a superadmin's.

**Covers** (`CoversAssumption`). Two invariants, for any tracks, contents, requests and images.

* `RowsInv`: a row's id was given out and its path is its owner's or, for an album, a track's
  (`Shaped`); a pointer points at a row of who has it (`PointersOwn`); whoever is there and was
  neither imported for by two requests at once (`coverCrossed`) nor had an import cut short (`torn`) has the
  row pointed at and no other (`LeftNone`); and what a request read before it had the lock is still
  the rows of its owner and of the album, with the same exceptions (`Knows`). From it follow
  `NoRowIsEverLeft`: `CoversSpec => [](CoversTypeOK /\ NoRowIsLeft)`, and `NetworkNeverReplaces`:
  `CoversSpec => NetworkFillsGaps`.
* `FilesInv`, besides: an album row at a track's path exists only while the track has a row itself
  (`RowedDb`); the rows a sweep took for orphans are still orphans when it removes them, and a path it
  takes to be nobody's is nobody's (`Sweeps`); all rows at a path say the same, and the file is that
  or missing (`Coherence`). `CoversAreSound`: `SweepAlone` implies `CoversSpec => []CoversSound`. Section 6
  says what a sweep next to a deletion does.

`CoversAlwaysHold` and `NothingIsEverTakenAway` are the same in the composition: `SweepAlone` implies
`LibrarySpec => []CoversHold`, and `LibrarySpec => NothingIsTakenAway` without hypothesis.

**UserData** (`UserConstants`: tracks and lists are finite sets). `UserDataIsSound`: `UserSpec
=> []UserSound`, for any tracks, versions, playlists, requests and clients that leave.
`UserInv`: the types, and what each position of a request implies for what it holds
(`TablesInv`, `RequestsInv`); two requests at work on one thing have it in `clash` (`ApartInv`);
for the rest, a favorite has its event unless one request has just written the row and is about
to award it, or deleted it and is about to reverse it (`FavoriteInv`), and the same for a
playlist and the tracks it awards (`ListsInv`); a request on one version of a recording goes
through all of them, so those it has passed are as it wants and, when nobody is at it, all are
as the main one (`SpreadInv`, `VersionsInv`); a track has at most one row in the history, and
none between the deletion and the new row (`HistoryInv`). `HeatIsItsEvents` is a conjunct of its
own. `UserDataAlwaysHolds`: `LibrarySpec => []UserDataHolds`.

**Tracks** (`TracksAssumption`: songs are finitely many). `TracksAreSound`: `TracksSpec =>
[]TracksSound`, for any files, songs, ids, edits and lengths of behaviour. `TracksInv`: every
row, and every copy a scan or the editor holds, has the alias of its source equal to its id
(`TrackRowsInv`, `ScanInv`, `EditInv`); group records and remembered identities are of what was
found (`RestInv`); unless a regrouping was bypassed, the versions of each song are numbered with
the best file first (`NumbersInv`); and `OneSongOneIdentity` itself. It rests on three groups of
lemmas: what regrouping does (it numbers the group it reads and leaves every other as it was),
what an edit that moves a row from one group to another does to both, and `MergeMakesOneSong`:
after the merge, tracks of one text have one identity, and within a group one set of aliases.
`TracksAlwaysHold`: `LibrarySpec => []TracksHold`.

**Player** (`PlayerConstants`). `PlayerInv`, for any tracks, plays, queues and commands:

* the fields' types, with the position of a shuffled order among its positions (`InOrder`) and
  the index in the queue until a track is removed in shuffle mode (`IndexInQueue`): from this
  alone follows that only such a removal lets `Prev` panic with the lock held;
* `VoiceIsHeld`: a process that was not told to end, or is about to start, is the one
  `e.cancel` names, hence the only one;
* `Orderly`, when commands wait for each other's play: one play at a time is on its way, and
  the engine has no pid meanwhile; a pid is that of an uncancelled play of the current track;
  and an engine that plays with nothing on its way has one.

`PlayerIsSound`: `PlayerSpec => []PlayerSound`. `PlaysEndByCommand`: `PlayerSpec =>
PlaysAreNotCutShort`; only a play that takes over cancels another (`CancelledByTakeover`), and a
goroutine on its way to the next track finds no other play to cancel. That every position
has a place in a shuffled order (`PositionExists`), which the search in `SetPlayMode` relies
on, is an injection between sets of one size; that the first occurrence of a track exists
(`LeastExists`) is the well-foundedness of `<`.

**Jukebox** (`JukeConstants`). `JukeboxesAgree`: `AdminAlone` implies `JukeSpec => []JukeSound`. The
hypothesis is the assumption under which the run checks `JukeSound`: section 6 says what
happens when the administration is not alone. Requests of playback overlap without limit.
`JukeInv` consists of

* `Alone`, who administers is the only request;
* `InHand`, what a request read and looked up still stands: a row keeps its device and
  mapping under a playback request, its engine stays the manager's, a device that was found
  free is free;
* `KnownIds`: an id is given once, to a row, its engines and their saves;
* `BoundOnce`, `EnginesAreTheirs` and `PlayingIsManaged`: the properties about devices and
  engines, with what holds between a deletion's row and its engine, and between a new
  mapping in the row and in the engine;
* `QueueIsKept`: the last save under way, or the row if there is none, has the queue the
  engine plays from, unless a request has still to restore it or is about to throw it away.
  Two lemmas about sequences carry it: a save that is appended is its jukebox's last
  (`LastAppended`), and one that lands with no other queue before it leaves the last one
  (`LastRemoved`).

**Listening** (`ListeningConstants`: the limits of `heat.go` are positive, and `jukebox`, in whose
name the jukebox's plays are logged, is no user). `ListeningInv`, for any users, requests, track,
limits and bounds:

* `TimesPast` and `GatesHold`: what is on record is past, and a gate that opened for a play stays
  shut for a window, which gives `PlaysAreSpaced`;
* `OwnTokens`, `TokensAreDrawn`: the token a request brings is its own until a listen takes it;
* `ThroughOnce`: a token's play is in the log, or with one request that came through the gate,
  or neither. It needs two facts about time under `Punctual`: a request still waiting for the
  gate with a token the gate has opened for will find it shut (`ShutForLate`), and so will every
  request of the listen that has the token, until that listen is over (`ShutForListen`);
* `TokensOfHeard`, and `JukeboxInv` if changes arrive in order: what is on its way
  to the handler is sorted by playback instance, and a finished listen is of an instance that is over.

`HeatIsNotForged`: `ListeningSpec => [](HeatIsTheLog /\ ListenedIsReal /\ PlaysAreSpaced)`, however long
requests take and in whatever order changes arrive. `ListenCountsOnce`: `Punctual` and
`EmitsInOrder` imply `ListeningSpec => []ListeningSound`, which adds `GateIsNotWasted` and
`JukeboxListensOnce`. `Punctual` says that a request takes less than the shortest window and is over
before a listen it overlaps could count again. None can be dropped: TLC finds
`GateIsNotWasted` violated on the instance of `playback` with `MaxLatency = 2`, which is
`RateFloor`; with `RateFloor = 4` and `MaxLatency = 2`, where half of the track takes one tick; and
`JukeboxListensOnce` violated with four commands and `EmitsInOrder = FALSE`.

**Transcode** and **Fmp4** (`TranscodeAssumption`, `BoxesAssumption`). `TranscodesAreSound`:
`TranscodeSpec => []TranscodeSound`, for a file of any number of fragments and boxes of any
size. One half is about the parser and has no state: box offsets grow, an index of the first
`n` units of the file is a prefix of that of the whole (`IndexPrefix`), all time it claims to
cover lies in fragments it has (`Covered`), and so what is cut from a growing file is a
prefix of what would be cut from the finished one (`CutIsPrefix`). The other half is
`TranscodeInv`: only whole files are in the cache, of the current source unless it was replaced
while being read; whoever writes has a temporary file and is the one in `inflight`, as long
as nobody who had waited transcodes on his own; a request that answers from a file parsed it.

`Offset` is a recursive function over the boxes. That it exists at all, hence unfolds, is an
induction: the library's induction theorems take an operator as a parameter and cannot be
instantiated by the installed provers, so `TranscodeProofs` derives the principle for sets of
naturals (`Induction`) from the well-foundedness of `<` (`WFMin`).

*What the proofs corrected.* `acked` in `Accounts` used to take the whole row a request wrote,
so that `UserRowsAreCurrent` compared the table with a mirror of itself; it now takes the field
that was asked for. `TranscodesAreShared` excused only failed transcodes; its invariant was not
inductive, and TLC with three streams (the run has two) showed why: with a source replaced at
the end of a transcode nothing fails, and still all waiting requests start one each. `retried`
now says when that happens. With three streams, no upset and the corrected property TLC finds
nothing in 1,050,177 states. Deleting a device in `Jukebox` did not keep which device the
request had found free, and dropped any: with the one device of the earlier run that was the
same, with two TLC finds a jukebox without a device. The request now keeps it, as the handler
does, and the run has two. `MarketPlugin` had two names for backups: a version could be moved
onto itself and lost once both were taken, which the code's names exclude; and its cleaning
removed all backups where `swapPluginDir` removes its own. A swap now takes any free name after
the directory's, removes that one, and the rollback of a failed swap may fail as well, as in the
code. With four accidents, four requests, three versions and three backups TLC finds nothing in
6,330,375 states. `Listening` summed the log with a fold, about which nothing can be proved
here; it now counts the events of each kind, which is also how `heat.go` has it: one weight per
kind. `CoverIsThere` of `Covers` was not inductive: two forced imports that overlap leave two
rows, and a third request that had read the first of them restores it, or rolls back to it, over
the file of the second. TLC with three requests (the run has two) shows it; the property now
excepts `Doubled` paths, and section 6 lists them. `NetworkFillsGaps` had excepted a scan's
force only where the platform's picture is asked for; the rollback of a failed embedded import
restores one as well. `OneSongOneIdentity` of `Tracks` compared all files of a text, which the
instance of two cannot tell from what `merge.go` promises: with three files TLC finds groups
that already mix texts and that a merge does not split. It is now about merges of groups that
are of one text each (`tidy`), until somebody edits a row; so stated it is checked with three
files as well (16.7 million states; with two files and a fourth piece of work 25.8 million), and
proved. The lists of `UserData` were built by a fold; they are stated by the positions picked.

*Only model-checked.* The liveness properties `DueTaskIsDispatched`, `ShutdownReturns`, `ExitIsNoticed`,
`RequestsReturn`, `ScanEnds`, `MarkIsLifted` and `PlaybackEnds`, with the liveness half of
`KeepsThePromise`: fairness and `ENABLED` are outside the prover's reach. Every invariant and every safety
action property that a run checks is proved.

## 6. Where the code and its documentation disagree

Each of the first four has a run that TLC finds violated; the trace is the
explanation.

1. **A switch that was acknowledged is lost** (`sched_ack_lost`,
   `scheduler.go:275`). After a failed read the task is registered disabled while
   the table says enabled. Disabling it returns success without writing, because
   the flag already has that value; the next start enables it.
2. **A monitor forgets a live plugin** (`plugin_orphan`, `manager.go:408`).
   `watchExit` polls every two seconds and deletes the entry under the plugin's
   *name*. Disable and enable within a tick, and it removes the new process's
   entry: the process lives on, unreachable.
3. **An uninstalled plugin keeps running** (`plugin_uninstall_race`,
   `manager.go:801`). `Uninstall` does not take the plugin lock and writes the row
   last; a launch that registers after it looked, and re-checks before it wrote,
   stays.
4. **Two overlapping deletes of a library** (`scan_delete_race`,
   `scanner_service.go:352`). The mark is a flag; the end of one delete lifts it
   for the other, and a scan that starts then recreates files of a library whose
   row is already gone.

Seen while modelling, without a run of their own; each is a state the modules can reach,
and the properties above are stated for the rest, or under a named assumption.

*Scheduler, plugins, scans.*
* `RunNow` before `Start` has set `baseCtx` runs under `context.Background()`, so
  shutdown does not cancel it (`RunsInheritLifecycle`; `scheduler.go:86` says
  otherwise).
* `run()` computes the next run from a schedule read before the lock and
  overwrites what a concurrent `Register` has reset (`NextRunWithinSchedule`).
* A launch whose `Init` fails leaves the schedules the plugin registered during
  it (`TasksReachProcess` under `init`).
* The rollback of a failed enable is written through the request's context and is
  lost with the client (`EnabledMeansRunning` under `disconnect`).
* `has_page` survives an update whose restart fails (`PageOnlyIfRunning` under
  `launch`).
* The comment on `scanRun` (`scanner_service.go:31-34`) says `CancelScan` removes
  the entry; only the scan itself does. A scan job's row stays "running" after a
  stop of the server; nothing reads it.
* After a rebuild, a failed read publishes the last good chain although it is older
  than the rebuild; settings are read one by one, so a chain may mix two saves.

*Market.*
* Two overlapping syncs can leave an older body under a newer meta, which answers 304 until
  the next publication (`NotModifiedMeansCurrent` needs `SyncsAlone`). With servers that send only
  `Last-Modified`, a name added again with another URL is served the other body.
* An archive without a top-level directory is unpacked in the directory the next start
  discovers; a stop meanwhile leaves it half unpacked (`NoHalfInstalled` under `Flat`, against
  the comment of `fetchAndExtract`). A stop before the backup is removed leaves `name.old-N`.
* A stop between `Install`'s rename and its row makes the plugin a local one; `Reconcile`
  racing `Delete` or `Uninstall` brings a plugin back; `checkUpdates` racing an
  update stores a stale flag.

*Player and jukebox.*
* The pid stored last wins: of two overlapping plays the older one's, and playback
  stops at the end of the track. A play that cannot start marks the engine stopped although a
  newer one plays.
* Removing tracks in shuffle mode leaves `queueIdx` behind the queue; a later `Prev`
  panics with the mutex held, and the engine is wedged.
* A change of mode writes back the row it read and overwrites a pending save; `Update`
  replaces the engine without restoring it, as does Subsonic's `jukeboxControl`; deleting a
  device can leave a row without one, on which the list fails.
* Deleting a library filters queues without `queue_idx`, and its rewriting of an engine's
  queue loses what is queued meanwhile.

*Listening and user data.*
* Events of one engine out of order count a listen twice (`EmitsInOrder`); a gate
  consumed before a count that fails loses the listen.
* Playlists are read, changed and written: two changes at once lose one. A client that
  leaves between a row and its award leaves heat wrong. `AddHistory` twice at once leaves two rows.

*Accounts and settings.*
* Two first registrations at once make two superadmins; a password and a role changed
  at once undo each other; two refreshes with one token both succeed; a token stored while
  `RevokeAll` empties the index survives it.
* Two saves may be applied in the other order than they were committed; a failed read of the
  overrides mails somebody who opted out; the first readers of a setting get the empty value.

*Covers and tracks.*
* A sweep that runs next to a deletion or an import takes a cover in use (`SweepAlone`).
  Overlapping restores leave a row nobody points to. Of three requests two may leave two rows of one
  owner, and the third, which read the first row, puts its picture over the file of the second.
* Regrouping works from the rows it read: a group that changed meanwhile pulls a
  track back (`GroupsAreCurrent` does not hold, against the comment at
  `rest/metadata.go:1501`). A rewritten row loses heat that was counted meanwhile, and after
  "unmatched" a version that is not the first is listed nowhere (`UnidentifiedAreListed`). A file of a
  version that is not the first, replaced by one of another song, keeps its place in the recorded group
  (`scanner.go:572`): the merge does not compare it and gives it the identity of the old song's main version,
  until that group is replaced.

*Transcoder and downloads.*
* `waitForOutput` on a timeout waits for a pipe that never closes, and the path's place in
  `inflight` is never given back. When a transcode leaves no valid file (it failed, its source
  was replaced, the file was cleaned), all that waited for it start one each, next to each other.
* A source replaced during its transcode leaves a cached file of the old content that
  counts as valid. `fmp4.go`'s comments that a request waits for its data and that no
  fragment is torn do not hold (`RequestsWaitForTheirData`, `NoFragmentIsTorn`).
* A cancel before the job's goroutine has registered is answered and lost; a job of a deleted
  library goes on; jobs that a stop interrupts stay "downloading"; two jobs with one file
  name overwrite each other.

## 7. What is not modelled

* *Parts of modelled components*, listed with each component in `PROJECT.json`: plugin
  configuration, log streaming and notifications; volume and positions of the player; scores,
  uploads and the rendering of lists; blocking and deleting users; thumbnails; artists, albums and
  lyrics of a scan and its pruning of vanished files; searches of the editor.
* *Interaction of the modelled parts through shared rows.* Deleting a track changes heat,
  favorites, playlists, covers and queues; each module has that deletion as an action of its
  environment, but no module composes all of them.
* *The WebSocket hub and long-lived connections.* Notices only; clients read the state
  when they connect.
* *External programs and stores.* ffmpeg, ffplay, Valkey and PostgreSQL are modelled by what
  the code relies on; transactions are atomic.
* *No protocol of their own*: clients of the sources, parsing, formatting, configuration, logging,
  the browser application.

## 8. Plan

The modules above cover the components with a protocol of their own, and the safety properties of
the runs are proved. What would come next is wider, not deeper: a composition in which the deletion of a
track reaches heat, favorites, playlists, covers and queues at once, and the remaining
handlers of section 7.

There is one proof module for each part of the system: `TablesProofs` has the tables with a
protocol of one row (`Accounts`, `SettingsCache`, `Settings`, `Covers`), `TracksProofs` has `UserData` and
`Tracks`, `LibraryProofs` the market and the downloads and, over the two others, the composition `MCLibrary`;
`ScannerProofs` has `ScanService` and `RegistryCache`; `PlaybackProofs` has `Player`, `Jukebox` and `Listening`.
