------------------------------- MODULE Jukebox --------------------------------
(* The jukeboxes' rows, the engines in memory and the requests between them: *)
(* src/internal/api/rest/jukebox.go with EngineManager (infrastructure/     *)
(* player/engine.go) and the repositories of jukeboxes and audio devices.   *)
(* What an engine does with its queue is module Player; here a queue is the *)
(* number of the command that made it, 0 the empty one.  A request is a      *)
(* thread: each action is one database call or one critical section.         *)
EXTENDS Naturals, FiniteSets, SequencesExt

CONSTANTS
    Jukes, Devices,  \* jukeboxes and audio device configurations
    Engines,         \* engine objects
    JukeThreads,     \* HTTP requests at work at the same time
    Nothing,         \* no engine, no device, no row (SQL NULL)
    MaxJukeRequests, \* bound: requests made
    AdminAlone       \* does a request of Admin have the server to itself?

ASSUME JukeConstants == /\ MaxJukeRequests \in Nat /\ AdminAlone \in BOOLEAN
                        /\ Nothing \notin Jukes \cup Devices \cup Engines
                        /\ Nothing \notin [device: Devices \cup {Nothing}, queue: Nat, map: Nat]
                        /\ Jukes # {}

VARIABLES
    jrow,     \* table jukeboxes: device, queue, path mapping, or Nothing
    device,   \* table audio_devices: which configurations exist
    manager,  \* EngineManager.engines
    object,   \* the engine objects
    saving,   \* SaveState goroutines under way, in the order of their start
    jreq,     \* the requests
    made,     \* history: requests made, also the next queue's number
    known,    \* history: the jukebox ids given so far (ids are never reused)
    overtaken,\* history: a later save landed before an earlier one, per jukebox
    renamed   \* history: jukeboxes whose engine Update replaced

jukeVars == <<jrow, device, manager, object, saving, jreq, made, known, overtaken, renamed>>

JPcs == {"idle", "read", "ensure", "restore", "act", "mode", "write", "remove",
         "engine", "mapping", "bound", "insert", "drop"}
Kinds == {"status", "play", "stop", "queue", "clear", "mode", "update", "delete",
          "settings", "create", "undevice"}
Saved == MaxJukeRequests + 1  \* the queue a row may hold from earlier
QueueIds == 0..Saved
RowRecord == [device: Devices \cup {Nothing}, queue: QueueIds, map: QueueIds]
Unused == [juke |-> Nothing, queue |-> 0, map |-> 0, playing |-> FALSE]

JukeTypeOK ==
    /\ jrow \in [Jukes -> RowRecord \cup {Nothing}]
    /\ device \subseteq Devices
    /\ manager \in [Jukes -> Engines \cup {Nothing}]
    /\ object \in [Engines -> [juke: Jukes \cup {Nothing}, queue: QueueIds, map: QueueIds, playing: BOOLEAN]]
    /\ saving \in Seq([juke: Jukes, queue: QueueIds])
    /\ jreq \in [JukeThreads -> [pc: JPcs, kind: Kinds, juke: Jukes, n: QueueIds,
                                 eng: Engines \cup {Nothing}, row: RowRecord \cup {Nothing}]]
    /\ made \in QueueIds /\ known \subseteq Jukes /\ overtaken \subseteq Jukes /\ renamed \subseteq Jukes

Idle(j) == [pc |-> "idle", kind |-> "status", juke |-> j, n |-> 0, eng |-> Nothing, row |-> Nothing]

(* After a start of the server: rows, with a queue or without, no engine. *)
JukeInit ==
    /\ jrow \in [Jukes -> {Nothing} \cup [device: Devices, queue: {0, Saved}, map: {0}]]
    /\ \A j, k \in Jukes : j # k /\ jrow[j] # Nothing /\ jrow[k] # Nothing => jrow[j].device # jrow[k].device
    /\ device = Devices
    /\ manager = [j \in Jukes |-> Nothing] /\ object = [e \in Engines |-> Unused]
    /\ saving = <<>> /\ jreq = [r \in JukeThreads |-> Idle(CHOOSE j \in Jukes : TRUE)]
    /\ made = 0 /\ known = {j \in Jukes : jrow[j] # Nothing} /\ overtaken = {} /\ renamed = {}

-------------------------------------------------------------------------------
(* The parts every request is made of. *)

At(r, kinds, pc) == jreq[r].pc = pc /\ jreq[r].kind \in kinds
JGoto(r, pc) == jreq' = [jreq EXCEPT ![r].pc = pc]
Done(r) == jreq' = [jreq EXCEPT ![r] = Idle(jreq[r].juke)]
Playback == {"status", "play", "stop", "queue", "clear", "mode"}
Admin == Kinds \ Playback

Request(r, k, j) ==
    /\ jreq[r].pc = "idle" /\ made < MaxJukeRequests
    /\ AdminAlone => \A q \in JukeThreads : jreq[q].pc = "idle" \/ {k, jreq[q].kind} \cap Admin = {}
    /\ made' = made + 1
    /\ jreq' = [jreq EXCEPT ![r] = [Idle(j) EXCEPT !.kind = k, !.n = made + 1,
                  !.pc = CASE k \in {"create", "undevice"} -> "bound"
                           [] k = "delete" -> "drop"
                           [] k = "settings" -> "write"
                           [] OTHER -> "read"]]
    /\ UNCHANGED <<jrow, device, manager, object, saving, known, overtaken, renamed>>

UNCHANGED_history == UNCHANGED <<made, known, overtaken, renamed>>

(* JukeboxRepo.GetByID.  A device that became NULL cannot be scanned into a  *)
(* string: the row is as good as absent, and List fails for all.            *)
Readable(j) == jrow[j] # Nothing /\ jrow[j].device # Nothing
ReadRow(r) ==
    /\ At(r, Playback \cup {"update"}, "read")
    /\ IF Readable(jreq[r].juke)
       THEN jreq' = [jreq EXCEPT ![r].row = jrow[jreq[r].juke],
                                 ![r].pc = IF jreq[r].kind = "update" THEN "write" ELSE "ensure"]
       ELSE Done(r)
    /\ UNCHANGED <<jrow, device, manager, object, saving>> /\ UNCHANGED_history

(* EngineManager.GetOrCreate *)
GetOrCreate(r, e, then, thenNew) ==
    LET j == jreq[r].juke
        goto(pc) == jreq' = [jreq EXCEPT ![r] = IF pc = "idle" THEN Idle(j)
                                                ELSE [@ EXCEPT !.eng = e, !.pc = pc]]
    IN
    IF manager[j] # Nothing
    THEN /\ e = manager[j]
         /\ goto(then)
         /\ UNCHANGED <<manager, object>>
    ELSE /\ e \notin {manager[k] : k \in Jukes} \cup {jreq[q].eng : q \in JukeThreads}
         /\ ~object[e].playing
         /\ manager' = [manager EXCEPT ![j] = e]
         /\ object' = [object EXCEPT ![e] = [Unused EXCEPT !.juke = j]]
         /\ goto(thenNew)

(* Mutant: a new engine is not given the queue of the row. *)
EnsureUnrestored(r, e) ==
    /\ At(r, Playback, "ensure")
    /\ GetOrCreate(r, e, "act", "act")
    /\ UNCHANGED <<jrow, device, saving>> /\ UNCHANGED_history

(* ensureEngine: wireEngine is repeated on every request. *)
EnsureEngine(r, e) ==
    /\ At(r, Playback, "ensure")
    /\ GetOrCreate(r, e, "act", "restore")
    /\ UNCHANGED <<jrow, device, saving>> /\ UNCHANGED_history

(* wireEngine: every change is saved by a goroutine of its own, with the     *)
(* state of the moment.                                                      *)
Saves(o) == saving \o <<[juke |-> o.juke, queue |-> o.queue]>>

RestoreEngine(r) ==
    /\ At(r, Playback, "restore")
    /\ LET o == [object[jreq[r].eng] EXCEPT !.queue = jreq[r].row.queue, !.playing = FALSE]
       IN object' = [object EXCEPT ![jreq[r].eng] = o] /\ saving' = Saves(o)
    /\ JGoto(r, "act")
    /\ UNCHANGED <<jrow, device, manager>> /\ UNCHANGED_history

(* The engine does what the request asks, after SetPathMapping with the      *)
(* mapping of the row read before.                                           *)
Acts(r, kinds, o, pc) ==
    /\ At(r, kinds, "act")
    /\ LET p == [o EXCEPT !.map = jreq[r].row.map] IN
       object' = [object EXCEPT ![jreq[r].eng] = p] /\ saving' = Saves(p)
    /\ IF pc = "idle" THEN Done(r) ELSE JGoto(r, pc)
    /\ UNCHANGED <<jrow, device, manager>> /\ UNCHANGED_history

Obj(r) == object[jreq[r].eng]

-------------------------------------------------------------------------------
(* Playback requests.  Next, Prev, Volume and the queue's other operations   *)
(* change what Player models, and no state of this module other than these.  *)

Status(r) == At(r, {"status"}, "act") /\ Done(r)
             /\ object' = [object EXCEPT ![jreq[r].eng].map = jreq[r].row.map]
             /\ UNCHANGED <<jrow, device, manager, saving>> /\ UNCHANGED_history
PlayTrack(r) == Acts(r, {"play"}, [Obj(r) EXCEPT !.playing = TRUE], "idle")
StopTrack(r) == Acts(r, {"stop"}, [Obj(r) EXCEPT !.playing = FALSE], "idle")
ChangeQueue(r) == Acts(r, {"queue"}, [Obj(r) EXCEPT !.queue = jreq[r].n], "idle")
EmptyQueue(r) == Acts(r, {"clear"}, [Obj(r) EXCEPT !.queue = 0, !.playing = FALSE], "idle")

(* PlayMode reads the row again and writes all of it back, over what a save  *)
(* stored in between.                                                        *)
ChangeMode(r) == Acts(r, {"mode"}, Obj(r), "mode")
ReadForMode(r) ==
    /\ At(r, {"mode"}, "mode")
    /\ IF Readable(jreq[r].juke)
       THEN jreq' = [jreq EXCEPT ![r].row = jrow[jreq[r].juke], ![r].pc = "write"]
       ELSE Done(r)
    /\ UNCHANGED <<jrow, device, manager, object, saving>> /\ UNCHANGED_history
WriteMode(r) ==
    /\ At(r, {"mode"}, "write")
    /\ LET j == jreq[r].juke IN
       /\ jrow' = [jrow EXCEPT ![j] = IF @ = Nothing THEN @ ELSE jreq[r].row]
       /\ overtaken' = IF jrow[j] \in {Nothing, jreq[r].row} THEN overtaken ELSE overtaken \cup {j}
    /\ Done(r)
    /\ UNCHANGED <<device, manager, object, saving, made, known, renamed>>

(* The end of a track, or the goroutine that advances the queue. *)
TrackEnds(e) ==
    /\ object[e].playing
    /\ object' = [object EXCEPT ![e].playing = FALSE]
    /\ saving' = Saves(object[e])
    /\ UNCHANGED <<jrow, device, manager, jreq>> /\ UNCHANGED_history

(* SaveState: an update of the row, if it is still there. *)
SaveState(i) ==
    LET s == saving[i] IN
    /\ saving' = RemoveAt(saving, i)
    /\ jrow' = [jrow EXCEPT ![s.juke] = IF @ = Nothing THEN @ ELSE [@ EXCEPT !.queue = s.queue]]
    /\ overtaken' = IF \E h \in 1..i-1 : saving[h].juke = s.juke /\ saving[h].queue # s.queue
                    THEN overtaken \cup {s.juke} ELSE overtaken
    /\ UNCHANGED <<device, manager, object, jreq, made, known, renamed>>

-------------------------------------------------------------------------------
(* Administration. *)

(* Update writes the whole row it read ... *)
UpdateRow(r) ==
    /\ At(r, {"update"}, "write")
    /\ jrow' = [jrow EXCEPT ![jreq[r].juke] = IF @ = Nothing THEN @ ELSE jreq[r].row]
    /\ JGoto(r, "remove")
    /\ UNCHANGED <<device, manager, object, saving>> /\ UNCHANGED_history

(* EngineManager.Remove stops the engine and forgets it. *)
RemoveEngine(r) ==
    LET j == jreq[r].juke  e == manager[j] IN
    /\ At(r, {"update", "delete"}, "remove")
    /\ IF e = Nothing THEN UNCHANGED <<manager, object, saving>>
       ELSE /\ manager' = [manager EXCEPT ![j] = Nothing]
            /\ object' = [object EXCEPT ![e].playing = FALSE]
            /\ saving' = Saves(object[e])
    /\ IF jreq[r].kind = "update" THEN JGoto(r, "engine") ELSE Done(r)
    /\ UNCHANGED <<jrow, device>> /\ UNCHANGED_history

(* ... and makes an engine without its queue. *)
FreshEngine(r, e) ==
    /\ At(r, {"update", "create"}, "engine")
    /\ GetOrCreate(r, e, "idle", "idle")
    /\ renamed' = IF jreq[r].kind = "update" THEN renamed \cup {jreq[r].juke} ELSE renamed
    /\ UNCHANGED <<jrow, device, saving, made, known, overtaken>>

DeleteJukebox(r) ==
    /\ At(r, {"delete"}, "drop")
    /\ jrow' = [jrow EXCEPT ![jreq[r].juke] = Nothing]
    /\ JGoto(r, "remove")
    /\ UNCHANGED <<device, manager, object, saving>> /\ UNCHANGED_history

(* UpdateSettings: the row, then the engine if there is one. *)
WriteSettings(r) ==
    LET j == jreq[r].juke IN
    /\ At(r, {"settings"}, "write")
    /\ jrow' = [jrow EXCEPT ![j] = IF @ = Nothing THEN @ ELSE [@ EXCEPT !.map = jreq[r].n]]
    /\ JGoto(r, "mapping")
    /\ UNCHANGED <<device, manager, object, saving>> /\ UNCHANGED_history

ApplySettings(r) ==
    /\ At(r, {"settings"}, "mapping")
    /\ LET e == manager[jreq[r].juke] IN
       object' = IF e = Nothing THEN object ELSE [object EXCEPT ![e].map = jreq[r].n]
    /\ Done(r)
    /\ UNCHANGED <<jrow, device, manager, saving>> /\ UNCHANGED_history

BoundTo(d) == {j \in Jukes : jrow[j] # Nothing /\ jrow[j].device = d}

(* Create looks whether the device is free ... (a request without a device   *)
(* configuration fails: '' is no key of audio_devices.)                      *)
CreateJukebox(r, d) ==
    /\ At(r, {"create"}, "bound")
    /\ IF jreq[r].juke \notin known /\ d \in device /\ BoundTo(d) = {}
       THEN jreq' = [jreq EXCEPT ![r].row = [device |-> d, queue |-> 0, map |-> 0], ![r].pc = "insert"]
       ELSE Done(r)
    /\ UNCHANGED <<jrow, device, manager, object, saving>> /\ UNCHANGED_history

(* ... and inserts, if the configuration still exists (the foreign key). *)
InsertJukebox(r) ==
    /\ At(r, {"create"}, "insert")
    /\ IF jreq[r].row.device \in device /\ jreq[r].juke \notin known
       THEN /\ jrow' = [jrow EXCEPT ![jreq[r].juke] = jreq[r].row]
            /\ known' = known \cup {jreq[r].juke}
            /\ JGoto(r, "engine")
       ELSE Done(r) /\ UNCHANGED <<jrow, known>>
    /\ UNCHANGED <<device, manager, object, saving, made, overtaken, renamed>>

(* DeleteDeviceConfig: refused while a jukebox is bound to it ... *)
CheckUnbound(r, d) ==
    /\ At(r, {"undevice"}, "bound")
    /\ IF BoundTo(d) # {} THEN Done(r)
       ELSE jreq' = [jreq EXCEPT ![r].row = [device |-> d, queue |-> 0, map |-> 0], ![r].pc = "drop"]
    /\ UNCHANGED <<jrow, device, manager, object, saving>> /\ UNCHANGED_history

(* ... then deleted; a jukebox bound meanwhile is left with NULL. *)
DropDevice(r, d) ==
    /\ At(r, {"undevice"}, "drop")
    /\ d = jreq[r].row.device /\ device' = device \ {d}
    /\ jrow' = [j \in Jukes |-> IF j \in BoundTo(d) THEN [jrow[j] EXCEPT !.device = Nothing] ELSE jrow[j]]
    /\ Done(r)
    /\ UNCHANGED <<manager, object, saving>> /\ UNCHANGED_history

JukeStep(r) ==
    \/ ReadRow(r) \/ RestoreEngine(r) \/ Status(r) \/ PlayTrack(r) \/ StopTrack(r)
    \/ ChangeQueue(r) \/ EmptyQueue(r) \/ ChangeMode(r) \/ ReadForMode(r) \/ WriteMode(r)
    \/ UpdateRow(r) \/ RemoveEngine(r) \/ DeleteJukebox(r) \/ WriteSettings(r) \/ ApplySettings(r)
    \/ InsertJukebox(r)
    \/ \E e \in Engines : EnsureEngine(r, e) \/ FreshEngine(r, e)
    \/ \E d \in Devices : CreateJukebox(r, d) \/ CheckUnbound(r, d) \/ DropDevice(r, d)

JukeNext ==
    \/ \E r \in JukeThreads : JukeStep(r) \/ \E k \in Kinds, j \in Jukes : Request(r, k, j)
    \/ \E e \in Engines : TrackEnds(e)
    \/ \E i \in DOMAIN saving : SaveState(i)

JukeSpec == JukeInit /\ [][JukeNext]_jukeVars

-------------------------------------------------------------------------------
(* Properties.  Playback requests overlap; a request of Admin has to run     *)
(* alone (AdminAlone): its checks and its writes are separate statements,    *)
(* and nothing in the handlers keeps another request from between them.      *)

JQuiet == \A r \in JukeThreads : jreq[r].pc = "idle"

(* A device plays for one jukebox, and every jukebox keeps a device: a row   *)
(* with NULL makes List fail for all of them (Create, DeleteDeviceConfig).   *)
DevicesAreBoundOnce ==
    /\ \A d \in Devices : Cardinality(BoundTo(d)) <= 1
    /\ \A j \in Jukes : jrow[j] # Nothing => jrow[j].device \in device

(* An engine that plays can be stopped: it is the manager's engine of a      *)
(* jukebox that exists (Update and Delete stop the engine they forget).      *)
PlayingCanBeStopped ==
    JQuiet => \A e \in Engines : object[e].playing =>
                 manager[object[e].juke] = e /\ jrow[object[e].juke] # Nothing

(* At rest the row holds the queue the engine plays from, so that a restart  *)
(* restores it, unless a save was overtaken by a later one, PlayMode wrote   *)
(* over one, or Update threw the engine's queue away (wireEngine,            *)
(* RestoreState).                                                            *)
RowKeepsQueue ==
    JQuiet => \A j \in Jukes \ (overtaken \cup renamed) :
        manager[j] # Nothing /\ jrow[j] # Nothing /\ (\A i \in DOMAIN saving : saving[i].juke # j)
            => object[manager[j]].queue = jrow[j].queue

(* What plays finds its files through the mapping last set (UpdateSettings   *)
(* reaches a running engine, every other request sets it again).             *)
MappingReachesEngine ==
    JQuiet => \A e \in Engines : object[e].playing => object[e].map = jrow[object[e].juke].map

(* The rows, the engines and what is saved of them agree, as said above      *)
(* (jukebox.go, EngineManager).                                              *)
JukeSound ==
    /\ JukeTypeOK
    /\ DevicesAreBoundOnce /\ PlayingCanBeStopped /\ RowKeepsQueue /\ MappingReachesEngine
===============================================================================
