-------------------------------- MODULE Player --------------------------------
(* One playback engine of the jukebox, src/internal/infrastructure/player/  *)
(* engine.go: its queue, its shuffle order and the ffplay processes it      *)
(* starts.  Each action is one critical section of e.mu or one step of a    *)
(* goroutine outside of it.  A play is one use of Engine.Play, from the     *)
(* choice of its track to the end of the goroutine that waits for ffplay.   *)
EXTENDS Integers, SequencesExt

CONSTANTS
    PlayTracks,   \* tracks that can be queued
    Plays,        \* plays in flight (a slot is reused when its play is over)
    NoTrack,      \* no track, no play
    MaxQueue,     \* bound: length of the queue
    MaxCommands   \* bound: commands given to the engine

ASSUME PlayerConstants == MaxQueue \in Nat /\ MaxCommands \in Nat /\ NoTrack \notin PlayTracks \cup Plays

VARIABLES
    eng,      \* the fields of Engine that e.mu guards
    play,     \* the plays
    engineUp, \* "up", "wedged": e.mu is held for ever, "crashed": the server died
    queuing,  \* history: commands are given one after the other's play started
    given,    \* history: commands given so far
    cut       \* history: a track was removed while the order was shuffled

playerVars == <<eng, play, engineUp, queuing, given, cut>>

Modes == {"normal", "repeat_all", "repeat_one", "shuffle"}
Queues == BoundedSeq(PlayTracks, MaxQueue)
(* rand.Perm(n), positions counted from 0 as in the code *)
Perm(n) == {s \in [1..n -> 0..n-1] : IsInjective(s)}

PlayPcs == {"free", "resolve", "start", "pid", "run", "sleep", "advance", "again", "halt"}

PlayerTypeOK ==
    /\ eng \in [playing: BOOLEAN, current: PlayTracks \cup {NoTrack}, mode: Modes,
                queue: Queues, idx: 0..MaxQueue, order: UNION {Perm(n) : n \in 0..MaxQueue},
                sidx: -1..MaxQueue, pid: Plays \cup {NoTrack}, cancel: Plays \cup {NoTrack}]
    /\ play \in [Plays -> [pc: PlayPcs, track: PlayTracks \cup {NoTrack},
                           cancelled: BOOLEAN, alive: BOOLEAN]]
    /\ engineUp \in {"up", "wedged", "crashed"}
    /\ queuing \in BOOLEAN /\ given \in 0..MaxCommands /\ cut \in BOOLEAN

Free == [pc |-> "free", track |-> NoTrack, cancelled |-> FALSE, alive |-> FALSE]

(* An engine that RestoreState filled from the jukebox's row; the queue holds *)
(* no track twice at first, commands may add a second one.                    *)
PlayerInit ==
    /\ \E q \in {r \in Queues : IsInjective(r)}, m \in Modes :
         \E i \in 0..(IF q = <<>> THEN 0 ELSE Len(q) - 1), o \in IF m = "shuffle" THEN Perm(Len(q)) ELSE {<<>>} :
           \E s \in IF o = <<>> THEN {-1, 0} ELSE {k \in 0..Len(o)-1 : o[k+1] = i} :
             eng = [playing |-> FALSE, current |-> NoTrack, mode |-> m, queue |-> q, idx |-> i,
                    order |-> o, sidx |-> s, pid |-> NoTrack, cancel |-> NoTrack]
    /\ play = [p \in Plays |-> Free]
    /\ engineUp = "up" /\ queuing \in BOOLEAN /\ given = 0 /\ cut = FALSE

-------------------------------------------------------------------------------
(* What the critical sections do to the fields. *)

(* killLocked *)
Killed(e) == [e EXCEPT !.cancel = NoTrack, !.pid = NoTrack, !.playing = FALSE]
Cancelling(pl, e) ==
    IF e.cancel = NoTrack THEN pl ELSE [pl EXCEPT ![e.cancel].cancelled = TRUE]

TrackAt(e, i) == IF i < Len(e.queue) THEN e.queue[i + 1] ELSE NoTrack
CanShuffleOn(e) == e.order # <<>> /\ e.sidx < Len(e.order) - 1

(* Play points the queue, and in shuffle mode the order, at the track's      *)
(* first occurrence.                                                         *)
Located(e, t) ==
    LET at == {i \in 1..Len(e.queue) : e.queue[i] = t} IN
    IF at = {} THEN e
    ELSE LET i == Min(at) - 1
             places == {j \in 1..Len(e.order) : e.order[j] = i}
         IN [e EXCEPT !.idx = i,
                      !.sidx = IF e.mode = "shuffle" /\ places # {} THEN Min(places) - 1 ELSE e.sidx]

(* Mutant: the process that plays is not cancelled. *)
BeginPlayUnkilled(p, t) ==
    /\ eng' = Located([Killed(eng) EXCEPT !.current = t, !.playing = TRUE, !.cancel = p], t)
    /\ play' = [play EXCEPT ![p] = [Free EXCEPT !.pc = "start", !.track = t]]

(* The first critical section of Play: kill what plays, take over. *)
BeginPlay(p, t) ==
    /\ eng' = Located([Killed(eng) EXCEPT !.current = t, !.playing = TRUE, !.cancel = p], t)
    /\ play' = [Cancelling(play, eng) EXCEPT ![p] = [Free EXCEPT !.pc = "start", !.track = t]]

(* What Next, Prev and playNext choose under the lock: the fields after the  *)
(* choice and the track, if any.                                             *)
ShuffledTo(e, s) == <<[e EXCEPT !.sidx = s], TrackAt(e, e.order[s + 1])>>
QueuedTo(e, i) == <<[e EXCEPT !.idx = i], TrackAt(e, i)>>

NextPick(e) ==
    IF e.mode = "shuffle" /\ CanShuffleOn(e) THEN ShuffledTo(e, e.sidx + 1)
    ELSE IF e.idx < Len(e.queue) - 1 THEN QueuedTo(e, e.idx + 1)
    ELSE <<e, NoTrack>>

PrevPick(e) ==
    IF e.mode = "shuffle" /\ e.order # <<>> /\ e.sidx > 0 THEN ShuffledTo(e, e.sidx - 1)
    ELSE IF e.idx > 0 THEN QueuedTo(e, e.idx - 1)
    ELSE <<e, NoTrack>>

AutoPick(e) ==
    CASE e.mode = "repeat_one" -> <<e, e.current>>
      [] e.mode = "repeat_all" ->
           IF e.queue # <<>> THEN QueuedTo(e, (e.idx + 1) % Len(e.queue)) ELSE <<e, NoTrack>>
      [] e.mode = "shuffle" -> IF CanShuffleOn(e) THEN ShuffledTo(e, e.sidx + 1) ELSE <<e, NoTrack>>
      [] OTHER -> IF e.idx < Len(e.queue) - 1 THEN QueuedTo(e, e.idx + 1) ELSE <<e, NoTrack>>

-------------------------------------------------------------------------------
(* Commands: calls of the HTTP handlers. *)

InTransit(p) == play[p].pc \in {"resolve", "start", "pid", "advance", "again", "halt"}

Command ==
    /\ engineUp = "up"
    /\ given < MaxCommands /\ given' = given + 1
    /\ queuing => \A p \in Plays : ~InTransit(p)
    /\ UNCHANGED queuing

Play(p, t) ==
    /\ Command
    /\ play[p].pc = "free"
    /\ BeginPlay(p, t)
    /\ UNCHANGED <<engineUp, cut>>

Stop ==
    /\ Command
    /\ eng' = Killed(eng) /\ play' = Cancelling(play, eng)
    /\ UNCHANGED <<engineUp, cut>>

(* Next and Prev kill what plays before they know what to play.  Without a   *)
(* track the engine stays stopped.                                           *)
Chosen(p, e, t) ==
    /\ play[p].pc = "free"
    /\ eng' = e
    /\ LET killed == Cancelling(play, eng) IN
       play' = IF t = NoTrack THEN killed
               ELSE [killed EXCEPT ![p] = [Free EXCEPT !.pc = "resolve", !.track = t]]

NextTrack(p) ==
    /\ Command
    /\ Chosen(p, NextPick(Killed(eng))[1], NextPick(eng)[2])
    /\ UNCHANGED <<engineUp, cut>>

(* The queue is indexed without a check: beyond its end the handler panics   *)
(* with e.mu held (the HTTP server recovers the panic, nothing the lock).    *)
PrevTrack(p) ==
    /\ Command
    /\ Chosen(p, PrevPick(Killed(eng))[1], PrevPick(eng)[2])
    /\ engineUp' = IF PrevPick(eng)[1].idx # eng.idx /\ PrevPick(eng)[1].idx >= Len(eng.queue)
                   THEN "wedged" ELSE "up"
    /\ UNCHANGED cut

SetPlayMode(m) ==
    /\ Command
    /\ eng' \in
         IF m = "shuffle" /\ eng.queue # <<>>
         THEN {[eng EXCEPT !.mode = m, !.order = o,
                           !.sidx = IF eng.idx < Len(eng.queue)
                                    THEN (CHOOSE j \in 1..Len(o) : o[j] = eng.idx) - 1 ELSE 0]
                 : o \in Perm(Len(eng.queue))}
         ELSE {[eng EXCEPT !.mode = m]}
    /\ UNCHANGED <<play, engineUp, cut>>

AddToQueue(ids) ==
    /\ Command
    /\ Len(eng.queue) + Len(ids) <= MaxQueue
    /\ LET q == eng.queue \o ids
           i == Len(eng.queue)
       IN eng' \in IF eng.playing \/ q = <<>> THEN {[eng EXCEPT !.queue = q]}
                   ELSE IF eng.mode # "shuffle" THEN {[eng EXCEPT !.queue = q, !.idx = i]}
                   ELSE {[eng EXCEPT !.queue = q, !.idx = i, !.order = o, !.sidx = i - 1]
                           : o \in Perm(Len(q))}
    /\ UNCHANGED <<play, engineUp, cut>>

RemoveFromQueue(i) ==
    /\ Command
    /\ i < Len(eng.queue)
    /\ LET q == RemoveAt(eng.queue, i + 1) IN
       IF eng.mode = "shuffle"
       THEN /\ eng' \in {[eng EXCEPT !.queue = q, !.order = o, !.sidx = -1] : o \in Perm(Len(q))}
            /\ cut' = TRUE
       ELSE /\ eng' = [eng EXCEPT !.queue = q, !.idx = IF i < eng.idx THEN eng.idx - 1 ELSE eng.idx]
            /\ UNCHANGED cut
    /\ UNCHANGED <<play, engineUp>>

ClearQueue ==
    /\ Command
    /\ eng' = [Killed(eng) EXCEPT !.queue = <<>>, !.idx = 0, !.order = <<>>, !.sidx = -1]
    /\ play' = Cancelling(play, eng)
    /\ UNCHANGED <<engineUp, cut>>

Shuffle ==
    /\ Command
    /\ eng.queue # <<>>
    /\ eng' \in {[eng EXCEPT !.mode = "shuffle", !.order = o, !.sidx = -1] : o \in Perm(Len(eng.queue))}
    /\ UNCHANGED <<play, engineUp, cut>>

SetQueue(ids) ==
    /\ Command
    /\ eng' \in {[eng EXCEPT !.queue = ids, !.idx = 0, !.order = o, !.sidx = -1]
                   : o \in IF eng.mode = "shuffle" THEN Perm(Len(ids)) ELSE {<<>>}}
    /\ UNCHANGED <<play, engineUp, cut>>

-------------------------------------------------------------------------------
(* The rest of a play: outside of the lock, or in its later sections. *)

PlayRuns(p, pc) == play[p].pc = pc /\ engineUp = "up" /\ UNCHANGED <<queuing, given, cut>>
PlayGoesTo(p, pc) == play' = [play EXCEPT ![p].pc = pc]

(* The track chosen is looked up: it is there, or it was deleted. *)
Resolve(p) ==
    /\ PlayRuns(p, "resolve")
    /\ BeginPlay(p, play[p].track)
    /\ UNCHANGED engineUp

ResolveFails(p) == PlayRuns(p, "resolve") /\ PlayGoesTo(p, "halt") /\ UNCHANGED <<eng, engineUp>>

(* cmd.Start refuses a cancelled context. *)
Start(p) ==
    /\ PlayRuns(p, "start")
    /\ ~play[p].cancelled
    /\ play' = [play EXCEPT ![p].pc = "pid", ![p].alive = TRUE]
    /\ UNCHANGED <<eng, engineUp>>

(* It then marks the engine stopped, whoever plays by now. *)
StartFails(p) ==
    /\ PlayRuns(p, "start")
    /\ play[p].cancelled \/ ~queuing
    /\ eng' = [eng EXCEPT !.playing = FALSE]
    /\ play' = [play EXCEPT ![p] = Free]
    /\ UNCHANGED engineUp

SetPid(p) ==
    /\ PlayRuns(p, "pid")
    /\ eng' = [eng EXCEPT !.pid = p]
    /\ PlayGoesTo(p, "run")
    /\ UNCHANGED engineUp

(* The process ends: the track is over, or its context was cancelled. *)
Exit(p) ==
    /\ play[p].pc \in {"pid", "run"} /\ play[p].alive
    /\ play' = [play EXCEPT ![p].alive = FALSE]
    /\ UNCHANGED <<eng, engineUp, queuing, given, cut>>

Waited(p) == PlayRuns(p, "run") /\ ~play[p].alive /\ PlayGoesTo(p, "sleep") /\ UNCHANGED <<eng, engineUp>>

(* Mutant: the goroutine of a play that was replaced advances the queue. *)
CheckEndUnchecked(p) ==
    /\ PlayRuns(p, "sleep")
    /\ IF ~eng.playing
       THEN play' = [play EXCEPT ![p] = Free] /\ UNCHANGED eng
       ELSE PlayGoesTo(p, "advance") /\ eng' = [eng EXCEPT !.pid = NoTrack]
    /\ UNCHANGED engineUp

(* 300 ms later the goroutine advances the queue, if its play is still the  *)
(* engine's.                                                                *)
CheckEnd(p) ==
    /\ PlayRuns(p, "sleep")
    /\ IF ~eng.playing \/ eng.pid # p \/ eng.current \notin {NoTrack, play[p].track}
       THEN play' = [play EXCEPT ![p] = Free] /\ UNCHANGED eng
       ELSE PlayGoesTo(p, "advance") /\ eng' = [eng EXCEPT !.pid = NoTrack]
    /\ UNCHANGED engineUp

(* playNext *)
Advance(p) ==
    /\ PlayRuns(p, "advance")
    /\ eng' = AutoPick(eng)[1]
    /\ LET t == AutoPick(eng)[2] IN
       play' = [play EXCEPT ![p].pc = IF t = NoTrack THEN "halt"
                                      ELSE IF eng.mode = "repeat_one" THEN "again" ELSE "resolve",
                            ![p].track = t]
    /\ UNCHANGED engineUp

(* repeat_one reads e.current again without the lock; nothing catches the    *)
(* panic of this goroutine when it is nil by now.                            *)
PlayAgain(p) ==
    /\ PlayRuns(p, "again")
    /\ eng.current # NoTrack
    /\ LET t == play[p].track IN
       /\ eng' = Located([Killed(eng) EXCEPT !.current = eng.current, !.playing = TRUE, !.cancel = p], t)
       /\ play' = [Cancelling(play, eng) EXCEPT ![p] = [Free EXCEPT !.pc = "start", !.track = t]]
    /\ UNCHANGED engineUp

PlayNothingAgain(p) ==
    /\ PlayRuns(p, "again")
    /\ eng.current = NoTrack
    /\ engineUp' = "crashed"
    /\ UNCHANGED <<eng, play>>

(* Nothing to play: stopped, whoever plays by now. *)
Halt(p) ==
    /\ PlayRuns(p, "halt")
    /\ eng' = [eng EXCEPT !.playing = FALSE, !.current = NoTrack]
    /\ play' = [play EXCEPT ![p] = Free]
    /\ UNCHANGED engineUp

PlayStep(p) ==
    \/ Resolve(p) \/ ResolveFails(p) \/ Start(p) \/ StartFails(p) \/ SetPid(p) \/ Exit(p)
    \/ Waited(p) \/ CheckEnd(p) \/ Advance(p) \/ PlayAgain(p) \/ PlayNothingAgain(p) \/ Halt(p)

PlayerNext ==
    \/ \E p \in Plays : PlayStep(p) \/ NextTrack(p) \/ PrevTrack(p)
    \/ \E p \in Plays, t \in PlayTracks : Play(p, t)
    \/ \E m \in Modes : SetPlayMode(m)
    \/ \E ids \in Queues : AddToQueue(ids) \/ SetQueue(ids)
    \/ \E i \in 0..MaxQueue - 1 : RemoveFromQueue(i)
    \/ Stop \/ ClearQueue \/ Shuffle

(* The goroutines run, and ffplay comes to the end of a track. *)
PlayerFairness == \A p \in Plays : WF_playerVars(PlayStep(p))

PlayerSpec == PlayerInit /\ [][PlayerNext]_playerVars /\ PlayerFairness

-------------------------------------------------------------------------------
(* Properties *)

(* However the commands and the ends of tracks interleave, at most one       *)
(* ffplay process has not been told to end (killLocked in Play, Stop, Next,  *)
(* Prev, ClearQueue).                                                        *)
OneVoice ==
    \A p, q \in Plays :
        /\ play[p].alive /\ ~play[p].cancelled
        /\ play[q].alive /\ ~play[q].cancelled
        => p = q

(* When commands wait for each other's play to start, an engine at rest says *)
(* it plays exactly when a process that plays its current track is there to  *)
(* advance the queue (Play's pid, the goroutine's check).  Overlapping        *)
(* commands break this: the pid of an older play can be stored last.         *)
PlayingIsHeard ==
    queuing /\ engineUp # "wedged" /\ (\A p \in Plays : ~InTransit(p)) =>
        /\ engineUp # "crashed"
        /\ (eng.playing <=> \E p \in Plays : /\ eng.pid = p /\ play[p].pc \in {"run", "sleep"}
                                              /\ ~play[p].cancelled /\ play[p].track = eng.current)

(* The engine's lock is lost to a panic of Prev only after a track was       *)
(* removed in shuffle mode, which leaves queueIdx behind the queue's end.    *)
WedgedByShuffleOnly == engineUp = "wedged" => cut

(* Only a command cuts a track short: the end of an earlier one, found out    *)
(* late, does not advance the queue under the track that plays (the check    *)
(* after cmd.Wait).  The command must not fall between that check and        *)
(* playNext, which looks at nothing again.                                   *)
PlaysAreNotCutShort ==
    [][ \A p \in Plays :
          queuing /\ play[p].alive /\ ~play[p].cancelled /\ play'[p].cancelled => given' # given ]_playerVars

(* A queue without duplicates, played in order or shuffled, is played to its *)
(* end: every play moves on and none comes back to an earlier track          *)
(* (playNext, and the search for the track in Play).                         *)
PlaybackEnds ==
    (queuing /\ given = MaxCommands /\ eng.mode \in {"normal", "shuffle"} /\ IsInjective(eng.queue))
        ~> ~eng.playing

(* The engine's state is well typed, one process is heard at a time, what is  *)
(* said to play does, and the lock is only lost as WedgedByShuffleOnly says   *)
(* (engine.go).                                                              *)
PlayerSound == PlayerTypeOK /\ OneVoice /\ PlayingIsHeard /\ WedgedByShuffleOnly

(* The goroutines of the plays leave the current track alone and come to the *)
(* end of the queue (Play, playNext).                                        *)
PlaybackGoesOn == PlaysAreNotCutShort /\ PlaybackEnds
===============================================================================
