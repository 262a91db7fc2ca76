------------------------------- MODULE Listening -------------------------------
(* How a listen becomes heat: the reports of the web player (AddHistory), the *)
(* scrobbles of Subsonic clients, the jukebox and downloads.                  *)
(* src/internal/core/domain/heat.go, infrastructure/cache/play_marker.go      *)
(* (Valkey), infrastructure/repository/heat_repo.go (PostgreSQL) and their    *)
(* callers.  One track; time in ticks, of which Valkey's clock, the wall clock *)
(* and the track's duration are counted.                                      *)
EXTENDS Integers, Sequences, FiniteSets, FiniteSetsExt

CONSTANTS
    Listeners,   \* users
    Reports,     \* HTTP requests at work at the same time
    Silence,     \* no request, no listen
    Duration,    \* of the track; 0: unknown
    RateFloor, RateGrace, MinPlay,   \* heat.go's constants, in ticks
    MaxTime, MaxReports,             \* bounds: clock, requests and jukebox commands
    MaxLatency,  \* bound: ticks a request takes
    EmitsInOrder \* do an engine's changes reach the handler in their order?

ASSUME ListeningConstants ==
    /\ Duration \in Nat /\ RateFloor \in Nat \ {0} /\ RateGrace \in Nat /\ MinPlay \in Nat \ {0}
    /\ MaxTime \in Nat /\ MaxReports \in Nat /\ MaxLatency \in Nat /\ EmitsInOrder \in BOOLEAN
    /\ "jukebox" \notin Listeners

VARIABLES
    clock,
    listen,   \* heat:listen:{user}:{track}
    gate,     \* heat:play:... and heat:playc:...: when they expire
    track,    \* the row: heat and play_count
    events,   \* table track_events
    report,   \* the requests
    tokens,   \* history: tokens generated (requests made)
    granted,  \* history: when "play" gates opened, per user
    voice,    \* the jukebox engine: the playback instance and its state
    emits,    \* its changes on their way to the handler
    active,   \* JukeboxHandler.jbActive
    heard     \* history: listens of the jukebox that were recorded

listenVars == <<clock, listen, gate, track, events, report, tokens, granted, voice, emits, active, heard>>

Gates == {"play", "playc"}
Weight == [play |-> 1, playc |-> 1, dl |-> 3]
EventKeys == {"play", "playc", "dl"} \X (Listeners \cup {"jukebox"}) \X (0..MaxReports)
Epochs == 0..MaxReports
Voices == [epoch: Epochs, playing: BOOLEAN]

ListeningTypeOK ==
    /\ clock \in 0..MaxTime
    /\ \A u \in Listeners : listen[u] = Silence \/
          listen[u] \in [token: 1..MaxReports, lastPos: Nat, lastUpdate: 0..MaxTime, listened: Nat, anchor: 0..MaxTime]
    /\ gate \in [Listeners -> [Gates -> Nat]]
    /\ track.heat \in Nat /\ track.plays \in Nat
    /\ events \subseteq EventKeys
    /\ \A r \in Reports : report[r] = Silence \/
          report[r] \in [pc: {"progress", "play", "playc", "count", "scrobble"}, user: Listeners, token: 1..MaxReports,
                         pos: 0..Duration, began: 0..MaxTime, listened: Nat, play: BOOLEAN, complete: BOOLEAN]
    /\ tokens \in 0..MaxReports
    /\ \A u \in Listeners : granted[u] \subseteq 0..MaxTime
    /\ voice \in Voices
    /\ \A i \in DOMAIN emits : emits[i] \in Voices
    /\ active = Silence \/ active \in [epoch: Epochs, start: 0..MaxTime]
    /\ heard \subseteq [epoch: Epochs, played: Nat, token: Epochs, done: BOOLEAN]

ListeningInit ==
    /\ clock = 0 /\ tokens = 0
    /\ listen = [u \in Listeners |-> Silence]
    /\ gate = [u \in Listeners |-> [g \in Gates |-> 0]]
    /\ track = [heat |-> 0, plays |-> 0] /\ events = {}
    /\ report = [r \in Reports |-> Silence]
    /\ granted = [u \in Listeners |-> {}]
    /\ voice = [epoch |-> 0, playing |-> FALSE] /\ emits = <<>>
    /\ active = Silence /\ heard = {}

-------------------------------------------------------------------------------
(* Heat arithmetic. *)

(* Mutant: the window is the track's duration, without the grace. *)
WindowWithoutGrace == IF Duration > 0 THEN Duration ELSE RateFloor

HeatRateLimitWindow ==
    IF Duration > 0 THEN Max({RateFloor, Duration + RateGrace}) ELSE RateFloor

HeatQualifiesForListened(listened) ==
    listened >= MinPlay \/ (Duration > 0 /\ 2 * listened >= Duration)
HeatListenedIsComplete(listened) ==
    Duration > 0 /\ 10 * listened >= 9 * Duration

(* Award and CountPlay: one statement or one transaction.  An event that is  *)
(* in the log (its dedupe key) adds nothing.                                 *)
Kind(k, keys) == {e \in keys : e[1] = k}
HeatOf(keys) == Weight.play * Cardinality(Kind("play", keys)) + Weight.playc * Cardinality(Kind("playc", keys))
                + Weight.dl * Cardinality(Kind("dl", keys))

Award(keys) ==
    LET new == keys \ events IN
    /\ events' = events \cup new
    /\ track' = [heat |-> track.heat + HeatOf(new), plays |-> track.plays + Cardinality(Kind("play", new))]

CountPlay(user, token, isPlay, complete) ==
    Award((IF isPlay THEN {<<"play", user, token>>} ELSE {})
          \cup (IF complete THEN {<<"playc", user, token>>} ELSE {}))

NoJukebox == UNCHANGED <<voice, emits, active, heard>>

-------------------------------------------------------------------------------
(* Reports of the web player and scrobbles. *)

ReportBegins(r, u, pos, kind) ==
    /\ report[r] = Silence /\ tokens < MaxReports
    /\ tokens' = tokens + 1
    /\ report' = [report EXCEPT ![r] = [pc |-> kind, user |-> u, token |-> tokens + 1, began |-> clock,
          pos |-> pos, listened |-> 0, play |-> FALSE, complete |-> FALSE]]
    /\ UNCHANGED <<clock, listen, gate, track, events, granted>> /\ NoJukebox

(* What a report adds: no more than the time since the last one. *)
Trusted(l, pos) == Min({Max({pos - l.lastPos, 0}), clock - l.lastUpdate})

(* listenProgressScript, which Valkey runs as one step.  The hash expires a  *)
(* window after the last report; a window after its first, it starts anew.   *)
ListenProgress(r) ==
    LET q == report[r]  l == listen[q.user]
        fresh == \/ l = Silence
                 \/ clock >= l.lastUpdate + HeatRateLimitWindow
                 \/ clock - l.anchor >= HeatRateLimitWindow
        new == IF fresh
               THEN [token |-> q.token, lastPos |-> q.pos, lastUpdate |-> clock, listened |-> 0, anchor |-> clock]
               ELSE [l EXCEPT !.lastPos = q.pos, !.lastUpdate = clock,
                              !.listened = l.listened + Trusted(l, q.pos)]
        plays == HeatQualifiesForListened(new.listened)
        ends == HeatListenedIsComplete(new.listened)
    IN
    /\ q # Silence /\ q.pc = "progress"
    /\ listen' = [listen EXCEPT ![q.user] = new]
    /\ report' = [report EXCEPT ![r] = IF ~plays /\ ~ends THEN Silence
                    ELSE [q EXCEPT !.pc = IF plays THEN "play" ELSE "playc",
                                   !.token = new.token, !.listened = new.listened]]
    /\ UNCHANGED <<clock, gate, track, events, tokens, granted>> /\ NoJukebox

(* PlayMarkerStore.Allow: SET NX EX. *)
Allow(u, g) ==
    gate' = [gate EXCEPT ![u][g] = IF clock >= @ THEN clock + HeatRateLimitWindow ELSE @]
Allowed(u, g) == clock >= gate[u][g]

AllowPlay(r) ==
    LET q == report[r]  ok == Allowed(q.user, "play")  ends == HeatListenedIsComplete(q.listened) IN
    /\ q # Silence /\ q.pc = "play"
    /\ Allow(q.user, "play")
    /\ granted' = IF ok THEN [granted EXCEPT ![q.user] = @ \cup {clock}] ELSE granted
    /\ report' = [report EXCEPT ![r] =
          IF ends THEN [q EXCEPT !.play = ok, !.pc = "playc"]
          ELSE IF ok THEN [q EXCEPT !.play = TRUE, !.pc = "count"]
          ELSE Silence]
    /\ UNCHANGED <<clock, listen, track, events, tokens>> /\ NoJukebox

AllowComplete(r) ==
    LET q == report[r]  ok == Allowed(q.user, "playc") IN
    /\ q # Silence /\ q.pc = "playc"
    /\ Allow(q.user, "playc")
    /\ report' = [report EXCEPT ![r] = IF ok \/ q.play THEN [q EXCEPT !.complete = ok, !.pc = "count"] ELSE Silence]
    /\ UNCHANGED <<clock, listen, track, events, tokens, granted>> /\ NoJukebox

Count(r) ==
    LET q == report[r] IN
    /\ q # Silence /\ q.pc = "count"
    /\ CountPlay(q.user, q.token, q.play, q.complete)
    /\ report' = [report EXCEPT ![r] = Silence]
    /\ UNCHANGED <<clock, listen, gate, tokens, granted>> /\ NoJukebox

(* countScrobble: no position, so no completion; the token is its own. *)
Scrobble(r) ==
    LET q == report[r] IN
    /\ q # Silence /\ q.pc = "scrobble"
    /\ Allow(q.user, "play")
    /\ LET ok == Allowed(q.user, "play") IN
       /\ granted' = IF ok THEN [granted EXCEPT ![q.user] = @ \cup {clock}] ELSE granted
       /\ report' = [report EXCEPT ![r] = IF ok THEN [q EXCEPT !.pc = "count", !.play = TRUE] ELSE Silence]
    /\ UNCHANGED <<clock, listen, track, events, tokens>> /\ NoJukebox

(* A complete file was sent (status 200, not a HEAD, the client connected) to *)
(* one who may download (ServeStream and canDownload, serveDownload).         *)
FullyServed(permitted, status, head, connected) == permitted /\ status = 200 /\ ~head /\ connected

(* It counts once per user and track. *)
AwardDownload(u) ==
    /\ \E permitted, head, connected \in BOOLEAN, status \in {200, 206, 404} :
          IF FullyServed(permitted, status, head, connected)
          THEN Award({<<"dl", u, 0>>}) ELSE UNCHANGED <<events, track>>
    /\ UNCHANGED <<clock, listen, gate, report, tokens, granted>> /\ NoJukebox

-------------------------------------------------------------------------------
(* The jukebox.  Its engine plays the track anew (another epoch), stops, or  *)
(* changes its queue or volume; each change calls OnChange with the state of *)
(* that moment.                                                              *)

JukeboxCommand(kind) ==
    /\ tokens < MaxReports /\ tokens' = tokens + 1
    /\ kind = "play" \/ voice.playing
    /\ voice' = CASE kind = "play" -> [epoch |-> voice.epoch + 1, playing |-> TRUE]
                  [] kind = "stop" -> [voice EXCEPT !.playing = FALSE]
                  [] kind = "other" -> voice
    /\ emits' = emits \o <<voice'>>
    /\ UNCHANGED <<clock, listen, gate, track, events, report, granted, active, heard>>

(* What trackJukeboxPlay finalizes, and the listen it goes on with. *)
Finalizes(s) == active # Silence /\ (~s.playing \/ active.epoch # s.epoch)
Follows(s) == IF ~s.playing THEN Silence
              ELSE IF active # Silence /\ active.epoch = s.epoch THEN active
              ELSE [epoch |-> s.epoch, start |-> clock]

TrackJukeboxPlay(i) ==
    /\ EmitsInOrder => i = 1
    /\ active' = Follows(emits[i])
    /\ heard' = IF Finalizes(emits[i])
                THEN heard \cup {[epoch |-> active.epoch, played |-> clock - active.start,
                                  token |-> Cardinality(heard), done |-> FALSE]}
                ELSE heard
    /\ emits' = [k \in 1..Len(emits) - 1 |-> IF k < i THEN emits[k] ELSE emits[k + 1]]
    /\ UNCHANGED <<clock, listen, gate, track, events, report, tokens, granted, voice>>

(* recordJukeboxListen, in a goroutine: no user, no gate, a token of its own. *)
RecordJukeboxListen(h) ==
    /\ ~h.done
    /\ heard' = (heard \ {h}) \cup {[h EXCEPT !.done = TRUE]}
    /\ CountPlay("jukebox", h.token, HeatQualifiesForListened(h.played), HeatListenedIsComplete(h.played))
    /\ UNCHANGED <<clock, listen, gate, report, tokens, granted, voice, emits, active>>

-------------------------------------------------------------------------------
Tick ==
    /\ clock < MaxTime
    /\ \A r \in Reports : report[r] # Silence => clock - report[r].began < MaxLatency
    /\ emits = <<>>
    /\ clock' = clock + 1
    /\ UNCHANGED <<listen, gate, track, events, report, tokens, granted>> /\ NoJukebox

ListeningNext ==
    \/ Tick
    \/ \E r \in Reports : \/ ListenProgress(r) \/ AllowPlay(r) \/ AllowComplete(r) \/ Count(r) \/ Scrobble(r)
                          \/ \E u \in Listeners, p \in 0..Duration : ReportBegins(r, u, p, "progress")
                          \/ \E u \in Listeners : ReportBegins(r, u, 0, "scrobble")
    \/ \E u \in Listeners : AwardDownload(u)
    \/ \E k \in {"play", "stop", "other"} : JukeboxCommand(k)
    \/ \E i \in DOMAIN emits : TrackJukeboxPlay(i)
    \/ \E h \in heard : RecordJukeboxListen(h)

ListeningSpec == ListeningInit /\ [][ListeningNext]_listenVars

-------------------------------------------------------------------------------
(* The cached heat is the sum of the log, and play_count its plays, whatever *)
(* is reported twice (HeatRepo, Award, CountPlay).                           *)
HeatIsTheLog ==
    track.heat = HeatOf(events) /\ track.plays = Cardinality(Kind("play", events))

(* Verified time is real time: however positions jump and reports overlap,   *)
(* no more is credited than went by since the window began                   *)
(* (listenProgressScript).                                                   *)
ListenedIsReal ==
    \A u \in Listeners : listen[u] # Silence =>
        listen[u].listened <= listen[u].lastUpdate - listen[u].anchor

(* A user's plays of a track are a window apart, through whichever protocol  *)
(* they were reported, so that one continuous listen counts at most once     *)
(* (HeatRateLimitWindow).                                                    *)
PlaysAreSpaced ==
    \A u \in Listeners : \A a, b \in granted[u] : a < b => b - a >= Max({RateFloor, Duration})
                                                           + (IF Duration >= RateFloor THEN RateGrace ELSE 0)

(* An opened gate is never spent on a play that is in the log already: the   *)
(* listen's token rotates before the gate opens again (listenProgressScript, *)
(* CountPlay).                                                               *)
GateIsNotWasted ==
    \A r \in Reports : report[r] # Silence /\ report[r].pc = "count" /\ report[r].play =>
        <<"play", report[r].user, report[r].token>> \notin events

(* Every playback instance of the jukebox is recorded at most once, if its   *)
(* changes arrive in their order (trackJukeboxPlay).                         *)
JukeboxListensOnce ==
    \A g, h \in heard : g.epoch = h.epoch => g = h

(* A listen counts once, for time that went by, and the heat adds up, as     *)
(* said above (heat_repo.go, play_marker.go, jukebox.go).                    *)
ListeningSound ==
    /\ ListeningTypeOK
    /\ HeatIsTheLog /\ ListenedIsReal /\ PlaysAreSpaced /\ GateIsNotWasted /\ JukeboxListensOnce
===============================================================================
