------------------------------ MODULE MCPlayback -------------------------------
(* The parts of the server around playback: the playback engine, the jukebox   *)
(* handler, the counting of listens and the transcoder.  In the model they     *)
(* share no state, so a behaviour is one of a single part while the others     *)
(* stay as they began.                                                         *)
EXTENDS Player, Jukebox, Listening, Transcode

VARIABLE part

Parts == {"player", "jukebox", "listening", "transcode"}

(* A finished file of two fragments. *)
Box(type, size, time) == [type |-> type, size |-> size, time |-> time]
MCBoxes == <<Box("moov", 1, 0), Box("moof", 1, 0), Box("mdat", 2, 0), Box("moof", 1, 1), Box("mdat", 1, 0)>>
MCSegments == {<<1, 2>>}

(* A part that stays has one initial state.  Jukeboxes and devices start up to *)
(* their names.                                                                *)
FirstJuke == CHOOSE j \in Jukes : TRUE
FirstDevice == CHOOSE d \in Devices : TRUE
PlaybackInit ==
    /\ part \in Parts
    /\ PlayerInit /\ JukeInit /\ ListeningInit /\ TranscodeInit
    /\ part # "player" => eng.queue = <<>> /\ eng.mode = "normal" /\ eng.sidx = -1 /\ ~queuing
    /\ part # "jukebox" => known = {}
    /\ known # {} => FirstJuke \in known /\ jrow[FirstJuke].device = FirstDevice

PlayerSteps == part = "player" /\ PlayerNext /\ UNCHANGED <<part, jukeVars, listenVars, tvars>>
JukeboxSteps == part = "jukebox" /\ JukeNext /\ UNCHANGED <<part, playerVars, listenVars, tvars>>
ListeningSteps == part = "listening" /\ ListeningNext /\ UNCHANGED <<part, playerVars, jukeVars, tvars>>
TranscodeSteps == part = "transcode" /\ TranscodeNext /\ UNCHANGED <<part, playerVars, jukeVars, listenVars>>

PlaybackNext == PlayerSteps \/ JukeboxSteps \/ ListeningSteps \/ TranscodeSteps

PlaybackSpec ==
    /\ PlaybackInit
    /\ [][PlaybackNext]_<<part, playerVars, jukeVars, listenVars, tvars>>
    /\ PlayerFairness
===============================================================================
