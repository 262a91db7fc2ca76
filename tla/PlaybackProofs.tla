----------------------------- MODULE PlaybackProofs -----------------------------
(***************************************************************************)
(* Proofs about Player, for any tracks, plays, queues and commands; about  *)
(* Jukebox, for any jukeboxes, devices, engines and requests, of which     *)
(* those of the administration have the server to themselves; and about    *)
(* Listening, for any users, requests, track and limits, where what is     *)
(* counted assumes that requests are quick and an engine's changes come in *)
(* their order.                                                            *)
(***************************************************************************)
EXTENDS Player, Jukebox, Listening, FiniteSetTheorems, WellFoundedInduction, TLAPS

(***************************************************************************)
(* Player                                                                  *)
(***************************************************************************)

Orders == UNION {Perm(n) : n \in 0..MaxQueue}
EngineFields == [playing : BOOLEAN, current : PlayTracks \cup {NoTrack}, mode : Modes,
                 queue : Queues, idx : 0..MaxQueue, order : Orders,
                 sidx : -1..MaxQueue, pid : Plays \cup {NoTrack}, cancel : Plays \cup {NoTrack}]
PlayRecord == [pc : PlayPcs, track : PlayTracks \cup {NoTrack}, cancelled : BOOLEAN, alive : BOOLEAN]
PlayerTypes == /\ eng \in EngineFields /\ play \in [Plays -> PlayRecord]
               /\ engineUp \in {"up", "wedged", "crashed"}
               /\ queuing \in BOOLEAN /\ given \in 0..MaxCommands /\ cut \in BOOLEAN

(* The position in a shuffled order is one of its positions.               *)
InOrder(e) == e.order # <<>> => e.sidx < Len(e.order)

(* A process that was not told to end, or is about to start, is the one    *)
(* the engine can cancel.                                                  *)
Voiced(p) == ~play[p].cancelled /\ (play[p].pc = "start" \/ play[p].alive)
VoiceIsHeld == \A p \in Plays : /\ play[p].alive => play[p].pc \in {"pid", "run"}
                                /\ Voiced(p) => eng.cancel = p

(* The index is in the queue, until a track is removed in shuffle mode.    *)
IndexInQueue == cut \/ eng.idx <= Len(eng.queue)

(* When commands wait for each other's play: one play at a time is on its  *)
(* way, and the engine has no pid meanwhile.  A pid is that of a play of   *)
(* the current track, which nobody has cancelled.                          *)
OneInTransit == \A p \in Plays : InTransit(p) =>
    /\ eng.pid = NoTrack
    /\ \A q \in Plays : InTransit(q) => p = q
    /\ play[p].pc \in {"start", "pid"} =>
           eng.playing /\ play[p].track = eng.current /\ ~play[p].cancelled /\ eng.cancel = p
    /\ play[p].pc \in {"start", "pid", "again", "resolve"} => play[p].track # NoTrack
    /\ play[p].pc = "again" => play[p].track = eng.current
    /\ play[p].pc \in {"resolve", "advance", "again"} => eng.cancel \in {p, NoTrack}
PidIsCurrent == eng.pid # NoTrack =>
    /\ eng.playing /\ eng.current # NoTrack /\ eng.cancel = eng.pid
    /\ play[eng.pid].pc \in {"run", "sleep"} /\ ~play[eng.pid].cancelled /\ play[eng.pid].track = eng.current
RestHasPid == eng.playing /\ (\A p \in Plays : ~InTransit(p)) => eng.pid # NoTrack
Orderly == engineUp = "up" /\ OneInTransit /\ PidIsCurrent /\ RestHasPid

PlayerInv == /\ PlayerTypes /\ InOrder(eng) /\ VoiceIsHeld /\ IndexInQueue /\ WedgedByShuffleOnly
             /\ queuing /\ engineUp # "wedged" => Orderly

-----------------------------------------------------------------------------
(* Orders and queues.                                                      *)

LEMMA NoTrackIsNone == NoTrack \notin Plays /\ NoTrack \notin PlayTracks
BY PlayerConstants

LEMMA OrderFacts ==
  ASSUME NEW o \in Orders
  PROVE  Len(o) \in 0..MaxQueue /\ o \in [1..Len(o) -> 0..Len(o) - 1] /\ IsInjective(o)
<1>1. PICK n \in 0..MaxQueue : o \in Perm(n) BY DEF Orders
<1>2. o \in [1..n -> 0..n - 1] /\ n \in Nat /\ IsInjective(o) BY <1>1, PlayerConstants DEF Perm
<1>3. o \in Seq(0..n - 1) BY <1>2
<1>4. Len(o) = n BY <1>2, <1>3
<1> QED BY <1>1, <1>2, <1>4

LEMMA QueueFacts ==
  ASSUME NEW q \in Queues
  PROVE  Len(q) \in 0..MaxQueue /\ q \in [1..Len(q) -> PlayTracks] /\ q \in Seq(PlayTracks)
<1>1. PICK n \in 0..MaxQueue : q \in [1..n -> PlayTracks] BY DEF Queues, BoundedSeq, SeqOf
<1>2. n \in Nat BY PlayerConstants
<1>3. q \in Seq(PlayTracks) BY <1>1, <1>2
<1>4. Len(q) = n BY <1>1, <1>2, <1>3
<1> QED BY <1>1, <1>3, <1>4

LEMMA QueueOf ==
  ASSUME NEW q \in Seq(PlayTracks), Len(q) <= MaxQueue
  PROVE  q \in Queues
<1>1. q \in [1..Len(q) -> PlayTracks] /\ Len(q) \in 0..MaxQueue BY PlayerConstants
<1> QED BY <1>1 DEF Queues, BoundedSeq, SeqOf

LEMMA PermIsOrder ==
  ASSUME NEW q \in Queues, NEW o \in Perm(Len(q))
  PROVE  o \in Orders
BY QueueFacts DEF Orders

(* An order of as many positions as it counts has them all.                *)
LEMMA PositionExists ==
  ASSUME NEW o \in Orders, NEW i \in 0..Len(o) - 1
  PROVE  \E j \in 1..Len(o) : o[j] = i
<1> DEFINE n == Len(o)
<1>1. n \in Nat /\ o \in Injection(1..n, 0..n - 1) BY OrderFacts, PlayerConstants DEF Injection
<1> HIDE DEF n
<1>2. IsFiniteSet(0..n - 1) /\ Cardinality(0..n - 1) = n /\ Cardinality(1..n) = n
  <2>1. Cardinality(0..n - 1) = IF 0 > n - 1 THEN 0 ELSE (n - 1) - 0 + 1 BY <1>1, FS_Interval
  <2>2. Cardinality(1..n) = IF 1 > n THEN 0 ELSE n - 1 + 1 BY <1>1, FS_Interval
  <2> QED BY <1>1, <2>1, <2>2, FS_Interval
<1>3. o \in Surjection(1..n, 0..n - 1) BY <1>1, <1>2, FS_Injection
<1> QED BY <1>3 DEF Surjection, n

LEMMA LeastExists ==
  ASSUME NEW S \in SUBSET Nat, S # {}
  PROVE  Min(S) \in S
<1> DEFINE below == {p \in Nat \X Nat : p[1] < p[2]}
<1>1. below = OpToRel(<, Nat) BY DEF OpToRel
<1>2. IsWellFoundedOn(below, Nat) BY <1>1, NatLessThanWellFounded
<1>3. PICK n \in S : \A m \in S : ~(<<m, n>> \in below) BY <1>2, WFMin
<1>4. \A m \in S : n <= m
  <2>1. \A m \in S : m < n => <<m, n>> \in below OBVIOUS
  <2> HIDE DEF below
  <2>2. \A m \in S : ~(m < n) BY <1>3, <2>1
  <2> QED BY <2>2
<1> QED BY <1>4 DEF Min

-----------------------------------------------------------------------------
(* What the critical sections do to the fields.                            *)

SamePlay(e, f) == /\ f.playing = e.playing /\ f.current = e.current
                  /\ f.pid = e.pid /\ f.cancel = e.cancel
SameQueue(e, f) == f.mode = e.mode /\ f.queue = e.queue /\ f.order = e.order

LEMMA KilledFacts ==
  ASSUME NEW e \in EngineFields
  PROVE  /\ Killed(e) \in EngineFields /\ ~Killed(e).playing /\ Killed(e).pid = NoTrack
         /\ Killed(e).cancel = NoTrack /\ Killed(e).current = e.current
         /\ SameQueue(e, Killed(e)) /\ Killed(e).idx = e.idx /\ (InOrder(e) => InOrder(Killed(e)))
BY DEF Killed, EngineFields, SameQueue, InOrder

MovedTo(e, i, s) == [e EXCEPT !.idx = i, !.sidx = s]

LEMMA MovedFacts ==
  ASSUME NEW e \in EngineFields, NEW i \in 0..MaxQueue, NEW s \in -1..MaxQueue
  PROVE  /\ MovedTo(e, i, s) \in EngineFields /\ MovedTo(e, i, s).idx = i /\ MovedTo(e, i, s).sidx = s
         /\ SamePlay(e, MovedTo(e, i, s)) /\ SameQueue(e, MovedTo(e, i, s))
BY DEF EngineFields, SamePlay, SameQueue, MovedTo

LEMMA LocatedFacts ==
  ASSUME NEW e \in EngineFields, NEW t
  PROVE  /\ Located(e, t) \in EngineFields /\ SamePlay(e, Located(e, t)) /\ SameQueue(e, Located(e, t))
         /\ e.idx <= Len(e.queue) => Located(e, t).idx <= Len(e.queue)
         /\ InOrder(e) => InOrder(Located(e, t))
<1> DEFINE at == {i \in 1..Len(e.queue) : e.queue[i] = t}
<1> DEFINE i == Min(at) - 1
<1> DEFINE places == {j \in 1..Len(e.order) : e.order[j] = i}
<1> DEFINE s == IF e.mode = "shuffle" /\ places # {} THEN Min(places) - 1 ELSE e.sidx
<1>1. e.queue \in Queues /\ e.order \in Orders /\ e.sidx \in -1..MaxQueue BY DEF EngineFields
<1>2. Len(e.queue) \in 0..MaxQueue /\ Len(e.order) \in 0..MaxQueue /\ MaxQueue \in Nat
  BY <1>1, QueueFacts, OrderFacts, PlayerConstants
<1>3. CASE at = {} BY <1>3 DEF Located, SamePlay, SameQueue
<1>4. CASE at # {}
  <2>1. Min(at) \in at
    <3>1. at \in SUBSET Nat OBVIOUS
    <3> QED BY <1>4, <3>1, LeastExists
  <2>2. Min(at) \in 1..Len(e.queue) BY <2>1
  <2>3. i \in 0..MaxQueue /\ i <= Len(e.queue) BY <1>2, <2>2
  <2>4. s \in -1..MaxQueue /\ (s = e.sidx \/ s < Len(e.order))
    <3>1. CASE places = {} BY <1>1, <3>1
    <3>2. CASE places # {}
      <4>1. places \in SUBSET Nat OBVIOUS
      <4>2. Min(places) \in places BY <3>2, <4>1, LeastExists
      <4>3. Min(places) \in 1..Len(e.order) BY <4>2
      <4> HIDE DEF places
      <4> QED BY <1>1, <1>2, <4>3
    <3> QED BY <3>1, <3>2
  <2>5. Located(e, t) = MovedTo(e, i, s) BY <1>4 DEF Located, MovedTo
  <2> HIDE DEF i, s, at, places
  <2> QED BY <2>3, <2>4, <2>5, MovedFacts DEF InOrder, SameQueue
<1> QED BY <1>3, <1>4

(* What Next, Prev and playNext choose.                                    *)
Picked(e, r) ==
    /\ r[1] \in EngineFields /\ SamePlay(e, r[1]) /\ SameQueue(e, r[1]) /\ r[2] \in PlayTracks \cup {NoTrack}
    /\ (e.idx <= Len(e.queue) => r[1].idx <= Len(e.queue)) /\ (InOrder(e) => InOrder(r[1]))

LEMMA TrackAtType ==
  ASSUME NEW e \in EngineFields, NEW i \in Nat
  PROVE  TrackAt(e, i) \in PlayTracks \cup {NoTrack}
<1>1. e.queue \in Queues BY DEF EngineFields
<1>2. i < Len(e.queue) => i + 1 \in 1..Len(e.queue) BY <1>1, QueueFacts
<1> QED BY <1>1, <1>2, QueueFacts DEF TrackAt

LEMMA StayPicked ==
  ASSUME NEW e \in EngineFields, NEW t \in PlayTracks \cup {NoTrack}
  PROVE  Picked(e, <<e, t>>)
BY DEF Picked, SamePlay, SameQueue

LEMMA QueuedPicked ==
  ASSUME NEW e \in EngineFields, NEW i \in Nat, i <= Len(e.queue) \/ (i <= e.idx /\ i <= MaxQueue)
  PROVE  Picked(e, QueuedTo(e, i)) /\ QueuedTo(e, i)[1].idx = i
<1>1. Len(e.queue) \in 0..MaxQueue /\ e.idx \in 0..MaxQueue /\ e.sidx \in -1..MaxQueue BY QueueFacts DEF EngineFields
<1>2. i \in 0..MaxQueue /\ (e.idx <= Len(e.queue) => i <= Len(e.queue)) BY <1>1, PlayerConstants
<1>3. [e EXCEPT !.idx = i] = MovedTo(e, i, e.sidx) BY DEF EngineFields, MovedTo
<1> DEFINE f == [e EXCEPT !.idx = i]
<1>4. f \in EngineFields /\ f.idx = i /\ f.sidx = e.sidx /\ SamePlay(e, f) /\ SameQueue(e, f)
  BY <1>1, <1>2, <1>3, MovedFacts
<1>5. QueuedTo(e, i)[1] = f /\ QueuedTo(e, i)[2] = TrackAt(e, i) BY DEF QueuedTo
<1> HIDE DEF f
<1> QED BY <1>2, <1>4, <1>5, TrackAtType DEF Picked, InOrder, SameQueue

LEMMA ShuffledPicked ==
  ASSUME NEW e \in EngineFields, NEW s \in Nat, s < Len(e.order)
  PROVE  Picked(e, ShuffledTo(e, s)) /\ ShuffledTo(e, s)[1].idx = e.idx
<1>1. e.order \in Orders /\ e.idx \in 0..MaxQueue BY DEF EngineFields
<1>2. Len(e.order) \in 0..MaxQueue /\ s + 1 \in 1..Len(e.order) /\ s \in -1..MaxQueue
  BY <1>1, OrderFacts, PlayerConstants
<1>3. e.order[s + 1] \in Nat BY <1>1, <1>2, OrderFacts
<1>4. [e EXCEPT !.sidx = s] = MovedTo(e, e.idx, s) BY DEF EngineFields, MovedTo
<1> DEFINE f == [e EXCEPT !.sidx = s]
<1>5. f \in EngineFields /\ f.idx = e.idx /\ f.sidx = s /\ SamePlay(e, f) /\ SameQueue(e, f) BY <1>1, <1>2, <1>4, MovedFacts
<1>6. ShuffledTo(e, s)[1] = f /\ ShuffledTo(e, s)[2] = TrackAt(e, e.order[s + 1]) BY DEF ShuffledTo
<1> HIDE DEF f
<1> QED BY <1>3, <1>5, <1>6, TrackAtType DEF Picked, InOrder, SameQueue

LEMMA PickFacts ==
  ASSUME NEW e \in EngineFields, InOrder(e)
  PROVE  /\ Picked(e, NextPick(e)) /\ Picked(e, PrevPick(e)) /\ Picked(e, AutoPick(e))
         /\ PrevPick(e)[1].idx # e.idx => PrevPick(e)[1].idx = e.idx - 1 /\ e.idx > 0
         /\ e.mode = "repeat_one" => AutoPick(e)[2] = e.current
<1>1. /\ Len(e.queue) \in 0..MaxQueue /\ e.idx \in 0..MaxQueue /\ e.sidx \in -1..MaxQueue
      /\ Len(e.order) \in 0..MaxQueue /\ MaxQueue \in Nat
      /\ e.current \in PlayTracks \cup {NoTrack}
  BY QueueFacts, OrderFacts, PlayerConstants DEF EngineFields
<1>2. Picked(e, <<e, NoTrack>>) /\ Picked(e, <<e, e.current>>) BY <1>1, StayPicked
<1>3. CanShuffleOn(e) => Picked(e, ShuffledTo(e, e.sidx + 1))
  <2>1. CanShuffleOn(e) => e.sidx + 1 \in Nat /\ e.sidx + 1 < Len(e.order) BY <1>1 DEF CanShuffleOn
  <2> QED BY <2>1, ShuffledPicked
<1>4. e.idx < Len(e.queue) - 1 => Picked(e, QueuedTo(e, e.idx + 1))
  <2>1. e.idx < Len(e.queue) - 1 => e.idx + 1 \in Nat /\ e.idx + 1 <= Len(e.queue) BY <1>1
  <2> QED BY <2>1, QueuedPicked
<1>5. e.idx > 0 => Picked(e, QueuedTo(e, e.idx - 1)) /\ QueuedTo(e, e.idx - 1)[1].idx = e.idx - 1
  <2>1. e.idx > 0 => e.idx - 1 \in Nat /\ e.idx - 1 <= e.idx /\ e.idx - 1 <= MaxQueue BY <1>1
  <2> QED BY <2>1, QueuedPicked
<1>6. e.queue # <<>> => Picked(e, QueuedTo(e, (e.idx + 1) % Len(e.queue)))
  <2>1. e.queue \in Seq(PlayTracks) BY QueueFacts DEF EngineFields
  <2>2. e.queue # <<>> => Len(e.queue) > 0 BY <2>1
  <2>3. e.queue # <<>> => (e.idx + 1) % Len(e.queue) \in Nat /\ (e.idx + 1) % Len(e.queue) <= Len(e.queue) BY <1>1, <2>2
  <2> QED BY <2>3, QueuedPicked
<1>7. e.order # <<>> /\ e.sidx > 0 => Picked(e, ShuffledTo(e, e.sidx - 1)) /\ ShuffledTo(e, e.sidx - 1)[1].idx = e.idx
  <2>1. e.order # <<>> /\ e.sidx > 0 => e.sidx - 1 \in Nat /\ e.sidx - 1 < Len(e.order) BY <1>1 DEF InOrder
  <2> QED BY <2>1, ShuffledPicked
<1>8. Picked(e, NextPick(e)) BY <1>2, <1>3, <1>4 DEF NextPick
<1>9. Picked(e, PrevPick(e)) /\ (PrevPick(e)[1].idx # e.idx => PrevPick(e)[1].idx = e.idx - 1 /\ e.idx > 0)
  BY <1>2, <1>5, <1>7 DEF PrevPick
<1>10. Picked(e, AutoPick(e)) BY <1>2, <1>3, <1>4, <1>6 DEF AutoPick
<1>11. e.mode = "repeat_one" => AutoPick(e)[2] = e.current BY DEF AutoPick
<1> QED BY <1>8, <1>9, <1>10, <1>11

-----------------------------------------------------------------------------
(* The initial states.                                                     *)

LEMMA EmptyOrder == <<>> \in Orders
<1>1. <<>> \in [1..0 -> 0..0 - 1] /\ IsInjective(<<>>) BY DEF IsInjective
<1>2. 0 \in 0..MaxQueue BY PlayerConstants
<1>3. <<>> \in Perm(0) BY <1>1 DEF Perm
<1> QED BY <1>2, <1>3 DEF Orders

LEMMA FreeFacts == /\ Free \in PlayRecord /\ Free.pc = "free" /\ Free.track = NoTrack /\ ~Free.cancelled /\ ~Free.alive
BY DEF Free, PlayRecord, PlayPcs

LEMMA InitPlayer == PlayerInit => PlayerInv
<1> SUFFICES ASSUME PlayerInit PROVE PlayerInv OBVIOUS
<1>1. PICK q \in Queues, m \in Modes :
         \E i \in 0..(IF q = <<>> THEN 0 ELSE Len(q) - 1), o \in IF m = "shuffle" THEN Perm(Len(q)) ELSE {<<>>} :
           \E s \in IF o = <<>> THEN {-1, 0} ELSE {k \in 0..Len(o)-1 : o[k+1] = i} :
             eng = [playing |-> FALSE, current |-> NoTrack, mode |-> m, queue |-> q, idx |-> i,
                    order |-> o, sidx |-> s, pid |-> NoTrack, cancel |-> NoTrack]
  BY DEF PlayerInit
<1>2. PICK i \in 0..(IF q = <<>> THEN 0 ELSE Len(q) - 1), o \in IF m = "shuffle" THEN Perm(Len(q)) ELSE {<<>>} :
           \E s \in IF o = <<>> THEN {-1, 0} ELSE {k \in 0..Len(o)-1 : o[k+1] = i} :
             eng = [playing |-> FALSE, current |-> NoTrack, mode |-> m, queue |-> q, idx |-> i,
                    order |-> o, sidx |-> s, pid |-> NoTrack, cancel |-> NoTrack]
  BY <1>1
<1>3. PICK s \in IF o = <<>> THEN {-1, 0} ELSE {k \in 0..Len(o)-1 : o[k+1] = i} :
             eng = [playing |-> FALSE, current |-> NoTrack, mode |-> m, queue |-> q, idx |-> i,
                    order |-> o, sidx |-> s, pid |-> NoTrack, cancel |-> NoTrack]
  BY <1>2
<1>4. Len(q) \in 0..MaxQueue /\ MaxQueue \in Nat BY QueueFacts, PlayerConstants
<1>5. o \in Orders BY EmptyOrder, PermIsOrder
<1>6. i \in 0..MaxQueue /\ i <= Len(q)
  <2>1. q # <<>> => Len(q) > 0 BY QueueFacts
  <2> QED BY <1>4, <2>1
<1>7. s \in -1..MaxQueue /\ (o # <<>> => s < Len(o))
  <2>1. Len(o) \in 0..MaxQueue BY <1>5, OrderFacts
  <2> QED BY <1>4, <2>1
<1>8. PlayerTypes
  <2>1. eng \in EngineFields BY <1>3, <1>5, <1>6, <1>7 DEF EngineFields
  <2>2. play \in [Plays -> PlayRecord] BY FreeFacts DEF PlayerInit
  <2>3. given = 0 /\ queuing \in BOOLEAN /\ cut = FALSE /\ engineUp = "up" BY Zenon DEF PlayerInit
  <2>4. given \in 0..MaxCommands BY <2>3, PlayerConstants
  <2> QED BY <2>1, <2>2, <2>3, <2>4 DEF PlayerTypes
<1>9. InOrder(eng) /\ IndexInQueue BY <1>3, <1>6, <1>7 DEF InOrder, IndexInQueue
<1>10. eng.pid = NoTrack /\ ~eng.playing BY <1>3
<1>11. \A p \in Plays : play[p] = Free /\ ~InTransit(p) BY FreeFacts DEF PlayerInit, InTransit
<1>12. VoiceIsHeld BY <1>11, FreeFacts DEF VoiceIsHeld, Voiced
<1>13. WedgedByShuffleOnly /\ engineUp = "up" BY DEF PlayerInit, WedgedByShuffleOnly
<1>14. Orderly BY <1>10, <1>11, <1>13 DEF Orderly, OneInTransit, PidIsCurrent, RestHasPid
<1> QED BY <1>8, <1>9, <1>12, <1>13, <1>14 DEF PlayerInv

LEMMA InvImpliesPlayerSound == PlayerInv => PlayerSound
<1> SUFFICES ASSUME PlayerInv PROVE PlayerSound OBVIOUS
<1> USE DEF PlayerInv
<1>1. PlayerTypeOK BY DEF PlayerTypes, PlayerTypeOK, EngineFields, PlayRecord, Orders
<1>2. OneVoice BY DEF OneVoice, VoiceIsHeld, Voiced
<1>3. PlayingIsHeard
  <2> SUFFICES ASSUME queuing, engineUp # "wedged", \A p \in Plays : ~InTransit(p)
               PROVE  /\ engineUp # "crashed"
                      /\ (eng.playing <=> \E p \in Plays : /\ eng.pid = p /\ play[p].pc \in {"run", "sleep"}
                                                            /\ ~play[p].cancelled /\ play[p].track = eng.current)
    BY DEF PlayingIsHeard
  <2>1. Orderly OBVIOUS
  <2>2. eng.pid \in Plays \cup {NoTrack} BY DEF PlayerTypes, EngineFields
  <2>3. eng.playing => eng.pid \in Plays BY <2>1, <2>2 DEF Orderly, RestHasPid
  <2> QED BY <2>1, <2>3, NoTrackIsNone DEF Orderly, PidIsCurrent
<1> QED BY <1>1, <1>2, <1>3 DEF PlayerSound

-----------------------------------------------------------------------------
(* What a play does when it takes over, and what is left when none does.   *)

LEMMA CancelFacts ==
  ASSUME PlayerTypes
  PROVE  /\ Cancelling(play, eng) \in [Plays -> PlayRecord]
         /\ \A p \in Plays : /\ Cancelling(play, eng)[p].pc = play[p].pc
                             /\ Cancelling(play, eng)[p].track = play[p].track
                             /\ Cancelling(play, eng)[p].alive = play[p].alive
                             /\ Cancelling(play, eng)[p].cancelled = (play[p].cancelled \/ eng.cancel = p)
<1>1. eng.cancel \in Plays \cup {NoTrack} /\ play \in [Plays -> PlayRecord] BY DEF PlayerTypes, EngineFields
<1>2. CASE eng.cancel = NoTrack BY <1>1, <1>2, NoTrackIsNone DEF Cancelling, PlayRecord
<1>3. CASE eng.cancel # NoTrack
  <2> DEFINE c == eng.cancel
  <2>1. Cancelling(play, eng) = [play EXCEPT ![c] = [play[c] EXCEPT !.cancelled = TRUE]] BY <1>3 DEF Cancelling
  <2>2. c \in Plays /\ play[c] \in PlayRecord BY <1>1, <1>3
  <2>3. /\ [play[c] EXCEPT !.cancelled = TRUE] \in PlayRecord /\ [play[c] EXCEPT !.cancelled = TRUE].cancelled = TRUE
        /\ [play[c] EXCEPT !.cancelled = TRUE].pc = play[c].pc /\ [play[c] EXCEPT !.cancelled = TRUE].track = play[c].track
        /\ [play[c] EXCEPT !.cancelled = TRUE].alive = play[c].alive
    BY <2>2 DEF PlayRecord
  <2>4. \A p \in Plays : play[p].cancelled \in BOOLEAN BY <1>1 DEF PlayRecord
  <2> QED BY <1>1, <2>1, <2>2, <2>3, <2>4
<1> QED BY <1>2, <1>3

LEMMA TakesOver ==
  ASSUME PlayerInv, NEW p \in Plays, ~play[p].alive, engineUp = "up", engineUp' = "up", queuing' = queuing,
         given' \in 0..MaxCommands, cut' = cut, eng' \in EngineFields, InOrder(eng)',
         eng'.playing, eng'.pid = NoTrack, eng'.cancel = p,
         IndexInQueue', NEW t \in PlayTracks \cup {NoTrack},
         play' = [Cancelling(play, eng) EXCEPT ![p] = [Free EXCEPT !.pc = "start", !.track = t]],
         queuing => t # NoTrack /\ t = eng'.current /\ \A q \in Plays \ {p} : ~InTransit(q)
  PROVE  PlayerInv'
<1> DEFINE s == [Free EXCEPT !.pc = "start", !.track = t]
<1> USE DEF PlayerInv
<1>1. s \in PlayRecord /\ s.pc = "start" /\ s.track = t /\ ~s.cancelled /\ ~s.alive BY DEF Free, PlayRecord, PlayPcs
<1>2. play' \in [Plays -> PlayRecord] /\ play'[p] = s BY <1>1, CancelFacts
<1>3. ASSUME NEW q \in Plays \ {p}
      PROVE  play'[q].pc = play[q].pc /\ play'[q].alive = play[q].alive /\ play'[q].cancelled = (play[q].cancelled \/ eng.cancel = q)
             /\ (InTransit(q)' <=> InTransit(q))
  BY <1>3, CancelFacts DEF InTransit
<1> HIDE DEF s
<1>4. PlayerTypes' BY <1>2 DEF PlayerTypes
<1>5. VoiceIsHeld' BY <1>1, <1>2, <1>3, ZenonT(60) DEF VoiceIsHeld, Voiced
<1>6. WedgedByShuffleOnly' BY DEF WedgedByShuffleOnly
<1>7. ASSUME queuing PROVE Orderly'
  <2>1. \A q \in Plays : InTransit(q)' => q = p BY <1>3, <1>7
  <2>2. InTransit(p)' BY <1>1, <1>2 DEF InTransit
  <2>3. OneInTransit' BY <1>1, <1>2, <1>7, <2>1 DEF OneInTransit
  <2>4. PidIsCurrent' /\ RestHasPid' BY <2>2 DEF PidIsCurrent, RestHasPid
  <2> QED BY <2>3, <2>4 DEF Orderly
<1> QED BY <1>4, <1>5, <1>6, <1>7

(* The engine is told to stop; p may be on its way to a track.             *)
LEMMA Stopped ==
  ASSUME PlayerInv, engineUp = "up", engineUp' \in {"up", "wedged"}, engineUp' = "wedged" => cut', queuing' = queuing,
         given' \in 0..MaxCommands, cut' = cut, eng' \in EngineFields, InOrder(eng)',
         ~eng'.playing, eng'.pid = NoTrack, eng'.cancel = NoTrack, IndexInQueue',
         queuing => \A q \in Plays : ~InTransit(q),
         NEW p, NEW t,
         \/ play' = Cancelling(play, eng)
         \/ /\ play' = [Cancelling(play, eng) EXCEPT ![p] = [Free EXCEPT !.pc = "resolve", !.track = t]]
            /\ p \in Plays /\ t \in PlayTracks
  PROVE  PlayerInv'
<1> DEFINE s == [Free EXCEPT !.pc = "resolve", !.track = t]
<1> USE DEF PlayerInv
<1>1. (t \in PlayTracks => s \in PlayRecord) /\ s.pc = "resolve" /\ s.track = t /\ ~s.cancelled /\ ~s.alive BY DEF Free, PlayRecord, PlayPcs
<1>2. play' \in [Plays -> PlayRecord] BY <1>1, CancelFacts
<1>3. ASSUME NEW q \in Plays
      PROVE  \/ p = q /\ play'[q] = s /\ t \in PlayTracks
             \/ /\ play'[q].pc = play[q].pc /\ play'[q].alive = play[q].alive
                /\ play'[q].cancelled = (play[q].cancelled \/ eng.cancel = q)
                /\ (InTransit(q)' <=> InTransit(q))
  BY <1>3, CancelFacts DEF InTransit
<1> HIDE DEF s
<1>4. PlayerTypes' BY <1>2 DEF PlayerTypes
<1>5. VoiceIsHeld' BY <1>1, <1>2, <1>3 DEF VoiceIsHeld, Voiced
<1>6. WedgedByShuffleOnly' BY DEF WedgedByShuffleOnly
<1>7. ASSUME queuing, engineUp' = "up" PROVE Orderly'
  <2>1. \A q \in Plays : InTransit(q)' => q = p /\ play'[q] = s /\ t \in PlayTracks BY <1>3, <1>7
  <2>2. OneInTransit' BY <1>1, <2>1, NoTrackIsNone DEF OneInTransit
  <2>3. PidIsCurrent' /\ RestHasPid' BY DEF PidIsCurrent, RestHasPid
  <2> QED BY <1>7, <2>2, <2>3 DEF Orderly
<1> QED BY <1>4, <1>5, <1>6, <1>7

(* The queue changes, not the play.                                        *)
LEMMA QueueChanges ==
  ASSUME PlayerInv, UNCHANGED <<play, engineUp, queuing>>, given' \in 0..MaxCommands, cut' \in BOOLEAN, cut => cut',
         eng' \in EngineFields, InOrder(eng)', IndexInQueue', SamePlay(eng, eng')
  PROVE  PlayerInv'
<1> USE DEF PlayerInv, SamePlay
<1>1. PlayerTypes' BY DEF PlayerTypes
<1>2. \A p \in Plays : (InTransit(p)' <=> InTransit(p)) /\ (Voiced(p)' <=> Voiced(p)) BY DEF InTransit, Voiced
<1>3. VoiceIsHeld' BY <1>2 DEF VoiceIsHeld
<1>4. WedgedByShuffleOnly' BY DEF WedgedByShuffleOnly
<1>5. Orderly => Orderly' BY <1>2 DEF Orderly, OneInTransit, PidIsCurrent, RestHasPid
<1> QED BY <1>1, <1>3, <1>4, <1>5

-----------------------------------------------------------------------------
(* The commands.                                                           *)

LEMMA CommandFacts ==
  ASSUME PlayerInv, Command
  PROVE  /\ engineUp = "up" /\ given' \in 0..MaxCommands /\ given' # given /\ queuing' = queuing
         /\ queuing => \A p \in Plays : ~InTransit(p)
         /\ eng \in EngineFields /\ InOrder(eng) /\ eng.queue \in Queues /\ eng.idx \in 0..MaxQueue
         /\ Len(eng.queue) \in 0..MaxQueue /\ MaxQueue \in Nat
<1>1. given \in 0..MaxCommands /\ eng \in EngineFields BY DEF PlayerInv, PlayerTypes
<1>2. eng.queue \in Queues /\ eng.idx \in 0..MaxQueue BY <1>1 DEF EngineFields
<1> QED BY <1>1, <1>2, QueueFacts, PlayerConstants DEF PlayerInv, Command

(* Killed, then at the first occurrence of the track.                      *)
Begun(e, p, c, t) == Located([Killed(e) EXCEPT !.current = c, !.playing = TRUE, !.cancel = p], t)

LEMMA BegunFacts ==
  ASSUME NEW e \in EngineFields, InOrder(e), NEW p \in Plays, NEW c \in PlayTracks \cup {NoTrack}, NEW t
  PROVE  LET f == Begun(e, p, c, t) IN
         /\ f \in EngineFields /\ InOrder(f) /\ f.playing /\ f.pid = NoTrack /\ f.cancel = p /\ f.current = c
         /\ f.queue = e.queue /\ (e.idx <= Len(e.queue) => f.idx <= Len(f.queue))
<1> DEFINE k == Killed(e)
<1> DEFINE g == [k EXCEPT !.current = c, !.playing = TRUE, !.cancel = p]
<1>1. k \in EngineFields /\ k.pid = NoTrack /\ SameQueue(e, k) /\ k.idx = e.idx /\ InOrder(k) BY KilledFacts
<1> HIDE DEF k
<1>2. /\ g \in EngineFields /\ g.current = c /\ g.playing /\ g.cancel = p /\ g.pid = NoTrack
      /\ g.mode = k.mode /\ g.queue = k.queue /\ g.order = k.order /\ g.idx = k.idx /\ g.sidx = k.sidx
  BY <1>1 DEF EngineFields
<1> HIDE DEF g
<1>3. InOrder(g) BY <1>1, <1>2 DEF InOrder
<1>4. /\ Located(g, t) \in EngineFields /\ SamePlay(g, Located(g, t)) /\ SameQueue(g, Located(g, t))
      /\ (g.idx <= Len(g.queue) => Located(g, t).idx <= Len(g.queue)) /\ InOrder(Located(g, t))
  BY <1>2, <1>3, LocatedFacts
<1>5. LET f == Located(g, t) IN
         /\ f \in EngineFields /\ InOrder(f) /\ f.playing /\ f.pid = NoTrack /\ f.cancel = p /\ f.current = c
         /\ f.queue = e.queue /\ (e.idx <= Len(e.queue) => f.idx <= Len(f.queue))
  BY <1>1, <1>2, <1>4 DEF SamePlay, SameQueue
<1> QED BY <1>5 DEF g, k, Begun

LEMMA BeginsKeeps ==
  ASSUME PlayerInv, NEW p \in Plays, NEW t \in PlayTracks \cup {NoTrack}, BeginPlay(p, t), ~play[p].alive,
         engineUp = "up", engineUp' = "up", queuing' = queuing, cut' = cut, given' \in 0..MaxCommands,
         queuing => t # NoTrack /\ \A q \in Plays \ {p} : ~InTransit(q)
  PROVE  PlayerInv'
<1>1. eng \in EngineFields /\ InOrder(eng) BY DEF PlayerInv, PlayerTypes
<1> DEFINE f == Begun(eng, p, t, t)
<1>2. /\ f \in EngineFields /\ InOrder(f) /\ f.playing /\ f.pid = NoTrack /\ f.cancel = p /\ f.current = t
      /\ (eng.idx <= Len(eng.queue) => f.idx <= Len(f.queue))
  BY <1>1, BegunFacts
<1>3. eng' = f BY DEF BeginPlay, Begun
<1> HIDE DEF f
<1>4. IndexInQueue' /\ InOrder(eng)' BY <1>2, <1>3 DEF PlayerInv, IndexInQueue, InOrder
<1> QED BY <1>2, <1>3, <1>4, TakesOver DEF BeginPlay

LEMMA PlayKeeps ==
  ASSUME PlayerInv, NEW p \in Plays, NEW t \in PlayTracks, Play(p, t)
  PROVE  PlayerInv'
<1>1. ~play[p].alive BY DEF Play, PlayerInv, VoiceIsHeld
<1> QED BY <1>1, CommandFacts, BeginsKeeps, NoTrackIsNone DEF Play

LEMMA StopKeeps ==
  ASSUME PlayerInv, Stop \/ ClearQueue
  PROVE  PlayerInv'
<1>1. Command /\ UNCHANGED <<engineUp, cut>> /\ play' = Cancelling(play, eng) BY DEF Stop, ClearQueue
<1>2. /\ Killed(eng) \in EngineFields /\ ~Killed(eng).playing /\ Killed(eng).pid = NoTrack
      /\ Killed(eng).cancel = NoTrack /\ SameQueue(eng, Killed(eng)) /\ Killed(eng).idx = eng.idx /\ InOrder(Killed(eng))
  BY <1>1, CommandFacts, KilledFacts
<1>3. /\ eng' \in EngineFields /\ InOrder(eng)' /\ ~eng'.playing /\ eng'.pid = NoTrack /\ eng'.cancel = NoTrack
      /\ IndexInQueue'
  <2>1. CASE Stop BY <1>2, <2>1 DEF Stop, PlayerInv, IndexInQueue, SameQueue, InOrder
  <2>2. CASE ClearQueue
    <3> DEFINE k == Killed(eng)
    <3> DEFINE f == [k EXCEPT !.queue = <<>>, !.idx = 0, !.order = <<>>, !.sidx = -1]
    <3>0. <<>> \in Seq(PlayTracks) /\ Len(<<>>) <= MaxQueue BY PlayerConstants
    <3>1. <<>> \in Queues BY <3>0, QueueOf
    <3>4. 0 \in 0..MaxQueue /\ -1 \in -1..MaxQueue BY PlayerConstants
    <3>2. f \in EngineFields /\ ~f.playing /\ f.pid = NoTrack /\ f.cancel = NoTrack /\ f.order = <<>> /\ f.idx = 0 /\ f.queue = <<>>
      BY <1>2, <3>1, <3>4, EmptyOrder DEF EngineFields
    <3>3. eng' = f BY <2>2 DEF ClearQueue
    <3> HIDE DEF f
    <3> QED BY <3>2, <3>3 DEF InOrder, IndexInQueue
  <2> QED BY <1>1, <2>1, <2>2
<1> QED BY <1>1, <1>3, CommandFacts, Stopped DEF Stop, ClearQueue

LEMMA ChosenKeeps ==
  ASSUME PlayerInv, NEW p \in Plays, NextTrack(p) \/ PrevTrack(p)
  PROVE  PlayerInv'
<1>1. Command /\ cut' = cut BY DEF NextTrack, PrevTrack
<1>2. /\ Killed(eng) \in EngineFields /\ ~Killed(eng).playing /\ Killed(eng).pid = NoTrack
      /\ Killed(eng).cancel = NoTrack /\ SameQueue(eng, Killed(eng)) /\ Killed(eng).idx = eng.idx /\ InOrder(Killed(eng))
  BY <1>1, CommandFacts, KilledFacts
<1>3. PICK e, t : Chosen(p, e, t) /\ t \in PlayTracks \cup {NoTrack}
                  /\ \E x : Picked(Killed(eng), <<e, x>>)
  <2>1. Picked(eng, NextPick(eng)) /\ Picked(eng, PrevPick(eng)) BY <1>1, CommandFacts, PickFacts
  <2>2. Picked(Killed(eng), NextPick(Killed(eng))) /\ Picked(Killed(eng), PrevPick(Killed(eng))) BY <1>2, PickFacts
  <2>3. \A r : Picked(Killed(eng), r) => Picked(Killed(eng), <<r[1], r[2]>>) BY DEF Picked
  <2> QED BY <2>1, <2>2, <2>3 DEF NextTrack, PrevTrack, Picked
<1>4. /\ e \in EngineFields /\ InOrder(e) /\ ~e.playing /\ e.pid = NoTrack /\ e.cancel = NoTrack /\ e.queue = eng.queue
      /\ (eng.idx <= Len(eng.queue) => e.idx <= Len(e.queue))
  BY <1>2, <1>3 DEF Picked, SamePlay, SameQueue
<1>5. eng' = e BY <1>3 DEF Chosen
<1>6. InOrder(eng)' /\ IndexInQueue' BY <1>1, <1>4, <1>5 DEF InOrder, IndexInQueue, PlayerInv
<1>7. engineUp' \in {"up", "wedged"} /\ (engineUp' = "wedged" => cut')
  <2>1. CASE NextTrack(p) BY <1>1, <2>1, CommandFacts DEF NextTrack
  <2>2. CASE PrevTrack(p)
    <3>1. PrevPick(eng)[1].idx # eng.idx => PrevPick(eng)[1].idx = eng.idx - 1 BY <1>1, CommandFacts, PickFacts
    <3>2. engineUp' = "wedged" => eng.idx - 1 >= Len(eng.queue) BY <2>2, <3>1 DEF PrevTrack
    <3>3. engineUp' = "wedged" => ~(eng.idx <= Len(eng.queue)) BY <1>1, <3>2, CommandFacts
    <3>4. engineUp' \in {"up", "wedged"} BY <2>2 DEF PrevTrack
    <3> QED BY <1>1, <3>3, <3>4 DEF PlayerInv, IndexInQueue
  <2> QED BY <2>1, <2>2
<1>8. CASE t = NoTrack
  <2>1. play' = Cancelling(play, eng) BY <1>3, <1>8 DEF Chosen
  <2> QED BY <1>1, <1>4, <1>5, <1>6, <1>7, <2>1, CommandFacts, Stopped
<1>9. CASE t # NoTrack
  <2>1. t \in PlayTracks /\ play' = [Cancelling(play, eng) EXCEPT ![p] = [Free EXCEPT !.pc = "resolve", !.track = t]]
    BY <1>3, <1>9 DEF Chosen
  <2> QED BY <1>1, <1>4, <1>5, <1>6, <1>7, <2>1, CommandFacts, Stopped
<1> QED BY <1>8, <1>9

LEMMA PermFacts ==
  ASSUME NEW q \in Queues, NEW o \in Perm(Len(q))
  PROVE  o \in Orders /\ Len(o) = Len(q) /\ Len(o) \in Nat
<1>1. Len(q) \in Nat BY QueueFacts, PlayerConstants
<1>2. o \in [1..Len(q) -> 0..Len(q) - 1] BY DEF Perm
<1>3. o \in Seq(0..Len(q) - 1) BY <1>1, <1>2
<1>4. Len(o) = Len(q) BY <1>1, <1>2, <1>3
<1> QED BY <1>1, <1>4, PermIsOrder

LEMMA RemovedFacts ==
  ASSUME NEW q \in Queues, NEW i \in Nat, i < Len(q)
  PROVE  RemoveAt(q, i + 1) \in Queues /\ Len(RemoveAt(q, i + 1)) = Len(q) - 1
<1> DEFINE front == SubSeq(q, 1, (i + 1) - 1)
<1> DEFINE back == SubSeq(q, (i + 1) + 1, Len(q))
<1>1. q \in Seq(PlayTracks) /\ Len(q) \in 0..MaxQueue /\ MaxQueue \in Nat BY QueueFacts, PlayerConstants
<1>2. front \in Seq(PlayTracks) /\ Len(front) = i BY <1>1
<1>3. back \in Seq(PlayTracks) /\ Len(back) = Len(q) - (i + 1) BY <1>1
<1>4. RemoveAt(q, i + 1) = front \o back BY DEF RemoveAt
<1> HIDE DEF front, back
<1>5. front \o back \in Seq(PlayTracks) /\ Len(front \o back) = Len(q) - 1 BY <1>1, <1>2, <1>3, SMTT(30)
<1>6. Len(front \o back) <= MaxQueue BY <1>1, <1>5
<1> QED BY <1>4, <1>5, <1>6, QueueOf

LEMMA RearrangedFacts ==
  ASSUME NEW e \in EngineFields, NEW f \in EngineFields, SamePlay(e, f), e = eng, f = eng', PlayerInv, Command,
         UNCHANGED <<play, engineUp>>, cut' \in BOOLEAN, cut => cut', InOrder(f), cut' \/ f.idx <= Len(f.queue)
  PROVE  PlayerInv'
<1>1. InOrder(eng)' /\ IndexInQueue' BY DEF InOrder, IndexInQueue
<1> QED BY <1>1, CommandFacts, QueueChanges

LEMMA RearrangingKeeps ==
  ASSUME PlayerInv, \/ \E m \in Modes : SetPlayMode(m)
                    \/ \E ids \in Queues : AddToQueue(ids) \/ SetQueue(ids)
                    \/ \E i \in 0..MaxQueue - 1 : RemoveFromQueue(i)
                    \/ Shuffle
  PROVE  PlayerInv'
<1>0. Command BY DEF SetPlayMode, AddToQueue, SetQueue, RemoveFromQueue, Shuffle
<1>1. /\ eng \in EngineFields /\ InOrder(eng) /\ eng.queue \in Queues /\ eng.idx \in 0..MaxQueue
      /\ Len(eng.queue) \in 0..MaxQueue /\ MaxQueue \in Nat
      /\ cut \in BOOLEAN /\ (cut \/ eng.idx <= Len(eng.queue))
  BY <1>0, CommandFacts DEF PlayerInv, PlayerTypes, IndexInQueue
<1>2. \A o \in Orders : o # <<>> => Len(o) > 0
  <2>1. \A o \in Orders : o \in Seq(Nat)
    <3> SUFFICES ASSUME NEW o \in Orders PROVE o \in Seq(Nat) OBVIOUS
    <3>1. Len(o) \in Nat /\ o \in [1..Len(o) -> 0..Len(o) - 1] BY OrderFacts, PlayerConstants
    <3>2. o \in [1..Len(o) -> Nat] BY <3>1
    <3> QED BY <3>1, <3>2
  <2> QED BY <2>1
<1>3. ASSUME NEW m \in Modes, SetPlayMode(m) PROVE PlayerInv'
  <2>1. CASE m = "shuffle" /\ eng.queue # <<>>
    <3> DEFINE place(o) == (CHOOSE j \in 1..Len(o) : o[j] = eng.idx) - 1
    <3> DEFINE s(o) == IF eng.idx < Len(eng.queue) THEN place(o) ELSE 0
    <3>1. PICK o \in Perm(Len(eng.queue)) : eng' = [eng EXCEPT !.mode = m, !.order = o, !.sidx = s(o)]
      BY <1>3, <2>1 DEF SetPlayMode
    <3>2. o \in Orders /\ Len(o) = Len(eng.queue) BY <1>1, PermFacts
    <3>3. Len(eng.queue) > 0
      <4>1. eng.queue \in Seq(PlayTracks) BY <1>1, QueueFacts
      <4> QED BY <2>1, <4>1
    <3>4. eng.idx < Len(eng.queue) => \E j \in 1..Len(o) : o[j] = eng.idx
      <4>1. eng.idx < Len(eng.queue) => eng.idx \in 0..Len(o) - 1 BY <1>1, <3>2
      <4> QED BY <3>2, <4>1, PositionExists
    <3>5. eng.idx < Len(eng.queue) => place(o) \in 0..Len(o) - 1
      <4>1. eng.idx < Len(eng.queue) => (CHOOSE j \in 1..Len(o) : o[j] = eng.idx) \in 1..Len(o) BY <3>4
      <4> QED BY <1>1, <3>2, <4>1
    <3> HIDE DEF place
    <3>6. s(o) \in 0..Len(o) - 1 BY <1>1, <3>2, <3>3, <3>5
    <3>7. s(o) \in -1..MaxQueue /\ s(o) < Len(o) BY <1>1, <3>2, <3>6
    <3> HIDE DEF s
    <3>8. /\ eng' \in EngineFields /\ SamePlay(eng, eng') /\ eng'.order = o /\ eng'.sidx = s(o)
          /\ eng'.idx = eng.idx /\ eng'.queue = eng.queue
      BY <1>1, <3>1, <3>2, <3>7 DEF EngineFields, SamePlay
    <3>9. UNCHANGED <<play, engineUp, cut>> BY <1>3 DEF SetPlayMode
    <3> QED BY <1>0, <1>1, <3>7, <3>8, <3>9, RearrangedFacts DEF InOrder
  <2>2. CASE ~(m = "shuffle" /\ eng.queue # <<>>)
    <3>1. eng' = [eng EXCEPT !.mode = m] /\ UNCHANGED <<play, engineUp, cut>> BY <1>3, <2>2 DEF SetPlayMode
    <3>2. /\ eng' \in EngineFields /\ SamePlay(eng, eng') /\ eng'.order = eng.order /\ eng'.sidx = eng.sidx
          /\ eng'.idx = eng.idx /\ eng'.queue = eng.queue
      BY <1>1, <3>1 DEF EngineFields, SamePlay
    <3> QED BY <1>0, <1>1, <3>1, <3>2, RearrangedFacts DEF InOrder
  <2> QED BY <2>1, <2>2
<1>4. ASSUME NEW ids \in Queues, AddToQueue(ids) PROVE PlayerInv'
  <2> DEFINE q == eng.queue \o ids
  <2> DEFINE i == Len(eng.queue)
  <2>1. q \in Queues /\ Len(q) \in i..MaxQueue /\ i \in 0..MaxQueue
    <3>1. eng.queue \in Seq(PlayTracks) /\ ids \in Seq(PlayTracks) /\ Len(ids) \in Nat BY <1>1, QueueFacts, PlayerConstants
    <3>2. q \in Seq(PlayTracks) /\ Len(q) = Len(eng.queue) + Len(ids) BY <3>1, SMTT(30)
    <3>3. Len(q) <= MaxQueue BY <1>4, <3>2 DEF AddToQueue
    <3>4. q \in Queues BY <3>2, <3>3, QueueOf
    <3> HIDE DEF q
    <3> QED BY <1>1, <3>1, <3>2, <3>3, <3>4
  <2>2. /\ eng' \in IF eng.playing \/ q = <<>> THEN {[eng EXCEPT !.queue = q]}
                    ELSE IF eng.mode # "shuffle" THEN {[eng EXCEPT !.queue = q, !.idx = i]}
                    ELSE {[eng EXCEPT !.queue = q, !.idx = i, !.order = o, !.sidx = i - 1] : o \in Perm(Len(q))}
        /\ UNCHANGED <<play, engineUp, cut>>
    BY <1>4 DEF AddToQueue
  <2> HIDE DEF q, i
  <2>3. CASE eng' = [eng EXCEPT !.queue = q]
    <3>1. /\ eng' \in EngineFields /\ SamePlay(eng, eng') /\ eng'.order = eng.order /\ eng'.sidx = eng.sidx
          /\ eng'.idx = eng.idx /\ eng'.queue = q
      BY <1>1, <2>1, <2>3 DEF EngineFields, SamePlay
    <3>2. cut \/ eng.idx <= Len(q) BY <1>1, <2>1 DEF i
    <3> QED BY <1>0, <1>1, <2>2, <3>1, <3>2, RearrangedFacts DEF InOrder
  <2>4. CASE eng' = [eng EXCEPT !.queue = q, !.idx = i]
    <3>1. /\ eng' \in EngineFields /\ SamePlay(eng, eng') /\ eng'.order = eng.order /\ eng'.sidx = eng.sidx
          /\ eng'.idx = i /\ eng'.queue = q
      BY <1>1, <2>1, <2>4 DEF EngineFields, SamePlay
    <3>2. i <= Len(q) BY <1>1, <2>1
    <3> QED BY <1>0, <1>1, <2>2, <3>1, <3>2, RearrangedFacts DEF InOrder
  <2>5. ASSUME NEW o \in Perm(Len(q)), eng' = [eng EXCEPT !.queue = q, !.idx = i, !.order = o, !.sidx = i - 1] PROVE PlayerInv'
    <3>1. o \in Orders /\ Len(o) = Len(q) BY <2>1, PermFacts
    <3>2. i - 1 \in -1..MaxQueue /\ i - 1 < Len(q) /\ i <= Len(q) BY <1>1, <2>1
    <3>3. /\ eng' \in EngineFields /\ SamePlay(eng, eng') /\ eng'.order = o /\ eng'.sidx = i - 1
          /\ eng'.idx = i /\ eng'.queue = q
      BY <1>1, <2>1, <2>5, <3>1, <3>2 DEF EngineFields, SamePlay
    <3> QED BY <1>0, <1>1, <2>2, <3>1, <3>2, <3>3, RearrangedFacts DEF InOrder
  <2> QED BY <2>2, <2>3, <2>4, <2>5
<1>5. ASSUME NEW ids \in Queues, SetQueue(ids) PROVE PlayerInv'
  <2>1. PICK o \in IF eng.mode = "shuffle" THEN Perm(Len(ids)) ELSE {<<>>} :
               eng' = [eng EXCEPT !.queue = ids, !.idx = 0, !.order = o, !.sidx = -1]
    BY <1>5 DEF SetQueue
  <2>2. o \in Orders BY PermFacts, EmptyOrder
  <2>3. /\ 0 \in 0..MaxQueue /\ -1 \in -1..MaxQueue /\ 0 <= Len(ids) BY <1>1, QueueFacts
  <2>4. /\ eng' \in EngineFields /\ SamePlay(eng, eng') /\ eng'.order = o /\ eng'.sidx = -1
        /\ eng'.idx = 0 /\ eng'.queue = ids
    BY <1>1, <2>1, <2>2, <2>3 DEF EngineFields, SamePlay
  <2>5. UNCHANGED <<play, engineUp, cut>> BY <1>5 DEF SetQueue
  <2>6. o # <<>> => -1 < Len(o) BY <1>2, <2>2
  <2> QED BY <1>0, <1>1, <2>3, <2>4, <2>5, <2>6, RearrangedFacts DEF InOrder
<1>6. ASSUME NEW i \in 0..MaxQueue - 1, RemoveFromQueue(i) PROVE PlayerInv'
  <2> DEFINE q == RemoveAt(eng.queue, i + 1)
  <2>1. i \in Nat /\ i < Len(eng.queue)
    <3>1. i < Len(eng.queue) BY <1>6 DEF RemoveFromQueue
    <3> QED BY <1>1, <3>1
  <2>2. q \in Queues /\ Len(q) = Len(eng.queue) - 1 BY <1>1, <2>1, RemovedFacts
  <2>3. CASE eng.mode = "shuffle"
    <3>1. PICK o \in Perm(Len(q)) : eng' = [eng EXCEPT !.queue = q, !.order = o, !.sidx = -1]
      BY <1>6, <2>3 DEF RemoveFromQueue
    <3>2. cut' = TRUE /\ UNCHANGED <<play, engineUp>> BY <1>6, <2>3 DEF RemoveFromQueue
    <3>3. o \in Orders /\ (o # <<>> => -1 < Len(o)) BY <1>2, <2>2, PermFacts
    <3>4. -1 \in -1..MaxQueue BY <1>1
    <3> HIDE DEF q
    <3>5. eng' \in EngineFields /\ SamePlay(eng, eng') /\ eng'.order = o /\ eng'.sidx = -1
      BY <1>1, <2>2, <3>1, <3>3, <3>4 DEF EngineFields, SamePlay
    <3> QED BY <1>0, <1>1, <3>2, <3>3, <3>5, RearrangedFacts DEF InOrder
  <2>4. CASE eng.mode # "shuffle"
    <3> DEFINE x == IF i < eng.idx THEN eng.idx - 1 ELSE eng.idx
    <3>1. eng' = [eng EXCEPT !.queue = q, !.idx = x] /\ UNCHANGED <<play, engineUp, cut>>
      BY <1>6, <2>4 DEF RemoveFromQueue
    <3>2. x \in 0..MaxQueue /\ (eng.idx <= Len(eng.queue) => x <= Len(q)) BY <1>1, <2>1, <2>2
    <3> HIDE DEF q, x
    <3>3. /\ eng' \in EngineFields /\ SamePlay(eng, eng') /\ eng'.order = eng.order /\ eng'.sidx = eng.sidx
          /\ eng'.idx = x /\ eng'.queue = q
      BY <1>1, <2>2, <3>1, <3>2 DEF EngineFields, SamePlay
    <3> QED BY <1>0, <1>1, <3>1, <3>2, <3>3, RearrangedFacts DEF InOrder
  <2> QED BY <2>3, <2>4
<1>7. ASSUME Shuffle PROVE PlayerInv'
  <2>1. PICK o \in Perm(Len(eng.queue)) : eng' = [eng EXCEPT !.mode = "shuffle", !.order = o, !.sidx = -1]
    BY <1>7 DEF Shuffle
  <2>2. o \in Orders /\ (o # <<>> => -1 < Len(o)) BY <1>1, <1>2, PermFacts
  <2>3. -1 \in -1..MaxQueue BY <1>1
  <2>4. /\ eng' \in EngineFields /\ SamePlay(eng, eng') /\ eng'.order = o /\ eng'.sidx = -1
        /\ eng'.idx = eng.idx /\ eng'.queue = eng.queue
    BY <1>1, <2>1, <2>2, <2>3 DEF EngineFields, SamePlay, Modes
  <2>5. UNCHANGED <<play, engineUp, cut>> BY <1>7 DEF Shuffle
  <2> QED BY <1>0, <1>1, <2>2, <2>4, <2>5, RearrangedFacts DEF InOrder
<1> QED BY <1>3, <1>4, <1>5, <1>6, <1>7


-----------------------------------------------------------------------------
(* The steps of a play.                                                    *)

LEMMA PlayMoves ==
  ASSUME PlayerInv, NEW p \in Plays, NEW r \in PlayRecord, play' = [play EXCEPT ![p] = r],
         r.alive => r.pc \in {"pid", "run"}, ~r.cancelled /\ (r.pc = "start" \/ r.alive) => Voiced(p),
         eng' \in EngineFields, InOrder(eng)', IndexInQueue', eng'.cancel = eng.cancel,
         UNCHANGED <<engineUp, queuing, given, cut>>, queuing /\ Orderly => Orderly'
  PROVE  PlayerInv'
<1> USE DEF PlayerInv
<1>1. play \in [Plays -> PlayRecord] BY DEF PlayerTypes
<1>2. play' \in [Plays -> PlayRecord] /\ play'[p] = r /\ \A q \in Plays \ {p} : play'[q] = play[q] BY <1>1
<1>3. PlayerTypes' BY <1>2 DEF PlayerTypes
<1>4. VoiceIsHeld' BY <1>2 DEF VoiceIsHeld, Voiced
<1>5. WedgedByShuffleOnly' BY DEF WedgedByShuffleOnly
<1> QED BY <1>3, <1>4, <1>5

(* A play at a step of its own, and the engine as it is.                   *)
LEMMA PlayStepFacts ==
  ASSUME PlayerInv, NEW p \in Plays
  PROVE  /\ play \in [Plays -> PlayRecord] /\ play[p] \in PlayRecord /\ eng \in EngineFields /\ InOrder(eng) /\ IndexInQueue
         /\ play[p].alive => play[p].pc \in {"pid", "run"}
         /\ \A pc \in PlayPcs :
              LET r == [play[p] EXCEPT !.pc = pc] IN
              /\ r \in PlayRecord /\ r.pc = pc /\ r.track = play[p].track
              /\ r.cancelled = play[p].cancelled /\ r.alive = play[p].alive
              /\ PlayGoesTo(p, pc) => play' = [play EXCEPT ![p] = r]
         /\ given \in 0..MaxCommands
<1>1. play \in [Plays -> PlayRecord] /\ eng \in EngineFields /\ given \in 0..MaxCommands BY DEF PlayerInv, PlayerTypes
<1>2. play[p] \in PlayRecord BY <1>1
<1>3. \A pc \in PlayPcs :
              LET r == [play[p] EXCEPT !.pc = pc] IN
              /\ r \in PlayRecord /\ r.pc = pc /\ r.track = play[p].track
              /\ r.cancelled = play[p].cancelled /\ r.alive = play[p].alive
  BY <1>2 DEF PlayRecord
<1>4. \A pc : PlayGoesTo(p, pc) => play' = [play EXCEPT ![p] = [play[p] EXCEPT !.pc = pc]] BY DEF PlayGoesTo
<1>5. play[p].alive => play[p].pc \in {"pid", "run"} BY DEF PlayerInv, VoiceIsHeld
<1> QED BY <1>1, <1>2, <1>3, <1>4, <1>5 DEF PlayerInv

(* The plays once p has the record r.                                      *)
LEMMA PlayAfter ==
  ASSUME play \in [Plays -> PlayRecord], NEW p \in Plays, NEW r, play' = [play EXCEPT ![p] = r]
  PROVE  play'[p] = r /\ \A q \in Plays \ {p} : play'[q] = play[q]
OBVIOUS

LEMMA ResolveKeeps ==
  ASSUME PlayerInv, NEW p \in Plays, Resolve(p)
  PROVE  PlayerInv'
<1>1. play[p].pc = "resolve" /\ engineUp = "up" /\ engineUp' = "up" /\ UNCHANGED <<queuing, given, cut>> BY DEF Resolve, PlayRuns
<1>2. play[p].track \in PlayTracks \cup {NoTrack} /\ ~play[p].alive BY <1>1, PlayStepFacts DEF PlayRecord
<1>3. queuing => play[p].track # NoTrack /\ \A q \in Plays \ {p} : ~InTransit(q)
  BY <1>1 DEF PlayerInv, Orderly, OneInTransit, InTransit
<1> QED BY <1>1, <1>2, <1>3, PlayStepFacts, BeginsKeeps DEF Resolve

LEMMA ResolveFailsKeeps ==
  ASSUME PlayerInv, NEW p \in Plays, ResolveFails(p)
  PROVE  PlayerInv'
<1> DEFINE r == [play[p] EXCEPT !.pc = "halt"]
<1>1. play[p].pc = "resolve" /\ UNCHANGED <<eng, engineUp, queuing, given, cut>> /\ PlayGoesTo(p, "halt") BY DEF ResolveFails, PlayRuns
<1>2. "halt" \in PlayPcs BY DEF PlayPcs
<1>3. r \in PlayRecord /\ r.pc = "halt" /\ r.alive = play[p].alive /\ play' = [play EXCEPT ![p] = r] BY <1>1, <1>2, PlayStepFacts
<1>4. ~r.alive BY <1>1, <1>3, PlayStepFacts
<1> HIDE DEF r
<1>5. play'[p] = r /\ \A q \in Plays \ {p} : play'[q] = play[q]
  BY <1>3, PlayStepFacts, PlayAfter
<1>6. ASSUME Orderly PROVE Orderly'
  <2>1. InTransit(p) BY <1>1 DEF InTransit
  <2>2. eng.pid = NoTrack BY <1>6, <2>1 DEF Orderly, OneInTransit
  <2>3. InTransit(p)' BY <1>3, <1>5 DEF InTransit
  <2>4. OneInTransit' BY <1>1, <1>3, <1>5, <1>6, <2>1 DEF Orderly, OneInTransit, InTransit
  <2>5. PidIsCurrent' BY <1>1, <2>2 DEF PidIsCurrent
  <2>6. RestHasPid' BY <2>3 DEF RestHasPid
  <2> QED BY <1>1, <1>6, <2>4, <2>5, <2>6 DEF Orderly
<1>7. InOrder(eng)' /\ IndexInQueue' BY <1>1, PlayStepFacts DEF InOrder, IndexInQueue
<1> QED BY <1>1, <1>3, <1>4, <1>6, <1>7, PlayStepFacts, PlayMoves

LEMMA StartKeeps ==
  ASSUME PlayerInv, NEW p \in Plays, Start(p)
  PROVE  PlayerInv'
<1> DEFINE r == [play[p] EXCEPT !.pc = "pid", !.alive = TRUE]
<1>1. play[p].pc = "start" /\ ~play[p].cancelled /\ UNCHANGED <<eng, engineUp, queuing, given, cut>>
      /\ play' = [play EXCEPT ![p] = r]
  BY DEF Start, PlayRuns
<1>2. r \in PlayRecord /\ r.pc = "pid" /\ r.alive /\ r.track = play[p].track /\ r.cancelled = play[p].cancelled
  <2>1. play[p] \in PlayRecord BY PlayStepFacts
  <2> QED BY <2>1 DEF PlayRecord, PlayPcs
<1> HIDE DEF r
<1>5. play'[p] = r /\ \A q \in Plays \ {p} : play'[q] = play[q]
  BY <1>1, <1>2, PlayStepFacts, PlayAfter
<1>6. ASSUME Orderly PROVE Orderly'
  <2>1. InTransit(p) BY <1>1 DEF InTransit
  <2>2. eng.pid = NoTrack BY <1>6, <2>1 DEF Orderly, OneInTransit
  <2>3. InTransit(p)' BY <1>2, <1>5 DEF InTransit
  <2>4. OneInTransit' BY <1>1, <1>2, <1>5, <1>6, <2>1 DEF Orderly, OneInTransit, InTransit
  <2>5. PidIsCurrent' BY <1>1, <2>2 DEF PidIsCurrent
  <2>6. RestHasPid' BY <2>3 DEF RestHasPid
  <2> QED BY <1>1, <1>6, <2>4, <2>5, <2>6 DEF Orderly
<1>7. InOrder(eng)' /\ IndexInQueue' BY <1>1, PlayStepFacts DEF InOrder, IndexInQueue
<1>8. Voiced(p) BY <1>1 DEF Voiced
<1> QED BY <1>1, <1>2, <1>6, <1>7, <1>8, PlayStepFacts, PlayMoves

LEMMA StartFailsKeeps ==
  ASSUME PlayerInv, NEW p \in Plays, StartFails(p)
  PROVE  PlayerInv'
<1>1. /\ play[p].pc = "start" /\ UNCHANGED <<engineUp, queuing, given, cut>> /\ (play[p].cancelled \/ ~queuing)
      /\ eng' = [eng EXCEPT !.playing = FALSE] /\ play' = [play EXCEPT ![p] = Free]
  BY DEF StartFails, PlayRuns
<1>2. queuing => ~Orderly BY <1>1 DEF Orderly, OneInTransit, InTransit
<1>3. eng' \in EngineFields /\ eng'.cancel = eng.cancel /\ InOrder(eng)' /\ IndexInQueue'
  BY <1>1, PlayStepFacts DEF EngineFields, InOrder, IndexInQueue
<1> QED BY <1>1, <1>2, <1>3, FreeFacts, PlayMoves

LEMMA SetPidKeeps ==
  ASSUME PlayerInv, NEW p \in Plays, SetPid(p)
  PROVE  PlayerInv'
<1> DEFINE r == [play[p] EXCEPT !.pc = "run"]
<1>1. play[p].pc = "pid" /\ UNCHANGED <<engineUp, queuing, given, cut>> /\ PlayGoesTo(p, "run") /\ eng' = [eng EXCEPT !.pid = p]
  BY DEF SetPid, PlayRuns
<1>2. "run" \in PlayPcs BY DEF PlayPcs
<1>3. r \in PlayRecord /\ r.pc = "run" /\ r.alive = play[p].alive /\ r.track = play[p].track
      /\ r.cancelled = play[p].cancelled /\ play' = [play EXCEPT ![p] = r]
  BY <1>1, <1>2, PlayStepFacts
<1> HIDE DEF r
<1>4. /\ eng' \in EngineFields /\ eng'.pid = p /\ eng'.cancel = eng.cancel /\ eng'.playing = eng.playing /\ eng'.current = eng.current
      /\ InOrder(eng)' /\ IndexInQueue'
  BY <1>1, PlayStepFacts DEF EngineFields, InOrder, IndexInQueue
<1>5. play'[p] = r /\ \A q \in Plays \ {p} : play'[q] = play[q]
  BY <1>3, PlayStepFacts, PlayAfter
<1>6. ASSUME Orderly PROVE Orderly'
  <2>1. InTransit(p) BY <1>1 DEF InTransit
  <2>2. ASSUME NEW q \in Plays PROVE ~InTransit(q)' BY <1>3, <1>5, <1>6, <2>1 DEF Orderly, OneInTransit, InTransit
  <2>3. OneInTransit' BY <2>2 DEF OneInTransit
  <2>4. PidIsCurrent' BY <1>1, <1>3, <1>4, <1>5, <1>6, <2>1 DEF Orderly, OneInTransit, PidIsCurrent
  <2>5. RestHasPid' BY <1>4, NoTrackIsNone DEF RestHasPid
  <2> QED BY <1>1, <1>6, <2>3, <2>4, <2>5 DEF Orderly
<1>7. r.alive => Voiced(p) \/ r.cancelled BY <1>3 DEF Voiced
<1> QED BY <1>1, <1>3, <1>4, <1>6, <1>7, PlayStepFacts, PlayMoves

LEMMA ExitKeeps ==
  ASSUME PlayerInv, NEW p \in Plays, Exit(p)
  PROVE  PlayerInv'
<1> DEFINE r == [play[p] EXCEPT !.alive = FALSE]
<1>1. UNCHANGED <<eng, engineUp, queuing, given, cut>> /\ play' = [play EXCEPT ![p] = r] /\ play[p].pc \in {"pid", "run"}
  BY DEF Exit
<1>2. r \in PlayRecord /\ r.pc = play[p].pc /\ ~r.alive /\ r.track = play[p].track /\ r.cancelled = play[p].cancelled
  <2>1. play[p] \in PlayRecord BY PlayStepFacts
  <2> QED BY <2>1 DEF PlayRecord
<1> HIDE DEF r
<1>3. play'[p] = r /\ \A q \in Plays \ {p} : play'[q] = play[q] BY <1>1, PlayStepFacts, PlayAfter
<1>4. ASSUME Orderly PROVE Orderly'
  <2>1. \A q \in Plays : play'[q].pc = play[q].pc /\ play'[q].track = play[q].track /\ play'[q].cancelled = play[q].cancelled
    BY <1>2, <1>3
  <2>2. eng.pid \in Plays \cup {NoTrack} BY PlayStepFacts DEF EngineFields
  <2>3. OneInTransit' BY <1>1, <1>4, <2>1 DEF Orderly, OneInTransit, InTransit
  <2>4. PidIsCurrent' BY <1>1, <1>4, <2>1, <2>2 DEF Orderly, PidIsCurrent
  <2>5. RestHasPid' BY <1>1, <1>4, <2>1 DEF Orderly, RestHasPid, InTransit
  <2> QED BY <1>1, <1>4, <2>3, <2>4, <2>5 DEF Orderly
<1>5. InOrder(eng)' /\ IndexInQueue' BY <1>1, PlayStepFacts DEF InOrder, IndexInQueue
<1>6. r.pc # "start" BY <1>1, <1>2
<1> QED BY <1>1, <1>2, <1>4, <1>5, <1>6, PlayStepFacts, PlayMoves

(* A play that nobody waits for: it sleeps, or it is free.                 *)
LEMMA RestingKeeps ==
  ASSUME PlayerInv, NEW p \in Plays, NEW r \in PlayRecord, play' = [play EXCEPT ![p] = r],
         UNCHANGED <<eng, engineUp, queuing, given, cut>>, ~InTransit(p), ~r.alive, r.pc \in {"sleep", "free"},
         \/ r.pc = "sleep" /\ r.track = play[p].track /\ r.cancelled = play[p].cancelled
         \/ queuing /\ Orderly => eng.pid # p
  PROVE  PlayerInv'
<1>1. play'[p] = r /\ \A q \in Plays \ {p} : play'[q] = play[q] BY PlayStepFacts, PlayAfter
<1>2. ASSUME queuing, Orderly PROVE Orderly'
  <2>1. eng.pid \in Plays \cup {NoTrack} BY PlayStepFacts DEF EngineFields
  <2>2. ~InTransit(p)' BY <1>1 DEF InTransit
  <2>3. OneInTransit' BY <1>1, <1>2, <2>2 DEF Orderly, OneInTransit, InTransit
  <2>4. PidIsCurrent' BY <1>1, <1>2, <2>1 DEF Orderly, PidIsCurrent
  <2>5. RestHasPid' BY <1>1, <1>2 DEF Orderly, RestHasPid, InTransit
  <2> QED BY <1>2, <2>3, <2>4, <2>5 DEF Orderly
<1>3. InOrder(eng)' /\ IndexInQueue' BY PlayStepFacts DEF InOrder, IndexInQueue
<1> QED BY <1>2, <1>3, PlayStepFacts, PlayMoves

LEMMA WaitedKeeps ==
  ASSUME PlayerInv, NEW p \in Plays, Waited(p)
  PROVE  PlayerInv'
<1> DEFINE r == [play[p] EXCEPT !.pc = "sleep"]
<1>1. play[p].pc = "run" /\ ~play[p].alive /\ UNCHANGED <<eng, engineUp, queuing, given, cut>> /\ PlayGoesTo(p, "sleep")
  BY DEF Waited, PlayRuns
<1>2. "sleep" \in PlayPcs BY DEF PlayPcs
<1>3. r \in PlayRecord /\ r.pc = "sleep" /\ r.alive = play[p].alive /\ r.track = play[p].track
      /\ r.cancelled = play[p].cancelled /\ play' = [play EXCEPT ![p] = r]
  BY <1>1, <1>2, PlayStepFacts
<1> HIDE DEF r
<1>4. ~InTransit(p) BY <1>1 DEF InTransit
<1> QED BY <1>1, <1>3, <1>4, RestingKeeps

LEMMA CheckEndKeeps ==
  ASSUME PlayerInv, NEW p \in Plays, CheckEnd(p)
  PROVE  PlayerInv'
<1>1. play[p].pc = "sleep" /\ UNCHANGED <<engineUp, queuing, given, cut>> BY DEF CheckEnd, PlayRuns
<1>2. ~InTransit(p) /\ ~play[p].alive BY <1>1, PlayStepFacts DEF InTransit
<1>3. CASE ~eng.playing \/ eng.pid # p \/ eng.current \notin {NoTrack, play[p].track}
  <2>1. play' = [play EXCEPT ![p] = Free] /\ UNCHANGED eng BY <1>3 DEF CheckEnd
  <2>2. queuing /\ Orderly => eng.pid # p BY <1>3, NoTrackIsNone DEF Orderly, PidIsCurrent
  <2> QED BY <1>1, <1>2, <2>1, <2>2, FreeFacts, RestingKeeps
<1>4. CASE ~(~eng.playing \/ eng.pid # p \/ eng.current \notin {NoTrack, play[p].track})
  <2> DEFINE r == [play[p] EXCEPT !.pc = "advance"]
  <2>1. PlayGoesTo(p, "advance") /\ eng' = [eng EXCEPT !.pid = NoTrack] BY <1>4 DEF CheckEnd
  <2>2. "advance" \in PlayPcs BY DEF PlayPcs
  <2>3. r \in PlayRecord /\ r.pc = "advance" /\ r.alive = play[p].alive /\ play' = [play EXCEPT ![p] = r] BY <2>1, <2>2, PlayStepFacts
  <2> HIDE DEF r
  <2>4. /\ eng' \in EngineFields /\ eng'.pid = NoTrack /\ eng'.cancel = eng.cancel /\ InOrder(eng)' /\ IndexInQueue'
    BY <1>1, <2>1, PlayStepFacts DEF EngineFields, InOrder, IndexInQueue
  <2>5. play'[p] = r /\ \A q \in Plays \ {p} : play'[q] = play[q] BY <2>3, PlayStepFacts, PlayAfter
  <2>6. ASSUME Orderly PROVE Orderly'
    <3>1. eng.pid = p /\ p # NoTrack BY <1>4, NoTrackIsNone
    <3>2. eng.cancel = p /\ \A q \in Plays : ~InTransit(q) BY <2>6, <3>1 DEF Orderly, PidIsCurrent, OneInTransit
    <3>3. InTransit(p)' BY <2>3, <2>5 DEF InTransit
    <3>4. OneInTransit' BY <2>3, <2>4, <2>5, <3>2 DEF OneInTransit, InTransit
    <3>5. PidIsCurrent' /\ RestHasPid' BY <2>4, <3>3 DEF PidIsCurrent, RestHasPid
    <3> QED BY <1>1, <2>6, <3>4, <3>5 DEF Orderly
  <2>7. ~r.alive BY <1>2, <2>3
  <2> QED BY <1>1, <2>3, <2>4, <2>6, <2>7, PlayMoves
<1> QED BY <1>3, <1>4

LEMMA AdvanceKeeps ==
  ASSUME PlayerInv, NEW p \in Plays, Advance(p)
  PROVE  PlayerInv'
<1> DEFINE e == AutoPick(eng)[1]
<1> DEFINE t == AutoPick(eng)[2]
<1> DEFINE pc == IF t = NoTrack THEN "halt" ELSE IF eng.mode = "repeat_one" THEN "again" ELSE "resolve"
<1> DEFINE r == [play[p] EXCEPT !.pc = pc, !.track = t]
<1>1. /\ play[p].pc = "advance" /\ UNCHANGED <<engineUp, queuing, given, cut>> /\ eng' = e
      /\ play' = [play EXCEPT ![p] = r]
  BY DEF Advance, PlayRuns
<1>2. Picked(eng, AutoPick(eng)) /\ (eng.mode = "repeat_one" => t = eng.current) BY PlayStepFacts, PickFacts
<1>3. t \in PlayTracks \cup {NoTrack} BY <1>2 DEF Picked
<1>4. /\ e \in EngineFields /\ SamePlay(eng, e) /\ SameQueue(eng, e) /\ InOrder(e)
      /\ (eng.idx <= Len(eng.queue) => e.idx <= Len(e.queue))
  BY <1>2, PlayStepFacts DEF Picked, SameQueue
<1> HIDE DEF e, t
<1>5. pc \in {"halt", "again", "resolve"} /\ (pc # "halt" => t # NoTrack) /\ (pc = "again" => eng.mode = "repeat_one") OBVIOUS
<1> HIDE DEF pc
<1>6. r \in PlayRecord /\ r.pc = pc /\ r.track = t /\ r.alive = play[p].alive
  <2>1. play[p] \in PlayRecord BY PlayStepFacts
  <2> QED BY <1>3, <1>5, <2>1 DEF PlayRecord, PlayPcs
<1> HIDE DEF r
<1>7. play'[p] = r /\ \A q \in Plays \ {p} : play'[q] = play[q] BY <1>1, <1>6, PlayStepFacts, PlayAfter
<1>8. ASSUME Orderly PROVE Orderly'
  <2>1. InTransit(p) BY <1>1 DEF InTransit
  <2>2. eng.pid = NoTrack /\ eng.cancel \in {p, NoTrack} /\ \A q \in Plays \ {p} : ~InTransit(q)
    BY <1>1, <1>8, <2>1 DEF Orderly, OneInTransit
  <2>3. InTransit(p)' BY <1>5, <1>6, <1>7 DEF InTransit
  <2>4. eng'.pid = eng.pid /\ eng'.cancel = eng.cancel /\ eng'.current = eng.current BY <1>1, <1>4 DEF SamePlay
  <2>5. \A q \in Plays : play'[q].pc \in {"resolve", "start", "pid", "advance", "again", "halt"} => q = p
    BY <1>7, <2>2 DEF InTransit
  <2>6. pc = "again" => t = eng.current BY <1>2, <1>5
  <2>7. OneInTransit' BY <1>5, <1>6, <1>7, <2>2, <2>4, <2>5, <2>6 DEF OneInTransit, InTransit
  <2>8. PidIsCurrent' /\ RestHasPid' BY <2>2, <2>3, <2>4 DEF PidIsCurrent, RestHasPid
  <2> QED BY <1>1, <1>8, <2>7, <2>8 DEF Orderly
<1>9. InOrder(eng)' /\ IndexInQueue' BY <1>1, <1>4, PlayStepFacts DEF InOrder, IndexInQueue
<1>10. ~r.alive /\ r.pc # "start" BY <1>1, <1>5, <1>6, PlayStepFacts
<1> QED BY <1>1, <1>4, <1>6, <1>8, <1>9, <1>10, PlayMoves DEF SamePlay

LEMMA PlayAgainKeeps ==
  ASSUME PlayerInv, NEW p \in Plays, PlayAgain(p)
  PROVE  PlayerInv'
<1> DEFINE t == play[p].track
<1> DEFINE f == Begun(eng, p, eng.current, t)
<1>1. /\ play[p].pc = "again" /\ engineUp = "up" /\ engineUp' = "up" /\ UNCHANGED <<queuing, given, cut>>
      /\ eng' = f /\ play' = [Cancelling(play, eng) EXCEPT ![p] = [Free EXCEPT !.pc = "start", !.track = t]]
  BY DEF PlayAgain, PlayRuns, Begun
<1>2. eng.current \in PlayTracks \cup {NoTrack} /\ t \in PlayTracks \cup {NoTrack} /\ ~play[p].alive
  BY <1>1, PlayStepFacts DEF EngineFields, PlayRecord
<1>3. /\ f \in EngineFields /\ InOrder(f) /\ f.playing /\ f.pid = NoTrack /\ f.cancel = p /\ f.current = eng.current
      /\ (eng.idx <= Len(eng.queue) => f.idx <= Len(f.queue))
  BY <1>2, PlayStepFacts, BegunFacts
<1>4. queuing => t # NoTrack /\ t = eng.current /\ \A q \in Plays \ {p} : ~InTransit(q)
  BY <1>1 DEF PlayerInv, Orderly, OneInTransit, InTransit
<1> HIDE DEF f, t
<1>5. InOrder(eng)' /\ IndexInQueue' BY <1>1, <1>3, PlayStepFacts DEF InOrder, IndexInQueue
<1>6. given' \in 0..MaxCommands BY <1>1, PlayStepFacts
<1> QED BY <1>1, <1>2, <1>3, <1>4, <1>5, <1>6, TakesOver

LEMMA PlayNothingAgainKeeps ==
  ASSUME PlayerInv, NEW p \in Plays, PlayNothingAgain(p)
  PROVE  PlayerInv'
<1>1. play[p].pc = "again" /\ engineUp = "up" /\ engineUp' = "crashed" /\ eng.current = NoTrack
      /\ UNCHANGED <<eng, play, queuing, given, cut>>
  BY DEF PlayNothingAgain, PlayRuns
<1>2. ~queuing BY <1>1 DEF PlayerInv, Orderly, OneInTransit, InTransit
<1>3. PlayerTypes' BY <1>1 DEF PlayerInv, PlayerTypes
<1>5. VoiceIsHeld' BY <1>1 DEF PlayerInv, VoiceIsHeld, Voiced
<1>6. InOrder(eng)' /\ IndexInQueue' /\ WedgedByShuffleOnly'
  BY <1>1, PlayStepFacts DEF InOrder, IndexInQueue, WedgedByShuffleOnly
<1>7. ~queuing' BY <1>1, <1>2
<1> QED BY <1>3, <1>5, <1>6, <1>7 DEF PlayerInv

LEMMA HaltKeeps ==
  ASSUME PlayerInv, NEW p \in Plays, Halt(p)
  PROVE  PlayerInv'
<1>1. /\ play[p].pc = "halt" /\ UNCHANGED <<engineUp, queuing, given, cut>>
      /\ eng' = [eng EXCEPT !.playing = FALSE, !.current = NoTrack] /\ play' = [play EXCEPT ![p] = Free]
  BY DEF Halt, PlayRuns
<1>2. /\ eng' \in EngineFields /\ eng'.cancel = eng.cancel /\ eng'.pid = eng.pid /\ ~eng'.playing
      /\ InOrder(eng)' /\ IndexInQueue'
  BY <1>1, PlayStepFacts DEF EngineFields, InOrder, IndexInQueue
<1>3. play'[p] = Free /\ \A q \in Plays \ {p} : play'[q] = play[q] BY <1>1, PlayStepFacts, PlayAfter
<1>4. ASSUME Orderly PROVE Orderly'
  <2>1. InTransit(p) BY <1>1 DEF InTransit
  <2>2. eng.pid = NoTrack /\ \A q \in Plays \ {p} : ~InTransit(q) BY <1>4, <2>1 DEF Orderly, OneInTransit
  <2>3. \A q \in Plays : play'[q].pc \notin {"resolve", "start", "pid", "advance", "again", "halt"}
    BY <1>3, <2>2, FreeFacts DEF InTransit
  <2>4. OneInTransit' BY <2>3 DEF OneInTransit, InTransit
  <2>5. PidIsCurrent' /\ RestHasPid' BY <1>2, <2>2 DEF PidIsCurrent, RestHasPid
  <2> QED BY <1>1, <1>4, <2>4, <2>5 DEF Orderly
<1> QED BY <1>1, <1>2, <1>4, FreeFacts, PlayMoves

LEMMA NextKeepsPlayer == PlayerInv /\ [PlayerNext]_playerVars => PlayerInv'
<1> SUFFICES ASSUME PlayerInv, [PlayerNext]_playerVars PROVE PlayerInv' OBVIOUS
<1>1. ASSUME NEW p \in Plays, PlayStep(p) PROVE PlayerInv'
  BY <1>1, ResolveKeeps, ResolveFailsKeeps, StartKeeps, StartFailsKeeps, SetPidKeeps, ExitKeeps, WaitedKeeps,
     CheckEndKeeps, AdvanceKeeps, PlayAgainKeeps, PlayNothingAgainKeeps, HaltKeeps DEF PlayStep
<1>2. ASSUME NEW p \in Plays, NextTrack(p) \/ PrevTrack(p) PROVE PlayerInv' BY <1>2, ChosenKeeps
<1>3. ASSUME NEW p \in Plays, NEW t \in PlayTracks, Play(p, t) PROVE PlayerInv' BY <1>3, PlayKeeps
<1>4. ASSUME Stop \/ ClearQueue PROVE PlayerInv' BY <1>4, StopKeeps
<1>5. ASSUME \/ \E m \in Modes : SetPlayMode(m)
             \/ \E ids \in Queues : AddToQueue(ids) \/ SetQueue(ids)
             \/ \E i \in 0..MaxQueue - 1 : RemoveFromQueue(i)
             \/ Shuffle
      PROVE  PlayerInv'
  BY <1>5, RearrangingKeeps
<1>6. CASE UNCHANGED playerVars
  <2>1. UNCHANGED <<play, engineUp, queuing, given, cut, eng>> BY <1>6 DEF playerVars
  <2>2. /\ given' \in 0..MaxCommands /\ cut' \in BOOLEAN /\ eng' \in EngineFields /\ InOrder(eng)' /\ IndexInQueue'
    BY <2>1 DEF PlayerInv, PlayerTypes, InOrder, IndexInQueue
  <2> QED BY <2>1, <2>2, QueueChanges DEF SamePlay
<1> QED BY <1>1, <1>2, <1>3, <1>4, <1>5, <1>6 DEF PlayerNext

(* PlayerSound: however commands, the ends of tracks and the goroutines of *)
(* old plays interleave, at most one ffplay process has not been told to   *)
(* end; when commands wait for each other's play to start, an engine at    *)
(* rest says it plays exactly when a process of its current track is there *)
(* to advance the queue; and e.mu is lost to a panic of Prev only after a  *)
(* removal in shuffle mode (engine.go).                                    *)
THEOREM PlayerIsSound == PlayerSpec => []PlayerSound
<1>1. PlayerSpec => []PlayerInv BY InitPlayer, NextKeepsPlayer, PTL DEF PlayerSpec
<1> QED BY <1>1, InvImpliesPlayerSound, PTL

-----------------------------------------------------------------------------
(* Who cuts a play short.                                                  *)

(* Only a play that takes over cancels another, and it only cancels the    *)
(* one the engine can cancel.                                              *)
LEMMA CancelledByTakeover ==
  ASSUME PlayerInv, NEW p \in Plays, NEW q \in Plays, PlayStep(p), ~play[q].cancelled, play'[q].cancelled
  PROVE  (Resolve(p) \/ PlayAgain(p)) /\ q # p /\ eng.cancel = q
<1>1. play \in [Plays -> PlayRecord] /\ PlayerTypes BY DEF PlayerInv, PlayerTypes
<1>2. ~Free.cancelled BY FreeFacts
<1>3. ASSUME NEW pc, PlayGoesTo(p, pc) PROVE FALSE
  <2>1. play'[q].cancelled = play[q].cancelled BY <1>1, <1>3 DEF PlayGoesTo, PlayRecord
  <2> QED BY <2>1
<1>4. ASSUME play' = [play EXCEPT ![p] = Free] PROVE FALSE BY <1>1, <1>2, <1>4
<1>5. ASSUME Start(p) PROVE FALSE
  <2>1. play'[q].cancelled = play[q].cancelled BY <1>1, <1>5 DEF Start, PlayRecord
  <2> QED BY <2>1
<1>6. ASSUME Exit(p) PROVE FALSE
  <2>1. play'[q].cancelled = play[q].cancelled BY <1>1, <1>6 DEF Exit, PlayRecord
  <2> QED BY <2>1
<1>7. ASSUME Advance(p) PROVE FALSE
  <2>1. play'[q].cancelled = play[q].cancelled BY <1>1, <1>7 DEF Advance, PlayRecord
  <2> QED BY <2>1
<1>8. ~PlayNothingAgain(p) BY DEF PlayNothingAgain
<1>9. Resolve(p) \/ PlayAgain(p)
  BY <1>3, <1>4, <1>5, <1>6, <1>7, <1>8
     DEF PlayStep, ResolveFails, StartFails, SetPid, Waited, CheckEnd, Halt
<1>10. PICK t : play' = [Cancelling(play, eng) EXCEPT ![p] = [Free EXCEPT !.pc = "start", !.track = t]]
  BY <1>9 DEF Resolve, PlayAgain, BeginPlay
<1>11. Cancelling(play, eng) \in [Plays -> PlayRecord] BY <1>1, CancelFacts
<1>12. ~[Free EXCEPT !.pc = "start", !.track = t].cancelled BY DEF Free
<1>13. q # p BY <1>10, <1>11, <1>12
<1>14. play'[q] = Cancelling(play, eng)[q] BY <1>10, <1>11, <1>13
<1>15. eng.cancel = q BY <1>1, <1>14, CancelFacts
<1> QED BY <1>9, <1>13, <1>15

(* PlaysAreNotCutShort: when commands wait for each other's play to start, *)
(* a process that plays is told to end by a command and never by the       *)
(* goroutine of an earlier play that finds out late that its track is over *)
(* (the check after cmd.Wait, and playNext after it).                      *)
THEOREM PlaysEndByCommand == PlayerSpec => PlaysAreNotCutShort
<1>1. PlayerInv /\ [PlayerNext]_playerVars =>
        [\A p \in Plays : queuing /\ play[p].alive /\ ~play[p].cancelled /\ play'[p].cancelled => given' # given]_playerVars
  <2> SUFFICES ASSUME PlayerInv, PlayerNext, NEW q \in Plays,
                      queuing, play[q].alive, ~play[q].cancelled, play'[q].cancelled
               PROVE  given' # given
    OBVIOUS
  <2>1. ASSUME NEW p \in Plays, PlayStep(p) PROVE FALSE
    <3>1. (Resolve(p) \/ PlayAgain(p)) /\ q # p /\ eng.cancel = q BY <2>1, CancelledByTakeover
    <3>2. engineUp = "up" /\ play[p].pc \in {"resolve", "again"} BY <3>1 DEF Resolve, PlayAgain, PlayRuns
    <3>3. eng.cancel \in {p, NoTrack} BY <3>2 DEF PlayerInv, Orderly, OneInTransit, InTransit
    <3> QED BY <3>1, <3>3, NoTrackIsNone
  <2>2. Command \/ \E p \in Plays : PlayStep(p)
    BY DEF PlayerNext, NextTrack, PrevTrack, Play, SetPlayMode, AddToQueue, SetQueue, RemoveFromQueue, Stop, ClearQueue, Shuffle
  <2> QED BY <2>1, <2>2, CommandFacts
<1>2. PlayerSpec => []PlayerInv BY InitPlayer, NextKeepsPlayer, PTL DEF PlayerSpec
<1> QED BY <1>1, <1>2, PTL DEF PlayerSpec, PlaysAreNotCutShort

(***************************************************************************)
(* Jukebox                                                                 *)
(***************************************************************************)

JukeRequest == [pc : JPcs, kind : Kinds, juke : Jukes, n : QueueIds,
                eng : Engines \cup {Nothing}, row : RowRecord \cup {Nothing}]
Object == [juke : Jukes \cup {Nothing}, queue : QueueIds, map : QueueIds, playing : BOOLEAN]
SaveRecord == [juke : Jukes, queue : QueueIds]

TableTypes == /\ jrow \in [Jukes -> RowRecord \cup {Nothing}] /\ device \subseteq Devices
              /\ made \in 0..MaxJukeRequests
              /\ known \subseteq Jukes /\ overtaken \subseteq Jukes /\ renamed \subseteq Jukes
EngineTypes == /\ manager \in [Jukes -> Engines \cup {Nothing}]
               /\ object \in [Engines -> Object] /\ saving \in Seq(SaveRecord)

(* A request goes through the steps of its kind and has what it read.      *)
Holding == {"ensure", "restore", "act", "mode", "write"}
StepsOf(k) ==
    CASE k \in {"status", "play", "stop", "queue", "clear"} -> {"read", "ensure", "restore", "act"}
      [] k = "mode" -> {"read"} \cup Holding
      [] k = "update" -> {"read", "write", "remove", "engine"}
      [] k = "delete" -> {"drop", "remove"}
      [] k = "settings" -> {"write", "mapping"}
      [] k = "create" -> {"bound", "insert", "engine"}
      [] k = "undevice" -> {"bound", "drop"}
HasRow(q) == \/ q.kind \in Playback /\ q.pc \in Holding
             \/ q.kind = "update" /\ q.pc \in {"write", "remove", "engine"}
             \/ q.kind = "create" /\ q.pc \in {"insert", "engine"}
             \/ q.kind = "undevice" /\ q.pc = "drop"
Formed(q) ==
    /\ q.pc = "idle" => q.kind = "status"
    /\ q.pc # "idle" => q.pc \in StepsOf(q.kind)
    /\ HasRow(q) => q.row \in RowRecord
    /\ q.kind = "create" /\ q.pc \in {"insert", "engine"} => q.row.queue = 0 /\ q.row.map = 0
    /\ q.pc \in {"restore", "act"} => q.eng \in Engines
RequestsFormed == jreq \in [JukeThreads -> JukeRequest] /\ \A r \in JukeThreads : Formed(jreq[r])

Types == TableTypes /\ EngineTypes /\ RequestsFormed

(* Who administers is alone.                                               *)
Active(r) == jreq[r].pc # "idle"
Alone == \A q, r \in JukeThreads : jreq[q].kind \in Admin /\ Active(q) /\ Active(r) => q = r

(* What a request read and looked up still stands.                         *)
Reads(q) == \/ q.kind \in Playback /\ q.pc \in Holding \ {"mode"}
            \/ q.kind = "update" /\ q.pc \in {"write", "remove", "engine"}
RowStands(q, rows) == Reads(q) =>
    rows[q.juke] # Nothing /\ q.row.map = rows[q.juke].map /\ q.row.device = rows[q.juke].device
EngineStands(q, engines) ==
    /\ q.pc \in {"restore", "act"} => engines[q.juke] = q.eng
    /\ q.kind = "update" /\ q.pc = "engine" => engines[q.juke] = Nothing
MappingStands(q, rows) == q.kind = "settings" /\ q.pc = "mapping" /\ rows[q.juke] # Nothing =>
    rows[q.juke].map = q.n
Placing(q) == <<q.kind, q.pc>> \in {<<"create", "insert">>, <<"undevice", "drop">>}
DeviceStands(q, rows) == Placing(q) =>
    \A j \in Jukes : rows[j] # Nothing => rows[j].device # q.row.device
CreationStands(q, rows, engines, saves) == q.kind = "create" /\ q.pc = "engine" =>
    /\ engines[q.juke] = Nothing /\ rows[q.juke] # Nothing /\ rows[q.juke].queue = 0
    /\ \A i \in DOMAIN saves : saves[i].juke # q.juke
DeletionStands(q, rows) == q.kind = "delete" /\ q.pc = "remove" => rows[q.juke] = Nothing
Stands(q, rows, engines, saves) ==
    /\ RowStands(q, rows) /\ EngineStands(q, engines) /\ MappingStands(q, rows) /\ DeviceStands(q, rows)
    /\ CreationStands(q, rows, engines, saves) /\ DeletionStands(q, rows)
InHand == \A r \in JukeThreads : Stands(jreq[r], jrow, manager, saving)

(* Ids are given once, to rows, engines and what they save.                *)
KnownIds == /\ \A j \in Jukes : jrow[j] # Nothing => j \in known
            /\ \A i \in DOMAIN saving : saving[i].juke \in known
            /\ \A e \in Engines : object[e].juke \in known \cup {Nothing}

BoundOnce == /\ \A j, k \in Jukes :
                    jrow[j] # Nothing /\ jrow[k] # Nothing /\ jrow[j].device = jrow[k].device => j = k
             /\ \A j \in Jukes : jrow[j] # Nothing => jrow[j].device \in device

(* An engine is its jukebox's, which is there or about to lose it.         *)
During(j, k, pc) == \E r \in JukeThreads : jreq[r].kind = k /\ jreq[r].pc = pc /\ jreq[r].juke = j
EnginesAreTheirs == \A j \in Jukes : manager[j] # Nothing =>
    object[manager[j]].juke = j /\ (jrow[j] # Nothing \/ During(j, "delete", "remove"))
PlayingIsManaged == \A e \in Engines : object[e].playing =>
    /\ object[e].juke # Nothing /\ manager[object[e].juke] = e
    /\ jrow[object[e].juke] # Nothing =>
           object[e].map = jrow[object[e].juke].map \/ During(object[e].juke, "settings", "mapping")

(* The last save of a jukebox under way, or else its row, has the queue    *)
(* its engine plays from.                                                  *)
LastIs(j, v, s, q) ==
    /\ (\A i \in DOMAIN s : s[i].juke # j) => q = v
    /\ \A i \in DOMAIN s : s[i].juke = j /\ (\A h \in DOMAIN s : h > i => s[h].juke # j) => s[i].queue = v
Restoring(j) == \E r \in JukeThreads : jreq[r].pc = "restore" /\ jreq[r].juke = j
QueueIsKept(j) ==
    \/ j \in overtaken \cup renamed \/ manager[j] = Nothing \/ jrow[j] = Nothing
    \/ Restoring(j) \/ During(j, "update", "remove")
    \/ LastIs(j, object[manager[j]].queue, saving, jrow[j].queue)

JukeInv == /\ Types /\ Alone /\ InHand /\ KnownIds /\ BoundOnce /\ EnginesAreTheirs
           /\ PlayingIsManaged /\ \A j \in Jukes : QueueIsKept(j)

-----------------------------------------------------------------------------
(* Sequences.                                                              *)

LEMMA Appended ==
  ASSUME NEW S, NEW s \in Seq(S), NEW x \in S
  PROVE  /\ s \o <<x>> \in Seq(S) /\ Len(s) \in Nat /\ DOMAIN s = 1..Len(s)
         /\ DOMAIN (s \o <<x>>) = 1..Len(s) + 1
         /\ \A i \in 1..Len(s) : (s \o <<x>>)[i] = s[i]
         /\ (s \o <<x>>)[Len(s) + 1] = x
OBVIOUS

LEMMA Removed ==
  ASSUME NEW S, NEW s \in Seq(S), NEW i \in DOMAIN s
  PROVE  /\ RemoveAt(s, i) \in Seq(S) /\ Len(s) \in Nat /\ DOMAIN s = 1..Len(s)
         /\ DOMAIN RemoveAt(s, i) = 1..Len(s) - 1
         /\ \A h \in 1..Len(s) - 1 : RemoveAt(s, i)[h] = IF h < i THEN s[h] ELSE s[h + 1]
<1> DEFINE front == SubSeq(s, 1, i - 1)
<1> DEFINE back == SubSeq(s, i + 1, Len(s))
<1>1. front \in Seq(S) /\ Len(front) = i - 1 /\ \A h \in 1..i - 1 : front[h] = s[h] OBVIOUS
<1>2. back \in Seq(S) /\ Len(back) = Len(s) - i /\ \A h \in 1..Len(s) - i : back[h] = s[h + i] OBVIOUS
<1>3. RemoveAt(s, i) = front \o back BY DEF RemoveAt
<1> HIDE DEF front, back
<1>4. Len(s) \in Nat /\ i \in 1..Len(s) OBVIOUS
<1>5. front \o back \in Seq(S) /\ Len(front \o back) = Len(s) - 1 BY <1>1, <1>2, <1>4
<1>6. ASSUME NEW h \in 1..Len(s) - 1 PROVE (front \o back)[h] = IF h < i THEN s[h] ELSE s[h + 1]
  <2>1. CASE h < i BY <1>1, <1>2, <1>4, <2>1
  <2>2. CASE ~(h < i)
    <3>0. \A a, b \in Seq(S) : \A k \in Len(a) + 1..Len(a) + Len(b) : (a \o b)[k] = b[k - Len(a)] OBVIOUS
    <3>1. (front \o back)[h] = back[h - (i - 1)] BY <1>1, <1>2, <1>4, <2>2, <3>0
    <3>2. back[h - (i - 1)] = s[h - (i - 1) + i] BY <1>2, <1>4, <2>2
    <3>3. h - (i - 1) + i = h + 1 BY <1>4
    <3> QED BY <2>2, <3>1, <3>2, <3>3
  <2> QED BY <2>1, <2>2
<1>7. DOMAIN (front \o back) = 1..Len(s) - 1 BY <1>5
<1>8. DOMAIN s = 1..Len(s) OBVIOUS
<1>9. front \o back \in Seq(S) BY <1>5
<1>10. \A h \in 1..Len(s) - 1 : (front \o back)[h] = IF h < i THEN s[h] ELSE s[h + 1] BY <1>6
<1> QED BY <1>3, <1>4, <1>7, <1>8, <1>9, <1>10, Zenon

(* An appended save is the last of its jukebox and leaves the others'.     *)
LEMMA LastAppended ==
  ASSUME NEW s \in Seq(SaveRecord), NEW x \in SaveRecord, NEW j, NEW q, NEW v, LastIs(j, v, s, q) \/ x.juke = j
  PROVE  LastIs(j, IF x.juke = j THEN x.queue ELSE v, s \o <<x>>, q)
<1> DEFINE t == s \o <<x>>
<1>1. /\ Len(s) \in Nat /\ DOMAIN s = 1..Len(s) /\ DOMAIN t = 1..Len(s) + 1
      /\ \A i \in 1..Len(s) : t[i] = s[i]
      /\ t[Len(s) + 1] = x BY Appended
<1> HIDE DEF t
<1>2. CASE x.juke = j
  <2>1. ASSUME NEW i \in DOMAIN t, \A h \in DOMAIN t : h > i => t[h].juke # j PROVE i = Len(s) + 1
    BY <1>1, <1>2, <2>1
  <2> QED BY <1>1, <1>2, <2>1 DEF LastIs, t
<1>3. CASE x.juke # j
  <2>1. (\A i \in DOMAIN t : t[i].juke # j) => q = v BY <1>1, <1>3 DEF LastIs
  <2>2. ASSUME NEW i \in DOMAIN t, t[i].juke = j, \A h \in DOMAIN t : h > i => t[h].juke # j
        PROVE t[i].queue = v
    <3>1. i \in DOMAIN s /\ t[i] = s[i] BY <1>1, <1>3, <2>2
    <3>2. \A h \in DOMAIN s : h > i => s[h].juke # j BY <1>1, <2>2
    <3> QED BY <1>3, <2>2, <3>1, <3>2 DEF LastIs
  <2> QED BY <1>3, <2>1, <2>2 DEF LastIs, t
<1> QED BY <1>2, <1>3

(* A save that lands with no other queue before it leaves the last one.    *)
LEMMA LastRemoved ==
  ASSUME NEW s \in Seq(SaveRecord), NEW i \in DOMAIN s, NEW j, NEW q, NEW v, LastIs(j, v, s, q),
         s[i].juke = j => \A h \in 1..i - 1 : s[h].juke = j => s[h].queue = s[i].queue
  PROVE  LastIs(j, v, RemoveAt(s, i), IF s[i].juke = j THEN s[i].queue ELSE q)
<1> DEFINE t == RemoveAt(s, i)
<1>1. /\ Len(s) \in Nat /\ DOMAIN s = 1..Len(s) /\ i \in 1..Len(s) /\ DOMAIN t = 1..Len(s) - 1
      /\ \A h \in 1..Len(s) - 1 : t[h] = IF h < i THEN s[h] ELSE s[h + 1] BY Removed
<1> HIDE DEF t
<1>2. ASSUME NEW h \in 1..Len(s), h # i
      PROVE  \E k \in DOMAIN t : t[k] = s[h] /\ (h < i => k = h) /\ (h > i => k = h - 1)
  <2>1. CASE h < i BY <1>1, <2>1
  <2>2. CASE h > i
    <3>1. h - 1 \in DOMAIN t /\ ~(h - 1 < i) /\ (h - 1) + 1 = h BY <1>1, <2>2
    <3>2. t[h - 1] = s[h] BY <1>1, <3>1
    <3> QED BY <1>1, <2>2, <3>1, <3>2
  <2> QED BY <1>1, <1>2, <2>1, <2>2
<1>3. (\A k \in DOMAIN t : t[k].juke # j) => (\A h \in DOMAIN s : h # i => s[h].juke # j) BY <1>1, <1>2
<1>4. (\A k \in DOMAIN t : t[k].juke # j) => (IF s[i].juke = j THEN s[i].queue ELSE q) = v
  BY <1>1, <1>3 DEF LastIs
<1>5. ASSUME NEW k \in DOMAIN t, t[k].juke = j, \A h \in DOMAIN t : h > k => t[h].juke # j
      PROVE  t[k].queue = v
  <2> DEFINE l == IF k < i THEN k ELSE k + 1
  <2>1. l \in DOMAIN s /\ t[k] = s[l] /\ l # i BY <1>1
  <2>2. \A h \in DOMAIN s : h > l /\ h # i => s[h].juke # j
    <3> SUFFICES ASSUME NEW h \in DOMAIN s, h > l, h # i PROVE s[h].juke # j OBVIOUS
    <3>1. PICK m \in DOMAIN t : t[m] = s[h] /\ (h < i => m = h) /\ (h > i => m = h - 1) BY <1>1, <1>2
    <3>2. m > k BY <1>1, <3>1
    <3> QED BY <1>5, <3>1, <3>2
  <2>3. CASE l > i \/ s[i].juke # j BY <1>1, <1>5, <2>1, <2>2, <2>3 DEF LastIs
  <2>4. CASE l < i /\ s[i].juke = j
    <3>1. s[i].queue = v BY <1>1, <2>2, <2>4, SMTT(30) DEF LastIs
    <3>2. s[l].queue = s[i].queue BY <1>1, <1>5, <2>1, <2>4
    <3> QED BY <2>1, <3>1, <3>2
  <2> QED BY <1>1, <2>1, <2>3, <2>4
<1> QED BY <1>4, <1>5 DEF LastIs, t

-----------------------------------------------------------------------------
(* The invariant is what the properties say, and the initial states have it. *)

LEMMA InvImpliesSound == JukeInv => JukeSound
<1> SUFFICES ASSUME JukeInv PROVE JukeSound OBVIOUS
<1> USE DEF JukeInv
<1>1. JukeTypeOK
  <2>1. made \in QueueIds BY JukeConstants DEF Types, TableTypes, QueueIds, Saved
  <2> QED BY <2>1 DEF Types, TableTypes, EngineTypes, RequestsFormed, JukeTypeOK, Object, SaveRecord, JukeRequest
<1>2. DevicesAreBoundOnce
  <2> SUFFICES ASSUME NEW d \in Devices PROVE Cardinality(BoundTo(d)) <= 1 BY DEF BoundOnce, DevicesAreBoundOnce
  <2>1. \A j, k \in BoundTo(d) : j = k BY DEF BoundTo, BoundOnce
  <2>2. CASE BoundTo(d) = {} BY <2>2, FS_EmptySet
  <2>3. CASE BoundTo(d) # {}
    <3>1. PICK j \in BoundTo(d) : TRUE BY <2>3
    <3>2. BoundTo(d) = {j} BY <2>1, <3>1
    <3>3. Cardinality(BoundTo(d)) = 1 BY <3>2, FS_Singleton
    <3> QED BY <3>3
  <2> QED BY <2>2, <2>3
<1>3. ASSUME JQuiet PROVE ~\E r \in JukeThreads : Active(r) BY <1>3 DEF JQuiet, Active
<1>4. ASSUME JQuiet PROVE \A j : ~During(j, "delete", "remove") /\ ~During(j, "settings", "mapping")
                                 /\ ~During(j, "update", "remove") /\ ~Restoring(j)
  BY <1>3, <1>4 DEF Active, During, Restoring
<1>5. ASSUME JQuiet, NEW e \in Engines, object[e].playing
      PROVE  manager[object[e].juke] = e /\ jrow[object[e].juke] # Nothing /\ object[e].map = jrow[object[e].juke].map
  <2>1. object[e].juke \in Jukes /\ manager[object[e].juke] = e /\ e # Nothing
    BY <1>5, JukeConstants DEF PlayingIsManaged, Types, EngineTypes, Object
  <2> QED BY <1>4, <1>5, <2>1 DEF PlayingIsManaged, EnginesAreTheirs
<1>6. PlayingCanBeStopped /\ MappingReachesEngine BY <1>5 DEF PlayingCanBeStopped, MappingReachesEngine
<1>7. RowKeepsQueue BY <1>4 DEF RowKeepsQueue, QueueIsKept, LastIs
<1> QED BY <1>1, <1>2, <1>6, <1>7 DEF JukeSound

LEMMA Distinct == Nothing \notin Jukes /\ Nothing \notin Devices /\ Nothing \notin Engines /\ Nothing \notin RowRecord
<1>1. QueueIds \subseteq Nat BY JukeConstants DEF QueueIds, Saved
<1>2. RowRecord \subseteq [device: Devices \cup {Nothing}, queue: Nat, map: Nat] BY <1>1 DEF RowRecord
<1> QED BY <1>2, JukeConstants

LEMMA Numbers == 0 \in QueueIds /\ Saved \in QueueIds /\ 0..MaxJukeRequests \subseteq QueueIds
BY JukeConstants DEF QueueIds, Saved

LEMMA IdleFormed == ASSUME NEW j \in Jukes PROVE Idle(j) \in JukeRequest /\ Formed(Idle(j)) /\ Idle(j).pc = "idle"
BY Numbers DEF Idle, JukeRequest, JPcs, Kinds, Formed, HasRow, Playback, Holding

LEMMA UnusedType == Unused \in Object
BY Numbers DEF Unused, Object

LEMMA IdleStands ==
  ASSUME NEW q, q.pc = "idle", NEW rows, NEW engines, NEW saves
  PROVE  Stands(q, rows, engines, saves)
BY DEF Stands, RowStands, EngineStands, MappingStands, DeviceStands, CreationStands, DeletionStands, Reads, Holding, Placing

LEMMA InitJuke == JukeInit => JukeInv
<1> SUFFICES ASSUME JukeInit PROVE JukeInv OBVIOUS
<1>1. (CHOOSE j \in Jukes : TRUE) \in Jukes BY JukeConstants
<1>2. RequestsFormed /\ \A r \in JukeThreads : jreq[r].pc = "idle"
  BY <1>1, IdleFormed DEF JukeInit, RequestsFormed
<1>3. TableTypes
  <2>1. ASSUME NEW j \in Jukes PROVE jrow[j] \in RowRecord \cup {Nothing} BY Numbers DEF JukeInit, RowRecord
  <2> QED BY <2>1, JukeConstants DEF JukeInit, TableTypes
<1>4. EngineTypes BY UnusedType DEF JukeInit, EngineTypes
<1>5. Alone BY <1>2 DEF Alone, Active
<1>6. InHand
  BY <1>2, IdleStands DEF InHand
<1>7. KnownIds BY DEF JukeInit, KnownIds, Unused
<1>8. BoundOnce
  <2>1. \A j \in Jukes : jrow[j] # Nothing => jrow[j].device \in Devices BY DEF JukeInit
  <2> QED BY <2>1 DEF JukeInit, BoundOnce
<1>9. EnginesAreTheirs /\ PlayingIsManaged /\ \A j \in Jukes : QueueIsKept(j)
  BY DEF JukeInit, EnginesAreTheirs, PlayingIsManaged, QueueIsKept, Unused
<1> QED BY <1>2, <1>3, <1>4, <1>5, <1>6, <1>7, <1>8, <1>9 DEF JukeInv, Types

-----------------------------------------------------------------------------
(* Every step leaves well-formed requests behind.                          *)

LEMMA Moved ==
  ASSUME RequestsFormed, NEW r \in JukeThreads, NEW v \in JukeRequest, Formed(v), jreq' = [jreq EXCEPT ![r] = v]
  PROVE  RequestsFormed' /\ jreq'[r] = v /\ \A q \in JukeThreads \ {r} : jreq'[q] = jreq[q]
BY DEF RequestsFormed, Formed, HasRow

Moves(r, v) == /\ v \in JukeRequest /\ Formed(v) /\ jreq' = [jreq EXCEPT ![r] = v]
               /\ v.juke = jreq[r].juke /\ (v.kind = jreq[r].kind \/ v.pc = "idle") /\ Active(r)

LEMMA GoesOn ==
  ASSUME Types, NEW r \in JukeThreads, NEW pc \in JPcs, JGoto(r, pc), Active(r),
         pc \in StepsOf(jreq[r].kind), HasRow([jreq[r] EXCEPT !.pc = pc]) => HasRow(jreq[r]),
         pc = "act" => jreq[r].pc = "restore", pc # "restore"
  PROVE  \E v : Moves(r, v)
<1> DEFINE v == [jreq[r] EXCEPT !.pc = pc]
<1>1. jreq[r] \in JukeRequest /\ Formed(jreq[r]) BY DEF Types, RequestsFormed
<1>2. v \in JukeRequest /\ v.pc = pc /\ v.kind = jreq[r].kind /\ v.juke = jreq[r].juke /\ v.row = jreq[r].row
      /\ v.eng = jreq[r].eng BY <1>1 DEF JukeRequest
<1>3. jreq' = [jreq EXCEPT ![r] = v] BY DEF JGoto
<1> HIDE DEF v
<1>4. Formed(v)
  <2>0. jreq[r].kind \in Kinds BY <1>1 DEF JukeRequest
  <2>1. pc # "idle" /\ jreq[r].pc # "idle" BY <2>0 DEF StepsOf, Active, Holding, Kinds
  <2>2. HasRow(v) => HasRow(jreq[r]) BY <1>2 DEF v
  <2>3. v.kind = "create" /\ v.pc \in {"insert", "engine"} => jreq[r].pc \in {"insert", "engine"}
    BY <1>2, <2>2 DEF HasRow, Playback
  <2> QED BY <1>1, <1>2, <2>1, <2>2, <2>3 DEF Formed
<1> QED BY <1>2, <1>3, <1>4 DEF Moves

LEMMA GivesUp ==
  ASSUME Types, NEW r \in JukeThreads, Done(r), Active(r)
  PROVE  \E v : Moves(r, v)
<1>1. jreq[r].juke \in Jukes BY DEF Types, RequestsFormed, JukeRequest
<1> QED BY <1>1, IdleFormed DEF Moves, Done, Idle

LEMMA StepMoves ==
  ASSUME Types, NEW r \in JukeThreads, JukeStep(r)
  PROVE  \E v : Moves(r, v)
<1>0. jreq[r] \in JukeRequest /\ Formed(jreq[r]) /\ jrow \in [Jukes -> RowRecord \cup {Nothing}]
  BY DEF Types, RequestsFormed, TableTypes
<1>1. CASE ReadRow(r)
  <2>1. Active(r) BY <1>1 DEF ReadRow, At, Active
  <2>2. CASE Readable(jreq[r].juke)
    <3> DEFINE v == [jreq[r] EXCEPT !.row = jrow[jreq[r].juke], !.pc = IF jreq[r].kind = "update" THEN "write" ELSE "ensure"]
    <3>1. jreq' = [jreq EXCEPT ![r] = v] BY <1>1, <2>2 DEF ReadRow
    <3>2. jrow[jreq[r].juke] \in RowRecord BY <1>0, <2>2 DEF Readable, JukeRequest
    <3>3. v \in JukeRequest BY <1>0, <3>2 DEF JukeRequest, JPcs
    <3>4. v.row \in RowRecord /\ v.kind = jreq[r].kind /\ v.juke = jreq[r].juke /\ jreq[r].kind \in Playback \cup {"update"}
          /\ v.pc = IF jreq[r].kind = "update" THEN "write" ELSE "ensure"
      BY <1>0, <1>1, <3>2 DEF ReadRow, At, JukeRequest
    <3> HIDE DEF v
    <3>5. Formed(v) BY <3>4 DEF Formed, HasRow, StepsOf, Playback, Holding
    <3> QED BY <2>1, <3>1, <3>3, <3>4, <3>5 DEF Moves
  <2>3. CASE ~Readable(jreq[r].juke) BY <1>1, <2>1, <2>3, GivesUp DEF ReadRow
  <2> QED BY <2>2, <2>3
<1>2. ASSUME NEW e \in Engines, NEW kinds, NEW pc, NEW then \in {"act", "idle"}, NEW thenNew \in {"restore", "idle"},
             At(r, kinds, pc), pc # "idle", GetOrCreate(r, e, then, thenNew),
             then = "act" => jreq[r].kind \in Playback /\ pc \in Holding, thenNew = "restore" => then = "act"
      PROVE  \E v : Moves(r, v)
  <2> DEFINE v(p) == IF p = "idle" THEN Idle(jreq[r].juke) ELSE [jreq[r] EXCEPT !.eng = e, !.pc = p]
  <2>1. \E p \in {then, thenNew} : jreq' = [jreq EXCEPT ![r] = v(p)] BY <1>2 DEF GetOrCreate
  <2>2. PICK p \in {then, thenNew} : jreq' = [jreq EXCEPT ![r] = v(p)] BY <2>1
  <2>3. Active(r) /\ jreq[r].pc = pc BY <1>2 DEF At, Active
  <2>4. CASE p = "idle" BY <2>2, <2>3, <2>4, GivesUp DEF Done
  <2>5. CASE p # "idle"
    <3>1. p \in {"act", "restore"} /\ jreq[r].kind \in Playback /\ HasRow(jreq[r]) BY <1>2, <2>3, <2>5 DEF HasRow
    <3>2. v(p) \in JukeRequest /\ v(p).row = jreq[r].row /\ v(p).kind = jreq[r].kind /\ v(p).juke = jreq[r].juke
          /\ v(p).pc = p /\ v(p).eng = e BY <1>0, <3>1 DEF JukeRequest, JPcs
    <3> HIDE DEF v
    <3>3. Formed(v(p)) BY <1>0, <3>1, <3>2 DEF Formed, HasRow, StepsOf, Playback, Holding
    <3> QED BY <2>2, <2>3, <3>2, <3>3 DEF Moves
  <2> QED BY <2>4, <2>5
<1>3. ASSUME NEW e \in Engines, EnsureEngine(r, e) PROVE \E v : Moves(r, v)
  <2>1. jreq[r].kind \in Playback BY <1>3 DEF EnsureEngine, At
  <2> QED BY <1>2, <1>3, <2>1 DEF EnsureEngine, Holding
<1>4. ASSUME NEW e \in Engines, FreshEngine(r, e) PROVE \E v : Moves(r, v)
  BY <1>2, <1>4 DEF FreshEngine
<1>5. ASSUME NEW kinds, kinds \subseteq Playback, NEW pc, At(r, kinds, pc), pc # "idle", Done(r) PROVE \E v : Moves(r, v)
  BY <1>5, GivesUp DEF At, Active
<1>6. CASE RestoreEngine(r)
  <2>1. JGoto(r, "act") /\ jreq[r].pc = "restore" /\ Active(r) BY <1>6 DEF RestoreEngine, Active, At
  <2>2. jreq[r].kind \in Playback /\ HasRow(jreq[r])
    BY <1>0, <2>1 DEF Formed, StepsOf, HasRow, JukeRequest, Kinds, Playback, Holding
  <2> QED BY <2>1, <2>2, GoesOn DEF StepsOf, Playback, JPcs, Holding
<1>7. CASE Status(r) \/ PlayTrack(r) \/ StopTrack(r) \/ ChangeQueue(r) \/ EmptyQueue(r)
  BY <1>5, <1>7 DEF Status, PlayTrack, StopTrack, ChangeQueue, EmptyQueue, Acts, Playback
<1>8. CASE ChangeMode(r)
  <2>1. JGoto(r, "mode") /\ jreq[r].kind = "mode" /\ jreq[r].pc = "act" BY <1>8 DEF ChangeMode, Acts, At
  <2> QED BY <2>1, GoesOn DEF StepsOf, Playback, JPcs, Holding, Active, HasRow
<1>9. CASE ReadForMode(r)
  <2>1. jreq[r].kind = "mode" /\ jreq[r].pc = "mode" /\ Active(r) BY <1>9 DEF ReadForMode, At, Active
  <2>2. CASE Readable(jreq[r].juke)
    <3> DEFINE v == [jreq[r] EXCEPT !.row = jrow[jreq[r].juke], !.pc = "write"]
    <3>1. jreq' = [jreq EXCEPT ![r] = v] BY <1>9, <2>2 DEF ReadForMode
    <3>2. jrow[jreq[r].juke] \in RowRecord BY <1>0, <2>2 DEF Readable, JukeRequest
    <3>3. v \in JukeRequest BY <1>0, <3>2 DEF JukeRequest, JPcs
    <3>4. v.row \in RowRecord /\ v.kind = "mode" /\ v.juke = jreq[r].juke /\ v.pc = "write"
      BY <1>0, <2>1, <3>2 DEF JukeRequest
    <3> HIDE DEF v
    <3>5. Formed(v) BY <3>4 DEF Formed, HasRow, StepsOf, Playback, Holding
    <3> QED BY <2>1, <3>1, <3>3, <3>4, <3>5 DEF Moves
  <2>3. CASE ~Readable(jreq[r].juke) BY <1>9, <2>1, <2>3, GivesUp DEF ReadForMode
  <2> QED BY <2>2, <2>3
<1>10. CASE WriteMode(r) BY <1>5, <1>10 DEF WriteMode, Playback
<1>11. CASE UpdateRow(r)
  BY <1>11, GoesOn DEF UpdateRow, At, StepsOf, Playback, JPcs, Holding, Active, HasRow
<1>12. CASE RemoveEngine(r)
  <2>1. Active(r) /\ jreq[r].pc = "remove" /\ jreq[r].kind \in {"update", "delete"} BY <1>12 DEF RemoveEngine, At, Active
  <2>2. (JGoto(r, "engine") /\ jreq[r].kind = "update") \/ Done(r) BY <1>12 DEF RemoveEngine
  <2> QED BY <2>1, <2>2, GivesUp, GoesOn DEF StepsOf, Playback, JPcs, Holding, HasRow
<1>13. CASE DeleteJukebox(r)
  BY <1>13, GoesOn DEF DeleteJukebox, At, StepsOf, Playback, JPcs, Holding, Active, HasRow
<1>14. CASE WriteSettings(r)
  BY <1>14, GoesOn DEF WriteSettings, At, StepsOf, Playback, JPcs, Holding, Active, HasRow
<1>15. CASE ApplySettings(r)
  BY <1>15, GivesUp DEF ApplySettings, At, Active
<1>16. CASE InsertJukebox(r)
  <2>1. Active(r) /\ jreq[r].pc = "insert" /\ jreq[r].kind = "create" BY <1>16 DEF InsertJukebox, At, Active
  <2>2. JGoto(r, "engine") \/ Done(r) BY <1>16 DEF InsertJukebox
  <2> QED BY <2>1, <2>2, GivesUp, GoesOn DEF StepsOf, Playback, JPcs, Holding, HasRow
<1>17. ASSUME NEW d \in Devices, NEW pc \in {"insert", "drop"}, NEW k \in {"create", "undevice"}, At(r, {k}, "bound"),
              jreq' = [jreq EXCEPT ![r].row = [device |-> d, queue |-> 0, map |-> 0], ![r].pc = pc],
              pc \in StepsOf(k)
       PROVE  \E v : Moves(r, v)
  <2> DEFINE v == [jreq[r] EXCEPT !.row = [device |-> d, queue |-> 0, map |-> 0], !.pc = pc]
  <2>1. jreq' = [jreq EXCEPT ![r] = v] BY <1>17
  <2>2. [device |-> d, queue |-> 0, map |-> 0] \in RowRecord BY Numbers DEF RowRecord
  <2>3. v \in JukeRequest BY <1>0, <2>2 DEF JukeRequest, JPcs
  <2>4. v.row = [device |-> d, queue |-> 0, map |-> 0] /\ v.kind = k /\ v.juke = jreq[r].juke /\ v.pc = pc /\ Active(r)
    BY <1>0, <1>17 DEF JukeRequest, At, Active
  <2> HIDE DEF v
  <2>5. Formed(v) BY <1>17, <2>2, <2>4 DEF Formed, StepsOf
  <2> QED BY <1>17, <2>1, <2>3, <2>4, <2>5 DEF Moves, At
<1>18. ASSUME NEW d \in Devices, CreateJukebox(r, d) PROVE \E v : Moves(r, v)
  <2>1. At(r, {"create"}, "bound") /\ Active(r) BY <1>18 DEF CreateJukebox, At, Active
  <2>2. CASE Done(r) BY <2>1, <2>2, GivesUp
  <2>3. CASE ~Done(r) BY <1>17, <1>18, <2>1, <2>3 DEF CreateJukebox, StepsOf
  <2> QED BY <2>2, <2>3
<1>19. ASSUME NEW d \in Devices, CheckUnbound(r, d) PROVE \E v : Moves(r, v)
  <2>1. At(r, {"undevice"}, "bound") /\ Active(r) BY <1>19 DEF CheckUnbound, At, Active
  <2>2. CASE Done(r) BY <2>1, <2>2, GivesUp
  <2>3. CASE ~Done(r) BY <1>17, <1>19, <2>1, <2>3 DEF CheckUnbound, StepsOf
  <2> QED BY <2>2, <2>3
<1>20. ASSUME NEW d \in Devices, DropDevice(r, d) PROVE \E v : Moves(r, v)
  BY <1>20, GivesUp DEF DropDevice, At, Active
<1> QED BY <1>1, <1>3, <1>4, <1>6, <1>7, <1>8, <1>9, <1>10, <1>11, <1>12, <1>13, <1>14, <1>15, <1>16, <1>18, <1>19, <1>20
        DEF JukeStep

(* Rows, engines and saves keep their form.                                *)

LEMMA InStep ==
  ASSUME Types, NEW r \in JukeThreads
  PROVE  /\ jreq[r] \in JukeRequest /\ Formed(jreq[r]) /\ jreq[r].juke \in Jukes /\ jreq[r].kind \in Kinds
         /\ jreq[r].n \in QueueIds /\ jreq[r].pc \in JPcs
         /\ HasRow(jreq[r]) => jreq[r].row \in RowRecord
         /\ jreq[r].pc \in {"restore", "act"} =>
                /\ jreq[r].eng \in Engines /\ Obj(r) \in Object /\ jreq[r].kind \in Playback
                /\ HasRow(jreq[r])
BY DEF Types, RequestsFormed, EngineTypes, Formed, JukeRequest, Obj, StepsOf, Playback, Kinds, HasRow, Holding

LEMMA StepTables ==
  ASSUME Types, NEW r \in JukeThreads, JukeStep(r)
  PROVE  TableTypes'
<1> USE DEF TableTypes
<1>0. TableTypes BY DEF Types
<1>1. ASSUME UNCHANGED <<jrow, device, made, known, overtaken, renamed>> PROVE TableTypes' BY <1>0, <1>1, SMTT(30)
<1>2. CASE ReadRow(r) \/ RestoreEngine(r) \/ Status(r) \/ PlayTrack(r) \/ StopTrack(r) \/ ChangeQueue(r) \/ EmptyQueue(r)
           \/ ChangeMode(r) \/ ReadForMode(r) \/ RemoveEngine(r) \/ ApplySettings(r) \/ (\E e \in Engines : EnsureEngine(r, e))
           \/ \E d \in Devices : CreateJukebox(r, d) \/ CheckUnbound(r, d)
  BY <1>1, <1>2 DEF ReadRow, RestoreEngine, Status, PlayTrack, StopTrack, ChangeQueue, EmptyQueue, ChangeMode, ReadForMode,
     RemoveEngine, ApplySettings, EnsureEngine, CreateJukebox, CheckUnbound, Acts, UNCHANGED_history
<1>3. CASE WriteMode(r)
  <2>1. jreq[r].row \in RowRecord BY <1>3, InStep DEF WriteMode, At, HasRow, Playback, Holding
  <2> QED BY <1>0, <1>3, <2>1, InStep DEF WriteMode
<1>4. CASE UpdateRow(r)
  <2>1. jreq[r].row \in RowRecord BY <1>4, InStep DEF UpdateRow, At, HasRow
  <2> QED BY <1>0, <1>4, <2>1, InStep DEF UpdateRow, UNCHANGED_history
<1>5. CASE DeleteJukebox(r) BY <1>0, <1>5, InStep DEF DeleteJukebox, UNCHANGED_history
<1>6. CASE WriteSettings(r)
  <2>1. ASSUME NEW w \in RowRecord, NEW n \in QueueIds PROVE [w EXCEPT !.map = n] \in RowRecord BY DEF RowRecord
  <2>2. jreq[r].n \in QueueIds BY InStep
  <2> QED BY <1>0, <1>6, <2>1, <2>2, InStep DEF WriteSettings, UNCHANGED_history
<1>7. CASE InsertJukebox(r)
  <2>1. jreq[r].row \in RowRecord /\ jreq[r].juke \in Jukes BY <1>7, InStep DEF InsertJukebox, At, HasRow
  <2> QED BY <1>0, <1>7, <2>1 DEF InsertJukebox
<1>8. ASSUME NEW e \in Engines, FreshEngine(r, e) PROVE TableTypes'
  BY <1>0, <1>8, InStep DEF FreshEngine
<1>9. ASSUME NEW d \in Devices, DropDevice(r, d) PROVE TableTypes'
  <2>1. ASSUME NEW w \in RowRecord PROVE [w EXCEPT !.device = Nothing] \in RowRecord BY DEF RowRecord
  <2>2. \A j \in BoundTo(d) : jrow[j] \in RowRecord BY <1>0 DEF BoundTo
  <2> QED BY <1>0, <1>9, <2>1, <2>2 DEF DropDevice, UNCHANGED_history
<1> QED BY <1>2, <1>3, <1>4, <1>5, <1>6, <1>7, <1>8, <1>9 DEF JukeStep

(* What an engine is changed to is an engine, and so is what it saves.     *)
LEMMA EngineSaved ==
  ASSUME EngineTypes, NEW e \in Engines, NEW o \in Object, o.juke \in Jukes,
         object' = [object EXCEPT ![e] = o], saving' = Saves(o), manager' = manager
  PROVE  EngineTypes'
<1>1. [juke |-> o.juke, queue |-> o.queue] \in SaveRecord BY DEF Object, SaveRecord
<1> QED BY <1>1, Appended DEF EngineTypes, Saves

LEMMA ObjectFields ==
  ASSUME NEW o \in Object
  PROVE  /\ \A n \in QueueIds : [o EXCEPT !.queue = n] \in Object /\ [o EXCEPT !.map = n] \in Object
         /\ \A n \in QueueIds : [o EXCEPT !.queue = n].juke = o.juke /\ [o EXCEPT !.map = n].juke = o.juke
         /\ \A b \in BOOLEAN : [o EXCEPT !.playing = b] \in Object /\ [o EXCEPT !.playing = b].juke = o.juke
BY DEF Object

-----------------------------------------------------------------------------
(* What the steps of one sort have in common.                              *)

LEMMA AloneKept ==
  ASSUME Types, Alone, NEW r \in JukeThreads, NEW v, Moves(r, v)
  PROVE  Alone' /\ RequestsFormed' /\ jreq'[r] = v /\ \A q \in JukeThreads \ {r} : jreq'[q] = jreq[q]
<1>1. RequestsFormed' /\ jreq'[r] = v /\ \A q \in JukeThreads \ {r} : jreq'[q] = jreq[q] BY Moved DEF Moves, Types
<1>2. v.kind \in Admin /\ v.pc # "idle" => jreq[r].kind \in Admin BY DEF Moves
<1>3. Alone'
  <2> SUFFICES ASSUME NEW p \in JukeThreads, NEW q \in JukeThreads,
                      jreq'[p].kind \in Admin, jreq'[p].pc # "idle", jreq'[q].pc # "idle"
               PROVE  p = q BY DEF Alone, Active
  <2>1. jreq[p].kind \in Admin /\ Active(p) BY <1>1, <1>2 DEF Moves, Active
  <2>2. Active(q) BY <1>1 DEF Moves, Active
  <2> QED BY <2>1, <2>2 DEF Alone
<1> QED BY <1>1, <1>3

(* While a playback request is at work no other kind is.                   *)
LEMMA NoAdmin ==
  ASSUME JukeInv, NEW r \in JukeThreads, Active(r), jreq[r].kind \in Playback
  PROVE  /\ \A q \in JukeThreads : jreq[q].kind \in Playback
         /\ \A j : ~During(j, "delete", "remove") /\ ~During(j, "settings", "mapping") /\ ~During(j, "update", "remove")
         /\ \A j \in Jukes : manager[j] # Nothing => object[manager[j]].juke = j /\ jrow[j] # Nothing
         /\ \A e \in Engines : object[e].playing =>
               /\ object[e].juke \in Jukes /\ manager[object[e].juke] = e
               /\ jrow[object[e].juke] # Nothing /\ object[e].map = jrow[object[e].juke].map
<1> USE DEF JukeInv
<1>1. ASSUME NEW q \in JukeThreads PROVE jreq[q].kind \in Playback
  <2>1. jreq[q].kind \in Kinds /\ Formed(jreq[q]) BY InStep
  <2>2. CASE Active(q) BY <2>1, <2>2 DEF Alone, Admin
  <2>3. CASE ~Active(q) BY <2>1, <2>3 DEF Active, Formed, Playback
  <2> QED BY <2>2, <2>3
<1>2. \A j : ~During(j, "delete", "remove") /\ ~During(j, "settings", "mapping") /\ ~During(j, "update", "remove")
  BY <1>1 DEF During, Playback
<1>3. \A j \in Jukes : manager[j] # Nothing => object[manager[j]].juke = j /\ jrow[j] # Nothing
  BY <1>2 DEF EnginesAreTheirs
<1>4. ASSUME NEW e \in Engines, object[e].playing
      PROVE  /\ object[e].juke \in Jukes /\ manager[object[e].juke] = e
             /\ jrow[object[e].juke] # Nothing /\ object[e].map = jrow[object[e].juke].map
  <2>1. object[e].juke \in Jukes /\ manager[object[e].juke] = e /\ e # Nothing
    BY <1>4, Distinct DEF PlayingIsManaged, Types, EngineTypes, Object
  <2>2. jrow[object[e].juke] # Nothing BY <1>3, <2>1
  <2> QED BY <1>2, <1>4, <2>1, <2>2 DEF PlayingIsManaged
<1> QED BY <1>1, <1>2, <1>3, <1>4

(* Rows keep their device and mapping, engines their place: so stands what *)
(* a playback request has in hand.                                         *)
Gentle == /\ \A j \in Jukes : /\ jrow'[j] = Nothing <=> jrow[j] = Nothing
                              /\ jrow[j] # Nothing => /\ jrow'[j].map = jrow[j].map
                                                      /\ jrow'[j].device = jrow[j].device
          /\ \A j \in Jukes : manager[j] # Nothing => manager'[j] = manager[j]

LEMMA GentleStands ==
  ASSUME Types, Gentle, NEW r \in JukeThreads, jreq[r].kind \in Playback, Stands(jreq[r], jrow, manager, saving)
  PROVE  Stands(jreq[r], jrow', manager', saving')
<1>1. jreq[r].juke \in Jukes /\ (jreq[r].pc \in {"restore", "act"} => jreq[r].eng # Nothing) BY InStep, Distinct
<1> QED BY <1>1 DEF Stands, RowStands, EngineStands, MappingStands, DeviceStands, CreationStands, DeletionStands, Gentle,
           Playback, Placing

LEMMA GentleInHand ==
  ASSUME JukeInv, Gentle, NEW r \in JukeThreads, NEW v, Moves(r, v), jreq[r].kind \in Playback,
         Stands(v, jrow', manager', saving')
  PROVE  InHand'
<1> SUFFICES ASSUME NEW q \in JukeThreads PROVE Stands(jreq'[q], jrow', manager', saving') BY DEF InHand
<1>1. jreq'[r] = v /\ (q # r => jreq'[q] = jreq[q]) BY AloneKept DEF JukeInv
<1>2. jreq[q].kind \in Playback BY NoAdmin DEF Moves
<1> QED BY <1>1, <1>2, GentleStands DEF JukeInv, InHand

(* While a request of the administration is at work, no other is.          *)
LEMMA AdminIsAlone ==
  ASSUME JukeInv, NEW r \in JukeThreads, Active(r), jreq[r].kind \in Admin
  PROVE  /\ \A q \in JukeThreads \ {r} : jreq[q].pc = "idle"
         /\ \A j : ~Restoring(j)
         /\ \A j, k, pc : pc # "idle" /\ During(j, k, pc) => jreq[r].juke = j /\ jreq[r].kind = k /\ jreq[r].pc = pc
         /\ jreq[r].pc # "restore"
<1> USE DEF JukeInv
<1>1. \A q \in JukeThreads \ {r} : jreq[q].pc = "idle" BY DEF Alone, Active
<1>2. jreq[r].pc # "restore" BY InStep DEF Admin
<1> QED BY <1>1, <1>2 DEF Restoring, During

LEMMA AdminInHand ==
  ASSUME JukeInv, NEW r \in JukeThreads, NEW v, Moves(r, v), jreq[r].kind \in Admin,
         Stands(v, jrow', manager', saving')
  PROVE  /\ InHand' /\ \A q \in JukeThreads \ {r} : jreq'[q].pc = "idle"
         /\ \A j, k, pc : pc # "idle" => (During(j, k, pc)' <=> v.juke = j /\ v.kind = k /\ v.pc = pc)
<1>1. jreq'[r] = v /\ \A q \in JukeThreads \ {r} : jreq'[q] = jreq[q] BY AloneKept DEF JukeInv
<1>2. \A q \in JukeThreads \ {r} : jreq'[q].pc = "idle" BY <1>1, AdminIsAlone DEF Moves
<1>3. InHand' BY <1>1, <1>2, IdleStands DEF InHand
<1> QED BY <1>1, <1>2, <1>3 DEF During

-----------------------------------------------------------------------------
(* The steps of playback.                                                  *)

(* A request that only reads or looks.                                     *)
LEMMA QuietKeeps ==
  ASSUME JukeInv, NEW r \in JukeThreads, NEW v, Moves(r, v), Stands(v, jrow, manager, saving),
         UNCHANGED <<jrow, device, manager, object, saving, made, known, overtaken, renamed>>,
         jreq[r].pc \notin {"restore", "remove", "mapping"}
  PROVE  JukeInv'
<1> USE DEF JukeInv
<1>1. Alone' /\ RequestsFormed' /\ jreq'[r] = v /\ \A q \in JukeThreads \ {r} : jreq'[q] = jreq[q] BY AloneKept
<1>2. Types' BY <1>1 DEF Types, TableTypes, EngineTypes
<1>3. InHand' BY <1>1 DEF InHand
<1>4. KnownIds' /\ BoundOnce' BY DEF KnownIds, BoundOnce
<1>5. \A j, k, pc : pc \in {"remove", "mapping"} /\ During(j, k, pc) => During(j, k, pc)' BY <1>1 DEF During
<1>6. \A j : Restoring(j) => Restoring(j)' BY <1>1 DEF Restoring
<1>7. EnginesAreTheirs' /\ PlayingIsManaged' BY <1>5 DEF EnginesAreTheirs, PlayingIsManaged
<1>8. \A j \in Jukes : QueueIsKept(j)' BY <1>5, <1>6 DEF QueueIsKept
<1> QED BY <1>1, <1>2, <1>3, <1>4, <1>7, <1>8

(* A request that does something to the engine it has, and has it saved    *)
(* if the queue may have changed.                                          *)
LEMMA ActingKeeps ==
  ASSUME JukeInv, NEW r \in JukeThreads, NEW v, Moves(r, v), jreq[r].pc \in {"restore", "act"}, NEW o \in Object,
         o.juke = jreq[r].juke, o.playing => o.map = jrow[jreq[r].juke].map,
         object' = [object EXCEPT ![jreq[r].eng] = o],
         UNCHANGED <<jrow, device, manager, made, known, overtaken, renamed>>,
         \/ saving' = Saves(o)
         \/ saving' = saving /\ o.queue = object[jreq[r].eng].queue /\ jreq[r].pc # "restore",
         Stands(v, jrow, manager, saving')
  PROVE  JukeInv'
<1> DEFINE e == jreq[r].eng
<1> DEFINE j == jreq[r].juke
<1> DEFINE x == [juke |-> o.juke, queue |-> o.queue]
<1> USE DEF JukeInv
<1>1. Alone' /\ RequestsFormed' /\ jreq'[r] = v /\ \A q \in JukeThreads \ {r} : jreq'[q] = jreq[q] BY AloneKept
<1>2. e \in Engines /\ j \in Jukes /\ jreq[r].kind \in Playback /\ e # Nothing /\ manager[j] = e
  BY InStep, Distinct DEF InHand, Stands, EngineStands
<1>3. object[e].juke = j /\ jrow[j] # Nothing /\ j \in known BY <1>2, NoAdmin DEF Moves, KnownIds
<1>4. x \in SaveRecord BY <1>2 DEF SaveRecord, Object
<1>5. saving \in Seq(SaveRecord) /\ manager \in [Jukes -> Engines \cup {Nothing}] /\ object \in [Engines -> Object]
  BY DEF Types, EngineTypes
<1>6. \A f \in Engines : object'[f] = IF f = e THEN o ELSE object[f] BY <1>2, <1>5
<1>7. saving' \in Seq(SaveRecord) /\ \A i \in DOMAIN saving' : saving'[i] = x \/ (i \in DOMAIN saving /\ saving'[i] = saving[i])
  <2>1. CASE saving' = saving BY <1>5, <2>1
  <2>2. CASE saving' = Saves(o)
    <3>1. saving' = saving \o <<x>> BY <2>2 DEF Saves
    <3> HIDE DEF x
    <3> QED BY <1>4, <1>5, <3>1, Appended
  <2> QED BY <2>1, <2>2
<1>8. Types' BY <1>1, <1>2, <1>5, <1>7 DEF Types, TableTypes, EngineTypes
<1>9. InHand'
  <2>1. Gentle BY DEF Gentle
  <2> QED BY <1>2, <2>1, GentleInHand
<1>10. KnownIds' BY <1>3, <1>6, <1>7 DEF KnownIds
<1>11. BoundOnce' BY DEF BoundOnce
<1>12. EnginesAreTheirs' BY <1>2, <1>6, NoAdmin DEF EnginesAreTheirs, Moves
<1>13. PlayingIsManaged'
  <2> SUFFICES ASSUME NEW f \in Engines, object'[f].playing
               PROVE  /\ object'[f].juke # Nothing /\ manager[object'[f].juke] = f
                      /\ object'[f].map = jrow[object'[f].juke].map BY DEF PlayingIsManaged
  <2>1. CASE f = e BY <1>2, <1>6, <2>1, Distinct
  <2>2. CASE f # e BY <1>2, <1>6, <2>2, NoAdmin, Distinct DEF Moves
  <2> QED BY <2>1, <2>2
<1>14. ASSUME NEW k \in Jukes, k \notin overtaken \cup renamed, manager[k] # Nothing, jrow[k] # Nothing, ~Restoring(k)'
       PROVE  LastIs(k, object'[manager[k]].queue, saving', jrow[k].queue)
  <2>1. ASSUME Restoring(k) PROVE k = j /\ jreq[r].pc = "restore"
    BY <1>1, <1>14, <2>1 DEF Restoring
  <2>2. ~During(k, "update", "remove") BY <1>2, NoAdmin DEF Moves
  <2>3. CASE k = j /\ saving' = Saves(o)
    <3>1. saving' = saving \o <<x>> BY <2>3 DEF Saves
    <3>2. x.juke = k /\ x.queue = o.queue BY <2>3
    <3> HIDE DEF x
    <3>3. LastIs(k, x.queue, saving', jrow[k].queue) BY <1>4, <1>5, <3>1, <3>2, LastAppended
    <3> QED BY <1>2, <1>6, <2>3, <3>2, <3>3
  <2>4. CASE saving' = saving /\ o.queue = object[e].queue /\ jreq[r].pc # "restore"
    <3>1. LastIs(k, object[manager[k]].queue, saving, jrow[k].queue) BY <1>14, <2>1, <2>2, <2>4 DEF QueueIsKept
    <3>2. object'[manager[k]].queue = object[manager[k]].queue BY <1>5, <1>6, <1>14, <2>4
    <3> QED BY <2>4, <3>1, <3>2
  <2>5. CASE k # j /\ saving' = Saves(o)
    <3>1. LastIs(k, object[manager[k]].queue, saving, jrow[k].queue) BY <1>14, <2>1, <2>2, <2>5 DEF QueueIsKept
    <3>2. saving' = saving \o <<x>> /\ x.juke # k BY <2>5 DEF Saves
    <3>3. manager[k] # e /\ object'[manager[k]] = object[manager[k]]
      BY <1>2, <1>3, <1>5, <1>6, <1>14, <2>5, NoAdmin DEF Moves
    <3> HIDE DEF x
    <3> QED BY <1>4, <1>5, <3>1, <3>2, <3>3, LastAppended
  <2> QED BY <2>3, <2>4, <2>5
<1>15. \A k \in Jukes : QueueIsKept(k)' BY <1>14 DEF QueueIsKept
<1> QED BY <1>1, <1>8, <1>9, <1>10, <1>11, <1>12, <1>13, <1>15

LEMMA EnsureKeeps ==
  ASSUME JukeInv, NEW r \in JukeThreads, NEW e \in Engines, EnsureEngine(r, e)
  PROVE  JukeInv'
<1> DEFINE j == jreq[r].juke
<1> USE DEF JukeInv
<1>0. JukeStep(r) BY DEF JukeStep
<1>1. PICK v : Moves(r, v) BY <1>0, StepMoves
<1>2. Alone' /\ RequestsFormed' /\ jreq'[r] = v /\ \A q \in JukeThreads \ {r} : jreq'[q] = jreq[q] BY <1>1, AloneKept
<1>3. jreq[r].pc = "ensure" /\ jreq[r].kind \in Playback /\ j \in Jukes /\ Active(r) /\ HasRow(jreq[r]) /\ jreq[r] \in JukeRequest
  BY InStep DEF EnsureEngine, At, Active, HasRow, Holding
<1>4. jrow[j] # Nothing /\ jreq[r].row.map = jrow[j].map /\ jreq[r].row.device = jrow[j].device /\ j \in known
  BY <1>3 DEF InHand, Stands, RowStands, Reads, Holding, KnownIds
<1>5. ASSUME NEW pc \in {"act", "restore"}, v = [jreq[r] EXCEPT !.eng = e, !.pc = pc], manager'[j] = e, jrow' = jrow
      PROVE  Stands(v, jrow', manager', saving') /\ v.pc = pc /\ v.juke = j
  <2>1. v.pc = pc /\ v.juke = j /\ v.eng = e /\ v.kind = jreq[r].kind /\ v.row = jreq[r].row BY <1>3, <1>5 DEF JukeRequest
  <2> QED BY <1>3, <1>4, <1>5, <2>1 DEF Stands, RowStands, EngineStands, MappingStands, DeviceStands, CreationStands, DeletionStands,
        Playback, Placing
<1>6. UNCHANGED <<jrow, device, saving, made, known, overtaken, renamed>> BY DEF EnsureEngine, UNCHANGED_history
<1>7. CASE manager[j] # Nothing
  <2>1. UNCHANGED <<manager, object>> /\ manager[j] = e /\ jreq' = [jreq EXCEPT ![r] = [jreq[r] EXCEPT !.eng = e, !.pc = "act"]]
    BY <1>7 DEF EnsureEngine, GetOrCreate
  <2>2. v = [jreq[r] EXCEPT !.eng = e, !.pc = "act"] BY <1>2, <2>1 DEF Types, RequestsFormed
  <2>3. Stands(v, jrow, manager, saving) BY <1>5, <1>6, <2>1, <2>2
  <2> QED BY <1>1, <1>3, <1>6, <2>1, <2>3, QuietKeeps
<1>8. CASE manager[j] = Nothing
  <2>1. /\ e \notin {manager[k] : k \in Jukes} /\ ~object[e].playing
        /\ manager' = [manager EXCEPT ![j] = e] /\ object' = [object EXCEPT ![e] = [Unused EXCEPT !.juke = j]]
        /\ jreq' = [jreq EXCEPT ![r] = [jreq[r] EXCEPT !.eng = e, !.pc = "restore"]]
    BY <1>8 DEF EnsureEngine, GetOrCreate
  <2> DEFINE new == [Unused EXCEPT !.juke = j]
  <2>2. new \in Object /\ new.juke = j /\ ~new.playing BY <1>3, Numbers DEF Unused, Object
  <2>3. /\ manager \in [Jukes -> Engines \cup {Nothing}] /\ object \in [Engines -> Object]
        /\ manager' \in [Jukes -> Engines \cup {Nothing}] /\ object' \in [Engines -> Object]
    BY <1>3, <2>1, <2>2 DEF Types, EngineTypes
  <2>4. /\ \A k \in Jukes : manager'[k] = IF k = j THEN e ELSE manager[k]
        /\ \A f \in Engines : object'[f] = IF f = e THEN new ELSE object[f]
    BY <1>3, <2>1, <2>3
  <2> HIDE DEF new
  <2>5. Types' BY <1>2, <1>6, <2>3 DEF Types, TableTypes, EngineTypes
  <2>6. InHand'
    <3>1. v = [jreq[r] EXCEPT !.eng = e, !.pc = "restore"] BY <1>2, <2>1 DEF Types, RequestsFormed
    <3>2. Stands(v, jrow', manager', saving') BY <1>3, <1>5, <1>6, <2>4, <3>1
    <3>3. Gentle BY <1>6, <1>8, <2>4 DEF Gentle
    <3> QED BY <1>1, <1>3, <3>2, <3>3, GentleInHand
  <2>7. KnownIds' BY <1>4, <1>6, <2>2, <2>4 DEF KnownIds
  <2>8. BoundOnce' BY <1>6 DEF BoundOnce
  <2>9. ASSUME NEW k \in Jukes, k # j, manager[k] # Nothing PROVE object'[manager[k]] = object[manager[k]]
    BY <2>1, <2>3, <2>4, <2>9
  <2>10. EnginesAreTheirs'
    <3> SUFFICES ASSUME NEW k \in Jukes, manager'[k] # Nothing PROVE object'[manager'[k]].juke = k /\ jrow'[k] # Nothing
      BY DEF EnginesAreTheirs
    <3> QED BY <1>3, <1>4, <1>6, <2>2, <2>4, <2>9, NoAdmin
  <2>11. PlayingIsManaged'
    <3> SUFFICES ASSUME NEW f \in Engines, object'[f].playing
                 PROVE  /\ object'[f].juke # Nothing /\ manager'[object'[f].juke] = f
                        /\ object'[f].map = jrow'[object'[f].juke].map BY DEF PlayingIsManaged
    <3>1. f # e /\ object'[f] = object[f] BY <2>2, <2>4
    <3>2. object[f].juke \in Jukes /\ manager[object[f].juke] = f /\ object[f].map = jrow[object[f].juke].map
      BY <1>3, <3>1, NoAdmin
    <3> QED BY <1>6, <1>8, <2>4, <3>1, <3>2, Distinct
  <2>12. ASSUME NEW k \in Jukes, ~Restoring(k)' PROVE QueueIsKept(k)'
    <3>1. k # j BY <1>1, <1>2, <2>1, <2>12 DEF Restoring, Types, RequestsFormed, JukeRequest
    <3>2. ~Restoring(k) BY <1>2, <1>3, <2>12 DEF Restoring
    <3>3. ~During(k, "update", "remove") BY <1>3, NoAdmin
    <3> QED BY <1>6, <2>4, <2>9, <3>1, <3>2, <3>3 DEF QueueIsKept
  <2>13. \A k \in Jukes : QueueIsKept(k)' BY <2>12 DEF QueueIsKept
  <2> QED BY <1>2, <2>5, <2>6, <2>7, <2>8, <2>10, <2>11, <2>13
<1> QED BY <1>7, <1>8

LEMMA WriteModeKeeps ==
  ASSUME JukeInv, NEW r \in JukeThreads, WriteMode(r)
  PROVE  JukeInv'
<1> DEFINE j == jreq[r].juke
<1> USE DEF JukeInv
<1>0. JukeStep(r) BY DEF JukeStep
<1>1. PICK v : Moves(r, v) /\ v.pc = "idle"
  <2>1. jreq[r].juke \in Jukes /\ Active(r) BY InStep DEF WriteMode, At, Active
  <2> QED BY <2>1, IdleFormed DEF Moves, WriteMode, Done, Idle
<1>2. Alone' /\ RequestsFormed' /\ jreq'[r] = v /\ \A q \in JukeThreads \ {r} : jreq'[q] = jreq[q] BY <1>1, AloneKept
<1>3. jreq[r].pc = "write" /\ jreq[r].kind \in Playback /\ j \in Jukes /\ Active(r) BY InStep DEF WriteMode, At, Active, Playback
<1>4. jrow[j] # Nothing /\ jreq[r].row.map = jrow[j].map /\ jreq[r].row.device = jrow[j].device /\ jreq[r].row \in RowRecord
  BY <1>3, InStep DEF InHand, Stands, RowStands, Reads, Holding, HasRow
<1>5. TableTypes' BY <1>0, StepTables
<1>6. UNCHANGED <<device, manager, object, saving, made, known, renamed>> BY DEF WriteMode
<1>7. jrow \in [Jukes -> RowRecord \cup {Nothing}] BY DEF Types, TableTypes
<1>8. \A k \in Jukes : jrow'[k] = IF k = j THEN jreq[r].row ELSE jrow[k] BY <1>3, <1>4, <1>7 DEF WriteMode
<1>9. /\ \A k \in Jukes : jrow'[k] = Nothing <=> jrow[k] = Nothing
      /\ \A k \in Jukes : jrow[k] # Nothing => jrow'[k].map = jrow[k].map /\ jrow'[k].device = jrow[k].device
  BY <1>4, <1>8, Distinct
<1>10. Types' BY <1>2, <1>5, <1>6 DEF Types, EngineTypes
<1>11. InHand'
  <2>1. Gentle BY <1>6, <1>9 DEF Gentle
  <2> QED BY <1>1, <1>3, <2>1, GentleInHand, IdleStands
<1>12. KnownIds' BY <1>6, <1>9 DEF KnownIds
<1>13. BoundOnce' BY <1>6, <1>9 DEF BoundOnce
<1>14. EnginesAreTheirs' BY <1>3, <1>6, <1>9, NoAdmin DEF EnginesAreTheirs
<1>15. PlayingIsManaged' BY <1>3, <1>6, <1>9, NoAdmin DEF PlayingIsManaged
<1>16. ASSUME NEW k \in Jukes PROVE QueueIsKept(k)'
  <2>1. Restoring(k) => Restoring(k)' BY <1>2, <1>3 DEF Restoring
  <2>2. ~During(k, "update", "remove") BY <1>3, NoAdmin
  <2>3. jrow'[k] = jrow[k] \/ k \in overtaken'
    BY <1>3, <1>4, <1>8 DEF WriteMode
  <2>4. overtaken \subseteq overtaken' BY DEF WriteMode
  <2> QED BY <1>6, <2>1, <2>2, <2>3, <2>4 DEF QueueIsKept
<1> QED BY <1>2, <1>10, <1>11, <1>12, <1>13, <1>14, <1>15, <1>16

LEMMA ActsKeep ==
  ASSUME JukeInv, NEW r \in JukeThreads, NEW kinds \in SUBSET Playback, NEW o \in Object,
         o.juke = jreq[r].juke, NEW pc \in {"idle", "mode"}, Acts(r, kinds, o, pc), pc = "mode" => kinds = {"mode"}
  PROVE  JukeInv'
<1> DEFINE p == [o EXCEPT !.map = jreq[r].row.map]
<1> USE DEF JukeInv
<1>1. jreq[r].pc = "act" /\ jreq[r].kind \in kinds /\ jreq[r].kind \in Playback /\ HasRow(jreq[r]) /\ Active(r)
      /\ jreq[r] \in JukeRequest
  BY InStep DEF Acts, At, HasRow, Holding, Active
<1>2. jreq[r].row \in RowRecord /\ jreq[r].row.map = jrow[jreq[r].juke].map /\ jrow[jreq[r].juke] # Nothing
  BY <1>1, InStep DEF InHand, Stands, RowStands, Reads, Holding
<1>3. p \in Object /\ p.juke = jreq[r].juke /\ p.map = jrow[jreq[r].juke].map
  <2>1. jreq[r].row.map \in QueueIds BY <1>2 DEF RowRecord
  <2> QED BY <1>2, <2>1, ObjectFields DEF Object
<1>4. object' = [object EXCEPT ![jreq[r].eng] = p] /\ saving' = Saves(p)
      /\ UNCHANGED <<jrow, device, manager, made, known, overtaken, renamed>>
  BY DEF Acts, UNCHANGED_history
<1>5. PICK v : Moves(r, v) /\ v.pc \in {"idle", "mode"} /\ (v.pc = "mode" => v.kind = "mode")
  <2>1. CASE pc = "idle"
    <3>1. jreq' = [jreq EXCEPT ![r] = Idle(jreq[r].juke)] BY <2>1 DEF Acts, Done
    <3>2. jreq[r].juke \in Jukes /\ Idle(jreq[r].juke).juke = jreq[r].juke BY <1>1 DEF JukeRequest, Idle
    <3> QED BY <1>1, <3>1, <3>2, IdleFormed DEF Moves
  <2>2. CASE pc = "mode"
    <3> DEFINE w == [jreq[r] EXCEPT !.pc = "mode"]
    <3>1. jreq' = [jreq EXCEPT ![r] = w] BY <2>2 DEF Acts, JGoto
    <3>2. jreq[r].kind = "mode" BY <1>1, <2>2
    <3>3. w \in JukeRequest /\ w.pc = "mode" /\ w.kind = "mode" /\ w.juke = jreq[r].juke /\ w.row = jreq[r].row
      BY <1>1, <3>2 DEF JukeRequest, JPcs
    <3> HIDE DEF w
    <3>4. Formed(w) BY <1>2, <3>3 DEF Formed, HasRow, StepsOf, Playback, Holding
    <3> QED BY <1>1, <3>1, <3>2, <3>3, <3>4 DEF Moves
  <2> QED BY <2>1, <2>2
<1>6. Stands(v, jrow, manager, saving')
  BY <1>5 DEF Stands, RowStands, EngineStands, MappingStands, DeviceStands, CreationStands, DeletionStands, Reads, Holding, Placing
<1> HIDE DEF p
<1> QED BY <1>1, <1>3, <1>4, <1>5, <1>6, ActingKeeps

LEMMA PlaybackKeeps ==
  ASSUME JukeInv, NEW r \in JukeThreads,
         \/ ReadRow(r) \/ RestoreEngine(r) \/ Status(r) \/ PlayTrack(r) \/ StopTrack(r)
         \/ ChangeQueue(r) \/ EmptyQueue(r) \/ ChangeMode(r) \/ ReadForMode(r)
  PROVE  JukeInv'
<1> USE DEF JukeInv
<1>0. JukeStep(r) BY DEF JukeStep
<1>1. PICK v : Moves(r, v) BY <1>0, StepMoves
<1>2. RequestsFormed' /\ jreq'[r] = v BY <1>1, AloneKept
<1>3. jreq[r] \in JukeRequest /\ jreq \in [JukeThreads -> JukeRequest] /\ jreq[r].juke \in Jukes BY DEF Types, RequestsFormed, JukeRequest
<1>4. ASSUME NEW pc \in {"ensure", "write"}, NEW kinds, At(r, kinds, pc) \/ TRUE, v = [jreq[r] EXCEPT !.row = jrow[jreq[r].juke], !.pc = pc],
             jreq[r].kind \in Playback \cup {"update"}, Readable(jreq[r].juke)
      PROVE  Stands(v, jrow, manager, saving)
  <2>1. v.pc = pc /\ v.kind = jreq[r].kind /\ v.juke = jreq[r].juke /\ v.row = jrow[jreq[r].juke] BY <1>3, <1>4 DEF JukeRequest
  <2> QED BY <1>4, <2>1 DEF Stands, RowStands, EngineStands, MappingStands, DeviceStands, CreationStands, DeletionStands,
         Playback, Placing, Readable
<1>5. ASSUME Done(r) PROVE v.pc = "idle" BY <1>2, <1>3, <1>5 DEF Done, Idle
<1>6. CASE ReadRow(r)
  <2>1. Stands(v, jrow, manager, saving)
    <3>1. CASE ~Readable(jreq[r].juke) BY <1>5, <1>6, <3>1, IdleStands DEF ReadRow
    <3>2. CASE Readable(jreq[r].juke) BY <1>2, <1>3, <1>4, <1>6, <3>2 DEF ReadRow, At
    <3> QED BY <3>1, <3>2
  <2> QED BY <1>1, <1>6, <2>1, QuietKeeps DEF ReadRow, UNCHANGED_history, At
<1>7. CASE ReadForMode(r)
  <2>1. Stands(v, jrow, manager, saving)
    <3>1. CASE ~Readable(jreq[r].juke) BY <1>5, <1>7, <3>1, IdleStands DEF ReadForMode
    <3>2. CASE Readable(jreq[r].juke) BY <1>2, <1>3, <1>4, <1>7, <3>2 DEF ReadForMode, At, Playback
    <3> QED BY <3>1, <3>2
  <2> QED BY <1>1, <1>7, <2>1, QuietKeeps DEF ReadForMode, UNCHANGED_history, At
<1>8. ASSUME jreq[r].pc \in {"restore", "act"}
      PROVE  /\ jreq[r].kind \in Playback /\ jreq[r].row \in RowRecord /\ Obj(r) \in Object /\ jreq[r].eng \in Engines
             /\ Obj(r).juke = jreq[r].juke /\ jrow[jreq[r].juke] # Nothing /\ jreq[r].row.map = jrow[jreq[r].juke].map
             /\ manager[jreq[r].juke] = jreq[r].eng
  <2>1. /\ jreq[r].kind \in Playback /\ jreq[r].row \in RowRecord /\ Obj(r) \in Object /\ jreq[r].eng \in Engines BY <1>8, InStep
  <2>2. manager[jreq[r].juke] = jreq[r].eng /\ jreq[r].row.map = jrow[jreq[r].juke].map
    BY <1>8, <2>1 DEF InHand, Stands, EngineStands, RowStands, Reads, Holding
  <2>3. Active(r) BY <1>8 DEF Active
  <2> QED BY <1>3, <2>1, <2>2, <2>3, NoAdmin, Distinct DEF Obj
<1>9. CASE RestoreEngine(r)
  <2> DEFINE o == [Obj(r) EXCEPT !.queue = jreq[r].row.queue, !.playing = FALSE]
  <2>1. jreq[r].pc = "restore" BY <1>9 DEF RestoreEngine, At
  <2>2. jreq[r].row.queue \in QueueIds BY <1>8, <2>1 DEF RowRecord
  <2>3. o \in Object /\ o.juke = jreq[r].juke /\ ~o.playing BY <1>8, <2>1, <2>2 DEF Object
  <2>4. object' = [object EXCEPT ![jreq[r].eng] = o] /\ saving' = Saves(o)
        /\ UNCHANGED <<jrow, device, manager, made, known, overtaken, renamed>>
    BY <1>9 DEF RestoreEngine, Obj, UNCHANGED_history
  <2>5. v = [jreq[r] EXCEPT !.pc = "act"] BY <1>2, <1>3, <1>9 DEF RestoreEngine, JGoto
  <2>6. v.pc = "act" /\ v.kind = jreq[r].kind /\ v.juke = jreq[r].juke /\ v.row = jreq[r].row /\ v.eng = jreq[r].eng
    BY <1>3, <2>5 DEF JukeRequest
  <2>7. jreq[r].row.device = jrow[jreq[r].juke].device BY <1>8, <2>1 DEF InHand, Stands, RowStands, Reads, Holding
  <2>8. Stands(v, jrow, manager, saving')
    BY <1>8, <2>1, <2>6, <2>7 DEF Stands, RowStands, EngineStands, MappingStands, DeviceStands, CreationStands, DeletionStands,
       Playback, Placing
  <2> HIDE DEF o
  <2> QED BY <1>1, <2>1, <2>3, <2>4, <2>8, ActingKeeps
<1>10. CASE Status(r)
  <2> DEFINE o == [Obj(r) EXCEPT !.map = jreq[r].row.map]
  <2>1. jreq[r].pc = "act" BY <1>10 DEF Status, At
  <2>2. jreq[r].row.map \in QueueIds BY <1>8, <2>1 DEF RowRecord
  <2>3. o \in Object /\ o.juke = jreq[r].juke /\ o.map = jrow[jreq[r].juke].map /\ o.queue = Obj(r).queue
    BY <1>8, <2>1, <2>2 DEF Object
  <2>4. object' = [object EXCEPT ![jreq[r].eng] = o] /\ saving' = saving
        /\ UNCHANGED <<jrow, device, manager, made, known, overtaken, renamed>>
    BY <1>10 DEF Status, Obj, UNCHANGED_history
  <2>5. Stands(v, jrow, manager, saving') BY <1>5, <1>10, IdleStands DEF Status
  <2> HIDE DEF o
  <2> QED BY <1>1, <2>1, <2>3, <2>4, <2>5, ActingKeeps DEF Obj
<1>11. CASE PlayTrack(r) \/ StopTrack(r) \/ ChangeQueue(r) \/ EmptyQueue(r) \/ ChangeMode(r)
  <2>1. jreq[r].pc = "act" BY <1>11 DEF PlayTrack, StopTrack, ChangeQueue, EmptyQueue, ChangeMode, Acts, At
  <2>2. Obj(r) \in Object /\ Obj(r).juke = jreq[r].juke /\ jreq[r].n \in QueueIds /\ 0 \in QueueIds
    BY <1>8, <2>1, InStep, Numbers
  <2>3. \A b \in BOOLEAN, n \in QueueIds :
           /\ [Obj(r) EXCEPT !.playing = b] \in Object /\ [Obj(r) EXCEPT !.playing = b].juke = jreq[r].juke
           /\ [Obj(r) EXCEPT !.queue = n] \in Object /\ [Obj(r) EXCEPT !.queue = n].juke = jreq[r].juke
           /\ [Obj(r) EXCEPT !.queue = n, !.playing = b] \in Object /\ [Obj(r) EXCEPT !.queue = n, !.playing = b].juke = jreq[r].juke
    BY <2>2 DEF Object
  <2>4. CASE PlayTrack(r)
    <3> DEFINE o == [Obj(r) EXCEPT !.playing = TRUE]
    <3>1. Acts(r, {"play"}, o, "idle") /\ {"play"} \in SUBSET Playback BY <2>4 DEF PlayTrack, Playback
    <3>2. o \in Object /\ o.juke = jreq[r].juke BY <2>2, <2>3
    <3> HIDE DEF o
    <3> QED BY <3>1, <3>2, ActsKeep
  <2>5. CASE StopTrack(r)
    <3> DEFINE o == [Obj(r) EXCEPT !.playing = FALSE]
    <3>1. Acts(r, {"stop"}, o, "idle") /\ {"stop"} \in SUBSET Playback BY <2>5 DEF StopTrack, Playback
    <3>2. o \in Object /\ o.juke = jreq[r].juke BY <2>2, <2>3
    <3> HIDE DEF o
    <3> QED BY <3>1, <3>2, ActsKeep
  <2>6. CASE ChangeQueue(r)
    <3> DEFINE o == [Obj(r) EXCEPT !.queue = jreq[r].n]
    <3>1. Acts(r, {"queue"}, o, "idle") /\ {"queue"} \in SUBSET Playback BY <2>6 DEF ChangeQueue, Playback
    <3>2. o \in Object /\ o.juke = jreq[r].juke BY <2>2, <2>3
    <3> HIDE DEF o
    <3> QED BY <3>1, <3>2, ActsKeep
  <2>7. CASE EmptyQueue(r)
    <3> DEFINE o == [Obj(r) EXCEPT !.queue = 0, !.playing = FALSE]
    <3>1. Acts(r, {"clear"}, o, "idle") /\ {"clear"} \in SUBSET Playback BY <2>7 DEF EmptyQueue, Playback
    <3>2. o \in Object /\ o.juke = jreq[r].juke BY <2>2, <2>3
    <3> HIDE DEF o
    <3> QED BY <3>1, <3>2, ActsKeep
  <2>8. CASE ChangeMode(r) BY <2>2, <2>8, ActsKeep DEF ChangeMode, Playback
  <2> QED BY <1>11, <2>4, <2>5, <2>6, <2>7, <2>8
<1> QED BY <1>6, <1>7, <1>9, <1>10, <1>11

LEMMA TrackEndsKeeps ==
  ASSUME JukeInv, NEW e \in Engines, TrackEnds(e)
  PROVE  JukeInv'
<1> DEFINE j == object[e].juke
<1> DEFINE x == [juke |-> object[e].juke, queue |-> object[e].queue]
<1> DEFINE o == [object[e] EXCEPT !.playing = FALSE]
<1> USE DEF JukeInv
<1>1. manager \in [Jukes -> Engines \cup {Nothing}] /\ object \in [Engines -> Object] /\ saving \in Seq(SaveRecord)
  BY DEF Types, EngineTypes
<1>2. j \in Jukes /\ manager[j] = e /\ e # Nothing /\ j \in known
  BY <1>1, Distinct DEF TrackEnds, PlayingIsManaged, Object, KnownIds
<1>3. x \in SaveRecord /\ o \in Object /\ o.juke = j /\ o.queue = object[e].queue /\ o.map = object[e].map /\ ~o.playing
  BY <1>1, <1>2 DEF Object, SaveRecord
<1>4. saving' = saving \o <<x>> /\ object' = [object EXCEPT ![e] = o]
      /\ UNCHANGED <<jrow, device, manager, jreq, made, known, overtaken, renamed>>
  BY DEF TrackEnds, Saves, UNCHANGED_history
<1>5. x.juke = j /\ x.queue = object[e].queue OBVIOUS
<1> HIDE DEF x, o
<1>6. /\ saving' \in Seq(SaveRecord)
      /\ \A i \in DOMAIN saving' : saving'[i] = x \/ (i \in DOMAIN saving /\ saving'[i] = saving[i])
  BY <1>1, <1>3, <1>4, Appended
<1>7. \A f \in Engines : object'[f] = IF f = e THEN o ELSE object[f] BY <1>1, <1>4
<1>8. Types' BY <1>1, <1>3, <1>4, <1>6 DEF Types, TableTypes, EngineTypes, RequestsFormed
<1>9. Alone' BY <1>4 DEF Alone, Active
<1>10. InHand'
  <2> SUFFICES ASSUME NEW r \in JukeThreads PROVE Stands(jreq[r], jrow, manager, saving')
    BY <1>4 DEF InHand
  <2>1. Stands(jreq[r], jrow, manager, saving) /\ jreq[r].juke \in Jukes BY InStep DEF InHand
  <2> QED BY <1>2, <1>5, <1>6, <2>1 DEF Stands, RowStands, EngineStands, MappingStands, DeviceStands, CreationStands, DeletionStands
<1>11. KnownIds' BY <1>2, <1>3, <1>4, <1>5, <1>6, <1>7 DEF KnownIds
<1>12. BoundOnce' BY <1>4 DEF BoundOnce
<1>13. \A k, kind, pc : During(k, kind, pc)' <=> During(k, kind, pc) BY <1>4 DEF During
<1>14. \A f \in Engines : object'[f].juke = object[f].juke /\ object'[f].queue = object[f].queue BY <1>3, <1>7
<1>15. EnginesAreTheirs' BY <1>1, <1>4, <1>13, <1>14 DEF EnginesAreTheirs
<1>16. PlayingIsManaged' BY <1>3, <1>4, <1>7, <1>13 DEF PlayingIsManaged
<1>17. ASSUME NEW k \in Jukes PROVE QueueIsKept(k)'
  <2>1. Restoring(k)' <=> Restoring(k) BY <1>4 DEF Restoring
  <2>2. manager[k] # Nothing => object'[manager[k]].queue = object[manager[k]].queue BY <1>1, <1>14
  <2>3. k = j => object[manager[k]].queue = x.queue BY <1>2, <1>5
  <2>4. LastIs(k, object[manager[k]].queue, saving, jrow[k].queue)
           => LastIs(k, object[manager[k]].queue, saving \o <<x>>, jrow[k].queue)
    <3>1. CASE k = j BY <1>1, <1>3, <1>5, <2>3, <3>1, LastAppended
    <3>2. CASE k # j BY <1>1, <1>3, <1>5, <3>2, LastAppended
    <3> QED BY <3>1, <3>2
  <2> QED BY <1>4, <1>13, <2>1, <2>2, <2>4 DEF QueueIsKept
<1> QED BY <1>8, <1>9, <1>10, <1>11, <1>12, <1>15, <1>16, <1>17

LEMMA SaveStateKeeps ==
  ASSUME JukeInv, NEW i \in DOMAIN saving, SaveState(i)
  PROVE  JukeInv'
<1> DEFINE s == saving[i]
<1> USE DEF JukeInv
<1>1. manager \in [Jukes -> Engines \cup {Nothing}] /\ object \in [Engines -> Object] /\ saving \in Seq(SaveRecord)
      /\ jrow \in [Jukes -> RowRecord \cup {Nothing}]
  BY DEF Types, EngineTypes, TableTypes
<1>2. s \in SaveRecord /\ s.juke \in Jukes /\ s.queue \in QueueIds
  <2>1. saving[i] \in SaveRecord BY <1>1
  <2> QED BY <2>1 DEF SaveRecord
<1>3. saving' = RemoveAt(saving, i) /\ UNCHANGED <<device, manager, object, jreq, made, known, renamed>>
      /\ overtaken' \in {overtaken, overtaken \cup {s.juke}}
  BY DEF SaveState
<1>4. /\ saving' \in Seq(SaveRecord) /\ Len(saving) \in Nat /\ DOMAIN saving = 1..Len(saving)
      /\ \A h \in DOMAIN saving' : \E k \in DOMAIN saving : saving'[h] = saving[k]
  <2>1. /\ RemoveAt(saving, i) \in Seq(SaveRecord) /\ Len(saving) \in Nat /\ DOMAIN saving = 1..Len(saving)
        /\ DOMAIN RemoveAt(saving, i) = 1..Len(saving) - 1
        /\ \A h \in 1..Len(saving) - 1 : RemoveAt(saving, i)[h] = IF h < i THEN saving[h] ELSE saving[h + 1]
    BY <1>1, Removed
  <2>2. \A h \in 1..Len(saving) - 1 : h \in DOMAIN saving /\ h + 1 \in DOMAIN saving BY <2>1
  <2> QED BY <1>3, <2>1, <2>2
<1>5. \A k \in Jukes : jrow'[k] = IF k = s.juke /\ jrow[k] # Nothing THEN [jrow[k] EXCEPT !.queue = s.queue] ELSE jrow[k]
  BY <1>1, <1>2 DEF SaveState
<1>6. ASSUME NEW k \in Jukes
      PROVE  /\ jrow'[k] \in RowRecord \cup {Nothing} /\ (jrow'[k] = Nothing <=> jrow[k] = Nothing)
             /\ jrow[k] # Nothing =>
                   /\ jrow'[k].map = jrow[k].map /\ jrow'[k].device = jrow[k].device
                   /\ jrow'[k].queue = IF k = s.juke THEN s.queue ELSE jrow[k].queue
  <2>1. ASSUME NEW w \in RowRecord
        PROVE  /\ [w EXCEPT !.queue = s.queue] \in RowRecord /\ [w EXCEPT !.queue = s.queue].map = w.map
               /\ [w EXCEPT !.queue = s.queue].device = w.device /\ [w EXCEPT !.queue = s.queue].queue = s.queue
    BY <1>2 DEF RowRecord
  <2>2. jrow[k] \in RowRecord \cup {Nothing} BY <1>1
  <2> QED BY <1>5, <2>1, <2>2, Distinct, ZenonT(60)
<1>7. Types'
  <2>1. jrow' \in [Jukes -> RowRecord \cup {Nothing}]
    <3>1. DOMAIN jrow' = Jukes /\ jrow' = [k \in Jukes |-> jrow'[k]] BY <1>1 DEF SaveState
    <3> QED BY <1>6, <3>1
  <2> QED BY <1>2, <1>3, <1>4, <2>1 DEF Types, TableTypes, EngineTypes, RequestsFormed
<1>8. Alone' BY <1>3 DEF Alone, Active
<1>9. InHand'
  <2> SUFFICES ASSUME NEW r \in JukeThreads PROVE Stands(jreq[r], jrow', manager, saving')
    BY <1>3 DEF InHand
  <2>1. Stands(jreq[r], jrow, manager, saving) /\ jreq[r].juke \in Jukes BY InStep DEF InHand
  <2>2. CreationStands(jreq[r], jrow', manager, saving')
    BY <1>4, <1>6, <2>1 DEF Stands, CreationStands
  <2> QED BY <1>6, <2>1, <2>2 DEF Stands, RowStands, EngineStands, MappingStands, DeviceStands, DeletionStands
<1>10. KnownIds' BY <1>3, <1>4, <1>6 DEF KnownIds
<1>11. BoundOnce' BY <1>3, <1>6 DEF BoundOnce
<1>12. \A k, kind, pc : During(k, kind, pc)' <=> During(k, kind, pc) BY <1>3 DEF During
<1>13. EnginesAreTheirs' BY <1>3, <1>6, <1>12 DEF EnginesAreTheirs
<1>14. PlayingIsManaged'
  <2> SUFFICES ASSUME NEW f \in Engines, object[f].playing
               PROVE  /\ object[f].juke # Nothing /\ manager[object[f].juke] = f
                      /\ jrow'[object[f].juke] # Nothing => object[f].map = jrow'[object[f].juke].map
                                                         \/ During(object[f].juke, "settings", "mapping")
    BY <1>3, <1>12 DEF PlayingIsManaged
  <2>1. object[f].juke \in Jukes BY <1>1 DEF PlayingIsManaged, Object
  <2> QED BY <1>6, <2>1 DEF PlayingIsManaged
<1>15. ASSUME NEW k \in Jukes, k \notin overtaken', k \notin renamed, manager[k] # Nothing, jrow[k] # Nothing,
              LastIs(k, object[manager[k]].queue, saving, jrow[k].queue)
       PROVE  LastIs(k, object[manager[k]].queue, saving', jrow'[k].queue)
  <2>1. s.juke = k => \A h \in 1..i - 1 : saving[h].juke = k => saving[h].queue = s.queue
    BY <1>15 DEF SaveState
  <2>2. LastIs(k, object[manager[k]].queue, RemoveAt(saving, i), IF s.juke = k THEN s.queue ELSE jrow[k].queue)
    BY <1>1, <1>15, <2>1, LastRemoved
  <2> QED BY <1>3, <1>6, <1>15, <2>2
<1>16. ASSUME NEW k \in Jukes PROVE QueueIsKept(k)'
  <2>1. Restoring(k)' <=> Restoring(k) BY <1>3 DEF Restoring
  <2>2. overtaken \subseteq overtaken' BY <1>3
  <2> QED BY <1>3, <1>6, <1>12, <1>15, <2>1, <2>2 DEF QueueIsKept
<1> QED BY <1>7, <1>8, <1>9, <1>10, <1>11, <1>13, <1>14, <1>16

-----------------------------------------------------------------------------
(* The steps of the administration.                                        *)

Now(q, j, k, pc) == q.juke = j /\ q.kind = k /\ q.pc = pc
TheirsIf(q) == \A j \in Jukes : manager[j] # Nothing =>
    object[manager[j]].juke = j /\ (jrow[j] # Nothing \/ Now(q, j, "delete", "remove"))
PlayingIf(q) == \A e \in Engines : object[e].playing =>
    /\ object[e].juke \in Jukes /\ manager[object[e].juke] = e
    /\ jrow[object[e].juke] # Nothing =>
           object[e].map = jrow[object[e].juke].map \/ Now(q, object[e].juke, "settings", "mapping")
KeptIf(q, j) == \/ j \in overtaken \cup renamed \/ manager[j] = Nothing \/ jrow[j] = Nothing \/ Now(q, j, "update", "remove")
                \/ LastIs(j, object[manager[j]].queue, saving, jrow[j].queue)

LEMMA AdminFacts ==
  ASSUME JukeInv, NEW r \in JukeThreads, Active(r), jreq[r].kind \in Admin
  PROVE  TheirsIf(jreq[r]) /\ PlayingIf(jreq[r]) /\ \A j \in Jukes : KeptIf(jreq[r], j)
<1> USE DEF JukeInv
<1>1. TheirsIf(jreq[r]) BY AdminIsAlone DEF TheirsIf, EnginesAreTheirs, Now
<1>2. PlayingIf(jreq[r])
  <2> SUFFICES ASSUME NEW e \in Engines, object[e].playing
               PROVE  /\ object[e].juke \in Jukes /\ manager[object[e].juke] = e
                      /\ jrow[object[e].juke] # Nothing =>
                          object[e].map = jrow[object[e].juke].map \/ Now(jreq[r], object[e].juke, "settings", "mapping")
    BY DEF PlayingIf
  <2>1. object[e].juke \in Jukes BY DEF PlayingIsManaged, Types, EngineTypes, Object
  <2> QED BY <2>1, AdminIsAlone DEF PlayingIsManaged, Now
<1>3. \A j \in Jukes : KeptIf(jreq[r], j) BY AdminIsAlone DEF KeptIf, QueueIsKept, Now
<1> QED BY <1>1, <1>2, <1>3

LEMMA AdminKeeps ==
  ASSUME JukeInv, NEW r \in JukeThreads, JukeStep(r), jreq[r].kind \in Admin,
         NEW v, Moves(r, v), EngineTypes', Stands(v, jrow', manager', saving'), KnownIds', BoundOnce',
         TheirsIf(v)', PlayingIf(v)', \A j \in Jukes : KeptIf(v, j)'
  PROVE  JukeInv'
<1>1. Alone' /\ RequestsFormed' BY AloneKept DEF JukeInv
<1>2. Types' BY <1>1, StepTables DEF Types, JukeInv
<1>3. InHand' BY AdminInHand
<1>4. \A j, k, pc : pc # "idle" /\ Now(v, j, k, pc) => During(j, k, pc)' BY AdminInHand DEF Now
<1>5. EnginesAreTheirs'
  <2> SUFFICES ASSUME NEW j \in Jukes, manager'[j] # Nothing
               PROVE  object'[manager'[j]].juke = j /\ (jrow'[j] # Nothing \/ During(j, "delete", "remove")')
    BY DEF EnginesAreTheirs
  <2> QED BY <1>4 DEF TheirsIf, Now
<1>6. PlayingIsManaged'
  <2> SUFFICES ASSUME NEW e \in Engines, object'[e].playing
               PROVE  /\ object'[e].juke # Nothing /\ manager'[object'[e].juke] = e
                      /\ jrow'[object'[e].juke] # Nothing =>
                            object'[e].map = jrow'[object'[e].juke].map \/ During(object[e].juke, "settings", "mapping")'
    BY DEF PlayingIsManaged
  <2>1. object'[e].juke \in Jukes /\ object'[e].juke # Nothing BY Distinct DEF PlayingIf
  <2>2. \A j \in Jukes : Now(v, j, "settings", "mapping") => During(j, "settings", "mapping")' BY <1>4
  <2>3. Now(v, object'[e].juke, "settings", "mapping") => During(object[e].juke, "settings", "mapping")'
    BY <2>1, <2>2
  <2> QED BY <2>1, <2>3 DEF PlayingIf, Now
<1>7. \A j \in Jukes : QueueIsKept(j)'
  <2> SUFFICES ASSUME NEW j \in Jukes PROVE QueueIsKept(j)' OBVIOUS
  <2>1. Now(v, j, "update", "remove") => During(j, "update", "remove")' BY <1>4
  <2> QED BY <2>1 DEF KeptIf, QueueIsKept, Now
<1> QED BY <1>1, <1>2, <1>3, <1>5, <1>6, <1>7 DEF JukeInv

LEMMA PlacingKeeps ==
  ASSUME JukeInv, NEW r \in JukeThreads, NEW d \in Devices, CreateJukebox(r, d) \/ CheckUnbound(r, d)
  PROVE  JukeInv'
<1> USE DEF JukeInv
<1>0. JukeStep(r) BY DEF JukeStep
<1>1. PICK v : Moves(r, v) BY <1>0, StepMoves
<1>2. RequestsFormed' /\ jreq'[r] = v BY <1>1, AloneKept
<1>3. jreq[r] \in JukeRequest /\ jreq \in [JukeThreads -> JukeRequest] BY DEF Types, RequestsFormed
<1>4. Stands(v, jrow, manager, saving)
  <2>1. CASE Done(r)
    <3>1. v.pc = "idle" BY <1>2, <1>3, <2>1 DEF Done, Idle
    <3> QED BY <3>1, IdleStands
  <2>2. CASE ~Done(r)
    <3>1. BoundTo(d) = {} /\ \E pc \in {"insert", "drop"} :
             v = [jreq[r] EXCEPT !.row = [device |-> d, queue |-> 0, map |-> 0], !.pc = pc]
      BY <1>2, <1>3, <2>2 DEF CreateJukebox, CheckUnbound
    <3>2. v.row = [device |-> d, queue |-> 0, map |-> 0] /\ v.kind = jreq[r].kind /\ v.kind \in {"create", "undevice"}
          /\ v.pc \in {"insert", "drop"}
      BY <1>3, <3>1 DEF JukeRequest, CreateJukebox, CheckUnbound, At
    <3>3. \A j \in Jukes : jrow[j] # Nothing => jrow[j].device # v.row.device BY <3>1, <3>2 DEF BoundTo
    <3> QED BY <3>2, <3>3 DEF Stands, RowStands, EngineStands, MappingStands, DeviceStands, CreationStands, DeletionStands,
            Reads, Playback, Holding
  <2> QED BY <2>1, <2>2
<1>5. UNCHANGED <<jrow, device, manager, object, saving, made, known, overtaken, renamed>>
      /\ jreq[r].pc \notin {"restore", "remove", "mapping"}
  BY DEF CreateJukebox, CheckUnbound, UNCHANGED_history, At
<1> QED BY <1>1, <1>4, <1>5, QuietKeeps

LEMMA UpdateRowKeeps ==
  ASSUME JukeInv, NEW r \in JukeThreads, UpdateRow(r)
  PROVE  JukeInv'
<1> DEFINE j == jreq[r].juke
<1> USE DEF JukeInv
<1>0. JukeStep(r) BY DEF JukeStep
<1>1. PICK v : Moves(r, v) BY <1>0, StepMoves
<1>2. RequestsFormed' /\ jreq'[r] = v BY <1>1, AloneKept
<1>3. jreq[r] \in JukeRequest /\ jreq \in [JukeThreads -> JukeRequest] /\ j \in Jukes BY DEF Types, RequestsFormed, JukeRequest
<1>4. jreq[r].kind = "update" /\ jreq[r].pc = "write" /\ jreq[r].kind \in Admin /\ Active(r) /\ jreq[r].row \in RowRecord
  BY InStep DEF UpdateRow, At, Active, Admin, Kinds, Playback, HasRow
<1>5. v.kind = "update" /\ v.pc = "remove" /\ v.juke = j /\ v.row = jreq[r].row
  BY <1>2, <1>3, <1>4 DEF UpdateRow, JGoto, JukeRequest
<1>6. jrow[j] # Nothing /\ jreq[r].row.map = jrow[j].map /\ jreq[r].row.device = jrow[j].device
  BY <1>4 DEF InHand, Stands, RowStands, Reads
<1>7. UNCHANGED <<device, manager, object, saving, made, known, overtaken, renamed>> BY DEF UpdateRow, UNCHANGED_history
<1>8. \A k \in Jukes : jrow'[k] = IF k = j THEN jreq[r].row ELSE jrow[k] BY <1>3, <1>6 DEF UpdateRow, Types, TableTypes
<1>9. \A k \in Jukes : (jrow'[k] = Nothing <=> jrow[k] = Nothing)
                       /\ (jrow[k] # Nothing => jrow'[k].map = jrow[k].map /\ jrow'[k].device = jrow[k].device)
  BY <1>4, <1>6, <1>8, Distinct
<1>10. Stands(v, jrow', manager', saving')
  BY <1>3, <1>4, <1>5, <1>6, <1>9 DEF Stands, RowStands, EngineStands, MappingStands, DeviceStands, CreationStands, DeletionStands,
     Reads, Playback, Placing
<1>11. EngineTypes' BY <1>7 DEF Types, EngineTypes
<1>12. KnownIds' BY <1>7, <1>9 DEF KnownIds
<1>13. BoundOnce' BY <1>7, <1>9 DEF BoundOnce
<1>14. TheirsIf(v)' BY <1>4, <1>7, <1>9, AdminFacts DEF TheirsIf, Now
<1>15. PlayingIf(v)' BY <1>4, <1>7, <1>9, AdminFacts DEF PlayingIf, Now
<1>16. \A k \in Jukes : KeptIf(v, k)'
  BY <1>4, <1>5, <1>7, <1>8, <1>9, AdminFacts DEF KeptIf, Now
<1> QED BY <1>0, <1>1, <1>4, <1>10, <1>11, <1>12, <1>13, <1>14, <1>15, <1>16, AdminKeeps

LEMMA DeleteJukeboxKeeps ==
  ASSUME JukeInv, NEW r \in JukeThreads, DeleteJukebox(r)
  PROVE  JukeInv'
<1> DEFINE j == jreq[r].juke
<1> USE DEF JukeInv
<1>0. JukeStep(r) BY DEF JukeStep
<1>1. PICK v : Moves(r, v) BY <1>0, StepMoves
<1>2. RequestsFormed' /\ jreq'[r] = v BY <1>1, AloneKept
<1>3. jreq[r] \in JukeRequest /\ jreq \in [JukeThreads -> JukeRequest] /\ j \in Jukes BY DEF Types, RequestsFormed, JukeRequest
<1>4. jreq[r].kind = "delete" /\ jreq[r].pc = "drop" /\ jreq[r].kind \in Admin /\ Active(r)
  BY DEF DeleteJukebox, At, Active, Admin, Kinds, Playback
<1>5. v.kind = "delete" /\ v.pc = "remove" /\ v.juke = j
  BY <1>2, <1>3, <1>4 DEF DeleteJukebox, JGoto, JukeRequest
<1>6. UNCHANGED <<device, manager, object, saving, made, known, overtaken, renamed>> BY DEF DeleteJukebox, UNCHANGED_history
<1>7. \A k \in Jukes : jrow'[k] = IF k = j THEN Nothing ELSE jrow[k] BY <1>3 DEF DeleteJukebox, Types, TableTypes
<1>8. Stands(v, jrow', manager', saving')
  BY <1>3, <1>5, <1>7 DEF Stands, RowStands, EngineStands, MappingStands, DeviceStands, CreationStands, DeletionStands,
     Reads, Playback, Placing
<1>9. EngineTypes' BY <1>6 DEF Types, EngineTypes
<1>10. KnownIds' BY <1>6, <1>7 DEF KnownIds
<1>11. BoundOnce' BY <1>6, <1>7 DEF BoundOnce
<1>12. TheirsIf(v)' BY <1>4, <1>5, <1>6, <1>7, AdminFacts DEF TheirsIf, Now
<1>13. PlayingIf(v)' BY <1>4, <1>6, <1>7, AdminFacts DEF PlayingIf, Now
<1>14. \A k \in Jukes : KeptIf(v, k)' BY <1>4, <1>6, <1>7, AdminFacts DEF KeptIf, Now
<1> QED BY <1>0, <1>1, <1>4, <1>8, <1>9, <1>10, <1>11, <1>12, <1>13, <1>14, AdminKeeps

LEMMA WriteSettingsKeeps ==
  ASSUME JukeInv, NEW r \in JukeThreads, WriteSettings(r)
  PROVE  JukeInv'
<1> DEFINE j == jreq[r].juke
<1> USE DEF JukeInv
<1>0. JukeStep(r) BY DEF JukeStep
<1>1. PICK v : Moves(r, v) BY <1>0, StepMoves
<1>2. RequestsFormed' /\ jreq'[r] = v BY <1>1, AloneKept
<1>3. jreq[r] \in JukeRequest /\ jreq \in [JukeThreads -> JukeRequest] /\ j \in Jukes /\ jreq[r].n \in QueueIds
  BY DEF Types, RequestsFormed, JukeRequest
<1>4. jreq[r].kind = "settings" /\ jreq[r].pc = "write" /\ jreq[r].kind \in Admin /\ Active(r)
  BY DEF WriteSettings, At, Active, Admin, Kinds, Playback
<1>5. v.kind = "settings" /\ v.pc = "mapping" /\ v.juke = j /\ v.n = jreq[r].n
  BY <1>2, <1>3, <1>4 DEF WriteSettings, JGoto, JukeRequest
<1>6. UNCHANGED <<device, manager, object, saving, made, known, overtaken, renamed>> BY DEF WriteSettings, UNCHANGED_history
<1>7. \A k \in Jukes : jrow'[k] = IF k = j /\ jrow[k] # Nothing THEN [jrow[k] EXCEPT !.map = jreq[r].n] ELSE jrow[k]
  BY <1>3 DEF WriteSettings, Types, TableTypes
<1>8. ASSUME NEW k \in Jukes
      PROVE  /\ jrow'[k] = Nothing <=> jrow[k] = Nothing
             /\ jrow[k] # Nothing => /\ jrow'[k].device = jrow[k].device /\ jrow'[k].queue = jrow[k].queue
                                     /\ jrow'[k].map = IF k = j THEN jreq[r].n ELSE jrow[k].map
  <2>1. ASSUME NEW w \in RowRecord
        PROVE  /\ [w EXCEPT !.map = jreq[r].n] \in RowRecord /\ [w EXCEPT !.map = jreq[r].n].queue = w.queue
               /\ [w EXCEPT !.map = jreq[r].n].device = w.device /\ [w EXCEPT !.map = jreq[r].n].map = jreq[r].n
    BY <1>3 DEF RowRecord
  <2>2. jrow[k] \in RowRecord \cup {Nothing} BY DEF Types, TableTypes
  <2> QED BY <1>7, <2>1, <2>2, Distinct, ZenonT(60)
<1>9. Stands(v, jrow', manager', saving')
  BY <1>3, <1>5, <1>8 DEF Stands, RowStands, EngineStands, MappingStands, DeviceStands, CreationStands, DeletionStands,
     Reads, Playback, Placing
<1>10. EngineTypes' BY <1>6 DEF Types, EngineTypes
<1>11. KnownIds' BY <1>6, <1>8 DEF KnownIds
<1>12. BoundOnce' BY <1>6, <1>8 DEF BoundOnce
<1>13. TheirsIf(v)' BY <1>4, <1>6, <1>8, AdminFacts DEF TheirsIf, Now
<1>14. PlayingIf(v)' BY <1>4, <1>5, <1>6, <1>8, AdminFacts DEF PlayingIf, Now
<1>15. \A k \in Jukes : KeptIf(v, k)' BY <1>4, <1>6, <1>8, AdminFacts DEF KeptIf, Now
<1> QED BY <1>0, <1>1, <1>4, <1>9, <1>10, <1>11, <1>12, <1>13, <1>14, <1>15, AdminKeeps

LEMMA ApplySettingsKeeps ==
  ASSUME JukeInv, NEW r \in JukeThreads, ApplySettings(r)
  PROVE  JukeInv'
<1> DEFINE j == jreq[r].juke
<1> DEFINE e == manager[j]
<1> USE DEF JukeInv
<1>0. JukeStep(r) BY DEF JukeStep
<1>1. PICK v : Moves(r, v) BY <1>0, StepMoves
<1>2. RequestsFormed' /\ jreq'[r] = v BY <1>1, AloneKept
<1>3. /\ jreq[r] \in JukeRequest /\ jreq \in [JukeThreads -> JukeRequest] /\ j \in Jukes /\ jreq[r].n \in QueueIds
      /\ manager \in [Jukes -> Engines \cup {Nothing}] /\ object \in [Engines -> Object]
  BY DEF Types, RequestsFormed, JukeRequest, EngineTypes
<1>4. jreq[r].kind = "settings" /\ jreq[r].pc = "mapping" /\ jreq[r].kind \in Admin /\ Active(r)
  BY DEF ApplySettings, At, Active, Admin, Kinds, Playback
<1>5. v.pc = "idle" BY <1>2, <1>3 DEF ApplySettings, Done, Idle
<1>6. UNCHANGED <<jrow, device, manager, saving, made, known, overtaken, renamed>> BY DEF ApplySettings, UNCHANGED_history
<1>7. ASSUME NEW f \in Engines
      PROVE  /\ object'[f] \in Object /\ object'[f].juke = object[f].juke /\ object'[f].queue = object[f].queue
             /\ object'[f].playing = object[f].playing
             /\ object'[f].map = IF f = e THEN jreq[r].n ELSE object[f].map
  BY <1>3, Distinct DEF ApplySettings, Object
<1>8. EngineTypes'
  <2>1. DOMAIN object' = Engines /\ object' = [f \in Engines |-> object'[f]] BY <1>3 DEF ApplySettings
  <2>2. object' \in [Engines -> Object] BY <1>7, <2>1
  <2> QED BY <1>6, <2>2 DEF Types, EngineTypes
<1>9. KnownIds' BY <1>6, <1>7 DEF KnownIds
<1>10. BoundOnce' BY <1>6 DEF BoundOnce
<1>11. TheirsIf(v)' BY <1>3, <1>4, <1>6, <1>7, AdminFacts DEF TheirsIf, Now
<1>12. PlayingIf(v)'
  <2> SUFFICES ASSUME NEW f \in Engines, object[f].playing
               PROVE  /\ object[f].juke \in Jukes /\ manager[object[f].juke] = f
                      /\ jrow[object[f].juke] # Nothing => object'[f].map = jrow[object[f].juke].map
    BY <1>6, <1>7 DEF PlayingIf
  <2>1. object[f].juke \in Jukes /\ manager[object[f].juke] = f BY <1>4, AdminFacts DEF PlayingIf
  <2>2. CASE object[f].juke = j
    <3>1. jrow[j] # Nothing => jrow[j].map = jreq[r].n BY <1>4 DEF InHand, Stands, MappingStands
    <3> QED BY <1>7, <2>1, <2>2, <3>1
  <2>3. CASE object[f].juke # j
    <3>1. f # e \/ e = Nothing BY <1>4, <2>1, <2>3, <1>3, AdminFacts DEF TheirsIf
    <3> QED BY <1>4, <1>7, <2>1, <2>3, <3>1, Distinct, AdminFacts DEF PlayingIf, Now
  <2> QED BY <2>2, <2>3
<1>13. \A k \in Jukes : KeptIf(v, k)' BY <1>3, <1>4, <1>6, <1>7, AdminFacts DEF KeptIf, Now
<1> QED BY <1>0, <1>1, <1>4, <1>5, <1>8, <1>9, <1>10, <1>11, <1>12, <1>13, AdminKeeps, IdleStands

LEMMA RemoveEngineKeeps ==
  ASSUME JukeInv, NEW r \in JukeThreads, RemoveEngine(r)
  PROVE  JukeInv'
<1> DEFINE j == jreq[r].juke
<1> DEFINE e == manager[j]
<1> DEFINE x == [juke |-> object[e].juke, queue |-> object[e].queue]
<1> USE DEF JukeInv
<1>0. JukeStep(r) BY DEF JukeStep
<1>1. PICK v : Moves(r, v) BY <1>0, StepMoves
<1>2. RequestsFormed' /\ jreq'[r] = v BY <1>1, AloneKept
<1>3. /\ jreq[r] \in JukeRequest /\ jreq \in [JukeThreads -> JukeRequest] /\ j \in Jukes
      /\ manager \in [Jukes -> Engines \cup {Nothing}] /\ object \in [Engines -> Object] /\ saving \in Seq(SaveRecord)
  BY DEF Types, RequestsFormed, JukeRequest, EngineTypes
<1>4. jreq[r].kind \in {"update", "delete"} /\ jreq[r].pc = "remove" /\ jreq[r].kind \in Admin /\ Active(r)
  BY DEF RemoveEngine, At, Active, Admin, Kinds, Playback
<1>5. v.pc = "idle" \/ (v.kind = "update" /\ v.pc = "engine" /\ v.juke = j /\ v.row = jreq[r].row /\ jreq[r].kind = "update")
  BY <1>2, <1>3, <1>4 DEF RemoveEngine, JGoto, Done, Idle, JukeRequest
<1>6. UNCHANGED <<jrow, device, made, known, overtaken, renamed>> BY DEF RemoveEngine, UNCHANGED_history
<1>7. e # Nothing => object[e].juke = j /\ e \in Engines /\ j \in known /\ x \in SaveRecord /\ x.juke = j
  <2>1. e # Nothing => object[e].juke = j BY <1>3, <1>4, AdminFacts DEF TheirsIf
  <2>2. e # Nothing => e \in Engines /\ object[e] \in Object BY <1>3
  <2> QED BY <1>3, <2>1, <2>2, Distinct DEF KnownIds, Object, SaveRecord
<1>8. \A k \in Jukes : manager'[k] = IF k = j THEN Nothing ELSE manager[k] BY <1>3 DEF RemoveEngine
<1>9. ASSUME NEW f \in Engines
      PROVE  /\ object'[f] \in Object /\ object'[f].juke = object[f].juke /\ object'[f].queue = object[f].queue
             /\ object'[f].map = object[f].map
             /\ object'[f].playing <=> (object[f].playing /\ f # e)
  <2>1. object[f] \in Object BY <1>3
  <2>2. CASE e = Nothing BY <2>1, <2>2, Distinct DEF RemoveEngine
  <2>3. CASE e # Nothing
    <3>1. object'[f] = IF f = e THEN [object[f] EXCEPT !.playing = FALSE] ELSE object[f] BY <1>3, <2>3 DEF RemoveEngine
    <3>2. ~[object[f] EXCEPT !.playing = FALSE].playing BY <2>1 DEF Object
    <3> QED BY <2>1, <3>1, <3>2 DEF Object
  <2> QED BY <2>2, <2>3
<1>10. saving' = IF e = Nothing THEN saving ELSE saving \o <<x>> BY DEF RemoveEngine, Saves
<1> HIDE DEF x
<1>11. /\ saving' \in Seq(SaveRecord)
       /\ \A i \in DOMAIN saving' : (e # Nothing /\ saving'[i] = x) \/ (i \in DOMAIN saving /\ saving'[i] = saving[i])
  <2>1. CASE e = Nothing BY <1>3, <1>10, <2>1
  <2>2. CASE e # Nothing BY <1>3, <1>7, <1>10, <2>2, Appended
  <2> QED BY <2>1, <2>2
<1>12. EngineTypes'
  <2>1. DOMAIN object' = Engines /\ object' = [f \in Engines |-> object'[f]] BY <1>3 DEF RemoveEngine
  <2>2. object' \in [Engines -> Object] BY <1>9, <2>1
  <2>3. manager' \in [Jukes -> Engines \cup {Nothing}] BY <1>3 DEF RemoveEngine
  <2> QED BY <1>11, <2>2, <2>3 DEF EngineTypes
<1>13. Stands(v, jrow', manager', saving')
  <2>1. jreq[r].kind = "update" => RowStands(jreq[r], jrow) BY <1>4 DEF InHand, Stands
  <2>2. CASE v.pc = "idle" BY <2>2, IdleStands
  <2>3. CASE v.pc # "idle"
    BY <1>3, <1>4, <1>5, <1>6, <1>8, <2>1, <2>3 DEF Stands, RowStands, EngineStands, MappingStands, DeviceStands, CreationStands,
       DeletionStands, Reads, Playback, Placing
  <2> QED BY <2>2, <2>3
<1>14. KnownIds' BY <1>6, <1>7, <1>9, <1>11 DEF KnownIds
<1>15. BoundOnce' BY <1>6 DEF BoundOnce
<1>16. TheirsIf(v)'
  <2> SUFFICES ASSUME NEW k \in Jukes, manager'[k] # Nothing
               PROVE  object'[manager'[k]].juke = k /\ jrow'[k] # Nothing BY DEF TheirsIf
  <2>1. k # j /\ manager'[k] = manager[k] /\ manager[k] \in Engines BY <1>3, <1>8
  <2> QED BY <1>4, <1>6, <1>9, <2>1, AdminFacts DEF TheirsIf, Now
<1>17. PlayingIf(v)'
  <2> SUFFICES ASSUME NEW f \in Engines, object'[f].playing
               PROVE  /\ object[f].juke \in Jukes /\ manager'[object[f].juke] = f
                      /\ jrow[object[f].juke] # Nothing => object[f].map = jrow[object[f].juke].map
    BY <1>6, <1>9 DEF PlayingIf
  <2>1. object[f].playing /\ f # e BY <1>9
  <2>2. /\ object[f].juke \in Jukes /\ manager[object[f].juke] = f
        /\ jrow[object[f].juke] # Nothing => object[f].map = jrow[object[f].juke].map
    BY <1>4, <2>1, AdminFacts DEF PlayingIf, Now
  <2> QED BY <1>8, <2>1, <2>2
<1>18. ASSUME NEW k \in Jukes PROVE KeptIf(v, k)'
  <2>1. CASE k = j BY <1>3, <1>8, <2>1 DEF KeptIf
  <2>2. CASE k # j
    <3>1. manager'[k] = manager[k] /\ manager[k] \in Engines \cup {Nothing} BY <1>3, <1>8, <2>2
    <3>2. \/ k \in overtaken \cup renamed \/ manager[k] = Nothing \/ jrow[k] = Nothing
          \/ LastIs(k, object[manager[k]].queue, saving, jrow[k].queue)
      BY <1>4, <2>2, AdminFacts DEF KeptIf, Now
    <3>3. LastIs(k, object[manager[k]].queue, saving, jrow[k].queue) => LastIs(k, object[manager[k]].queue, saving', jrow[k].queue)
      BY <1>3, <1>7, <1>10, <2>2, LastAppended
    <3> QED BY <1>6, <1>9, <3>1, <3>2, <3>3 DEF KeptIf
  <2> QED BY <2>1, <2>2
<1> QED BY <1>0, <1>1, <1>4, <1>12, <1>13, <1>14, <1>15, <1>16, <1>17, <1>18, AdminKeeps

LEMMA DropDeviceKeeps ==
  ASSUME JukeInv, NEW r \in JukeThreads, NEW d \in Devices, DropDevice(r, d)
  PROVE  JukeInv'
<1> USE DEF JukeInv
<1>0. JukeStep(r) BY DEF JukeStep
<1>1. PICK v : Moves(r, v) BY <1>0, StepMoves
<1>2. RequestsFormed' /\ jreq'[r] = v BY <1>1, AloneKept
<1>3. jreq[r] \in JukeRequest /\ jreq \in [JukeThreads -> JukeRequest] /\ jreq[r].juke \in Jukes
  BY DEF Types, RequestsFormed, JukeRequest
<1>4. jreq[r].kind = "undevice" /\ jreq[r].pc = "drop" /\ jreq[r].kind \in Admin /\ Active(r) /\ d = jreq[r].row.device
  BY DEF DropDevice, At, Active, Admin, Kinds, Playback
<1>5. v.pc = "idle" BY <1>2, <1>3 DEF DropDevice, Done, Idle
<1>6. \A k \in Jukes : jrow[k] # Nothing => jrow[k].device # d
  BY <1>4 DEF InHand, Stands, DeviceStands, Placing
<1>7. UNCHANGED <<manager, object, saving, made, known, overtaken, renamed>> /\ device' = device \ {d}
  BY DEF DropDevice, UNCHANGED_history
<1>8. \A k \in Jukes : jrow'[k] = jrow[k] BY <1>6 DEF DropDevice, BoundTo
<1>9. EngineTypes' BY <1>7 DEF Types, EngineTypes
<1>10. KnownIds' BY <1>7, <1>8 DEF KnownIds
<1>11. BoundOnce' BY <1>6, <1>7, <1>8 DEF BoundOnce
<1>12. TheirsIf(v)' BY <1>4, <1>7, <1>8, AdminFacts DEF TheirsIf, Now
<1>13. PlayingIf(v)' BY <1>4, <1>7, <1>8, AdminFacts DEF PlayingIf, Now
<1>14. \A k \in Jukes : KeptIf(v, k)' BY <1>4, <1>7, <1>8, AdminFacts DEF KeptIf, Now
<1> QED BY <1>0, <1>1, <1>4, <1>5, <1>9, <1>10, <1>11, <1>12, <1>13, <1>14, AdminKeeps, IdleStands

LEMMA InsertJukeboxKeeps ==
  ASSUME JukeInv, NEW r \in JukeThreads, InsertJukebox(r)
  PROVE  JukeInv'
<1> DEFINE j == jreq[r].juke
<1> DEFINE w == jreq[r].row
<1> USE DEF JukeInv
<1>0. JukeStep(r) BY DEF JukeStep
<1>1. PICK v : Moves(r, v) BY <1>0, StepMoves
<1>2. RequestsFormed' /\ jreq'[r] = v BY <1>1, AloneKept
<1>3. /\ jreq[r] \in JukeRequest /\ jreq \in [JukeThreads -> JukeRequest] /\ j \in Jukes
      /\ manager \in [Jukes -> Engines \cup {Nothing}] /\ object \in [Engines -> Object]
      /\ jrow \in [Jukes -> RowRecord \cup {Nothing}]
  BY DEF Types, RequestsFormed, JukeRequest, EngineTypes, TableTypes
<1>4. jreq[r].kind = "create" /\ jreq[r].pc = "insert" /\ jreq[r].kind \in Admin /\ Active(r)
  BY DEF InsertJukebox, At, Active, Admin, Kinds, Playback
<1>5. w \in RowRecord /\ w # Nothing /\ w.queue = 0
  BY <1>4, InStep, Distinct DEF HasRow, Formed
<1>6. UNCHANGED <<device, manager, object, saving, made, overtaken, renamed>> BY DEF InsertJukebox
<1>7. CASE ~(w.device \in device /\ j \notin known)
  <2>1. v.pc = "idle" /\ UNCHANGED <<jrow, known>> BY <1>2, <1>3, <1>7 DEF InsertJukebox, Done, Idle
  <2> QED BY <1>1, <1>4, <1>6, <2>1, IdleStands, QuietKeeps
<1>8. CASE w.device \in device /\ j \notin known
  <2>1. v.kind = "create" /\ v.pc = "engine" /\ v.juke = j
    BY <1>2, <1>3, <1>4, <1>8 DEF InsertJukebox, JGoto, JukeRequest
  <2>2. known' = known \cup {j} /\ \A k \in Jukes : jrow'[k] = IF k = j THEN w ELSE jrow[k]
    BY <1>3, <1>8 DEF InsertJukebox
  <2>3. jrow[j] = Nothing /\ (\A i \in DOMAIN saving : saving[i].juke # j) /\ \A f \in Engines : object[f].juke # j
    BY <1>3, <1>8, Distinct DEF KnownIds
  <2>4. manager[j] = Nothing BY <1>3, <2>3 DEF EnginesAreTheirs
  <2>5. \A k \in Jukes : jrow[k] # Nothing => jrow[k].device # w.device
    BY <1>4 DEF InHand, Stands, DeviceStands, Placing
  <2>6. Stands(v, jrow', manager', saving')
    BY <1>3, <1>5, <1>6, <2>1, <2>2, <2>3, <2>4 DEF Stands, RowStands, EngineStands, MappingStands, DeviceStands, CreationStands,
       DeletionStands, Reads, Playback, Placing
  <2>7. EngineTypes' BY <1>6 DEF Types, EngineTypes
  <2>8. KnownIds' BY <1>6, <2>2 DEF KnownIds
  <2>9. BoundOnce' BY <1>6, <1>8, <2>2, <2>5 DEF BoundOnce
  <2>10. TheirsIf(v)' BY <1>4, <1>6, <2>2, <2>4, AdminFacts DEF TheirsIf, Now
  <2>11. PlayingIf(v)' BY <1>4, <1>6, <2>2, <2>3, AdminFacts DEF PlayingIf, Now
  <2>12. \A k \in Jukes : KeptIf(v, k)' BY <1>4, <1>6, <2>2, <2>4, AdminFacts DEF KeptIf, Now
  <2> QED BY <1>0, <1>1, <1>4, <2>6, <2>7, <2>8, <2>9, <2>10, <2>11, <2>12, AdminKeeps
<1> QED BY <1>7, <1>8

LEMMA FreshEngineKeeps ==
  ASSUME JukeInv, NEW r \in JukeThreads, NEW e \in Engines, FreshEngine(r, e)
  PROVE  JukeInv'
<1> DEFINE j == jreq[r].juke
<1> USE DEF JukeInv
<1>0. JukeStep(r) BY DEF JukeStep
<1>1. PICK v : Moves(r, v) BY <1>0, StepMoves
<1>2. RequestsFormed' /\ jreq'[r] = v BY <1>1, AloneKept
<1>3. /\ jreq[r] \in JukeRequest /\ jreq \in [JukeThreads -> JukeRequest] /\ j \in Jukes
      /\ manager \in [Jukes -> Engines \cup {Nothing}] /\ object \in [Engines -> Object] /\ saving \in Seq(SaveRecord)
  BY DEF Types, RequestsFormed, JukeRequest, EngineTypes
<1>4. jreq[r].kind \in {"update", "create"} /\ jreq[r].pc = "engine" /\ jreq[r].kind \in Admin /\ Active(r)
  BY DEF FreshEngine, At, Active, Admin, Kinds, Playback
<1>5. /\ manager[j] = Nothing /\ jrow[j] # Nothing
      /\ jreq[r].kind = "create" => jrow[j].queue = 0 /\ \A i \in DOMAIN saving : saving[i].juke # j
  BY <1>4 DEF InHand, Stands, RowStands, EngineStands, CreationStands, Reads
<1>6. UNCHANGED <<jrow, device, saving, made, known, overtaken>> /\ renamed \subseteq renamed'
      /\ (jreq[r].kind = "update" => j \in renamed') BY DEF FreshEngine
<1>7. /\ \A k \in Jukes : manager[k] # e
      /\ manager' = [manager EXCEPT ![j] = e] /\ object' = [object EXCEPT ![e] = [Unused EXCEPT !.juke = j]]
      /\ jreq' = [jreq EXCEPT ![r] = Idle(j)]
  BY <1>5 DEF FreshEngine, GetOrCreate
<1>8. v.pc = "idle" BY <1>2, <1>3, <1>7 DEF Idle
<1>9. \A k \in Jukes : manager'[k] = IF k = j THEN e ELSE manager[k] BY <1>3, <1>7
<1>10. /\ \A f \in Engines : f # e => object'[f] = object[f]
       /\ object'[e].juke = j /\ object'[e].queue = 0 /\ ~object'[e].playing /\ object'[e] \in Object
  <2>1. object'[e] = [Unused EXCEPT !.juke = j] BY <1>3, <1>7
  <2> QED BY <1>3, <1>7, <2>1, Numbers DEF Unused, Object
<1>11. EngineTypes'
  <2>1. object' \in [Engines -> Object] BY <1>3, <1>7, <1>10
  <2> QED BY <1>3, <1>6, <1>7, <2>1 DEF EngineTypes
<1>12. KnownIds' BY <1>3, <1>5, <1>6, <1>10 DEF KnownIds
<1>13. BoundOnce' BY <1>6 DEF BoundOnce
<1>14. TheirsIf(v)'
  <2> SUFFICES ASSUME NEW k \in Jukes, manager'[k] # Nothing
               PROVE  object'[manager'[k]].juke = k /\ jrow'[k] # Nothing BY DEF TheirsIf
  <2>1. CASE k = j BY <1>5, <1>6, <1>9, <1>10, <2>1
  <2>2. CASE k # j
    <3>1. manager'[k] = manager[k] /\ manager[k] \in Engines /\ manager[k] # e BY <1>3, <1>7, <1>9, <2>2
    <3> QED BY <1>4, <1>6, <1>10, <3>1, AdminFacts DEF TheirsIf, Now
  <2> QED BY <2>1, <2>2
<1>15. PlayingIf(v)'
  <2> SUFFICES ASSUME NEW f \in Engines, object'[f].playing
               PROVE  /\ object'[f].juke \in Jukes /\ manager'[object'[f].juke] = f
                      /\ jrow[object'[f].juke] # Nothing => object'[f].map = jrow[object'[f].juke].map
    BY <1>6 DEF PlayingIf
  <2>1. f # e /\ object'[f] = object[f] BY <1>10
  <2>2. /\ object[f].juke \in Jukes /\ manager[object[f].juke] = f
        /\ jrow[object[f].juke] # Nothing => object[f].map = jrow[object[f].juke].map
    BY <1>4, <2>1, AdminFacts DEF PlayingIf, Now
  <2>3. object[f].juke # j BY <1>5, <2>2, Distinct
  <2> QED BY <1>9, <2>1, <2>2, <2>3
<1>16. ASSUME NEW k \in Jukes PROVE KeptIf(v, k)'
  <2>1. CASE k = j
    <3>1. CASE jreq[r].kind = "update" BY <1>6, <2>1, <3>1 DEF KeptIf
    <3>2. CASE jreq[r].kind = "create"
      <4>1. manager'[j] = e /\ object'[e].queue = 0 BY <1>3, <1>9, <1>10
      <4>2. LastIs(j, 0, saving', jrow'[j].queue) BY <1>5, <1>6, <3>2 DEF LastIs
      <4> QED BY <2>1, <4>1, <4>2 DEF KeptIf
    <3> QED BY <1>4, <3>1, <3>2
  <2>2. CASE k # j
    <3>1. manager'[k] = manager[k] /\ manager[k] # e /\ manager[k] \in Engines \cup {Nothing} BY <1>3, <1>7, <1>9, <2>2
    <3> QED BY <1>4, <1>6, <1>10, <2>2, <3>1, AdminFacts DEF KeptIf, Now
  <2> QED BY <2>1, <2>2
<1> QED BY <1>0, <1>1, <1>4, <1>8, <1>11, <1>12, <1>13, <1>14, <1>15, <1>16, AdminKeeps, IdleStands

-----------------------------------------------------------------------------
(* A new request, all steps, the theorem.                                  *)

LEMMA RequestKeeps ==
  ASSUME AdminAlone, JukeInv, NEW r \in JukeThreads, NEW k \in Kinds, NEW j \in Jukes, Request(r, k, j)
  PROVE  JukeInv'
<1> DEFINE pc == CASE k \in {"create", "undevice"} -> "bound"
                   [] k = "delete" -> "drop"
                   [] k = "settings" -> "write"
                   [] OTHER -> "read"
<1> DEFINE v == [pc |-> pc, kind |-> k, juke |-> j, n |-> made + 1, eng |-> Nothing, row |-> Nothing]
<1> USE DEF JukeInv
<1>1. /\ jreq \in [JukeThreads -> JukeRequest] /\ made \in 0..MaxJukeRequests /\ made < MaxJukeRequests
      /\ jreq[r].pc = "idle"
  BY DEF Types, TableTypes, RequestsFormed, Request
<1>2. made + 1 \in 0..MaxJukeRequests /\ made + 1 \in QueueIds BY <1>1, JukeConstants, Numbers
<1>3. jreq' = [jreq EXCEPT ![r] = v]
  <2> DEFINE record(p, kind, n) == [pc |-> p, kind |-> kind, juke |-> j, n |-> n, eng |-> Nothing, row |-> Nothing]
  <2>1. ASSUME NEW p, NEW n
        PROVE  [record("idle", "status", 0) EXCEPT !.kind = k, !.n = n, !.pc = p] = record(p, k, n)
    <3>1. [record("idle", "status", 0) EXCEPT !.kind = k] = record("idle", k, 0) OBVIOUS
    <3>2. [record("idle", k, 0) EXCEPT !.n = n] = record("idle", k, n) OBVIOUS
    <3>3. [record("idle", k, n) EXCEPT !.pc = p] = record(p, k, n) OBVIOUS
    <3> HIDE DEF record
    <3> QED BY <3>1, <3>2, <3>3
  <2>2. [Idle(j) EXCEPT !.kind = k, !.n = made + 1, !.pc = pc] = v BY <2>1 DEF Idle
  <2>3. jreq' = [jreq EXCEPT ![r] = [Idle(j) EXCEPT !.kind = k, !.n = made + 1, !.pc = pc]] BY DEF Request
  <2> QED BY <2>2, <2>3
<1>4. UNCHANGED <<jrow, device, manager, object, saving, known, overtaken, renamed>> /\ made' = made + 1
  BY DEF Request
<1>5. \A q \in JukeThreads : jreq[q].pc = "idle" \/ {k, jreq[q].kind} \cap Admin = {} BY DEF Request
<1>6. pc \in {"bound", "drop", "write", "read"} /\ (pc = "drop" => k = "delete") /\ (pc = "write" => k = "settings")
      /\ pc \in StepsOf(k)
  BY DEF StepsOf, Kinds, Holding
<1>7. v \in JukeRequest BY <1>2, <1>6 DEF JukeRequest, JPcs
<1>8. v.pc = pc /\ v.kind = k /\ v.juke = j OBVIOUS
<1> HIDE DEF v, pc
<1>9. Formed(v) /\ pc # "idle" BY <1>6, <1>8 DEF Formed, HasRow, Playback, Holding
<1>10. RequestsFormed' /\ jreq'[r] = v /\ \A q \in JukeThreads \ {r} : jreq'[q] = jreq[q]
  BY <1>3, <1>7, <1>9, Moved DEF Types
<1>11. Types' BY <1>2, <1>4, <1>10 DEF Types, TableTypes, EngineTypes
<1>12. Alone'
  <2> SUFFICES ASSUME NEW p \in JukeThreads, NEW q \in JukeThreads,
                      jreq'[p].kind \in Admin, jreq'[p].pc # "idle", jreq'[q].pc # "idle"
               PROVE  p = q BY DEF Alone, Active
  <2>1. CASE p = r BY <1>5, <1>8, <1>10, <2>1
  <2>2. CASE p # r /\ q = r BY <1>5, <1>8, <1>10, <2>2
  <2>3. CASE p # r /\ q # r BY <1>10, <2>3 DEF Alone, Active
  <2> QED BY <2>1, <2>2, <2>3
<1>13. Stands(v, jrow, manager, saving)
  BY <1>6, <1>8 DEF Stands, RowStands, EngineStands, MappingStands, DeviceStands, CreationStands, DeletionStands,
     Reads, Playback, Holding, Placing
<1>14. InHand' BY <1>4, <1>10, <1>13 DEF InHand
<1>15. KnownIds' /\ BoundOnce' BY <1>4 DEF KnownIds, BoundOnce
<1>16. \A i, kind, p : p # "idle" /\ During(i, kind, p) => During(i, kind, p)' BY <1>1, <1>10 DEF During
<1>17. \A i : Restoring(i) => Restoring(i)' BY <1>1, <1>10 DEF Restoring
<1>18. EnginesAreTheirs' /\ PlayingIsManaged' BY <1>4, <1>16 DEF EnginesAreTheirs, PlayingIsManaged
<1>19. \A i \in Jukes : QueueIsKept(i)' BY <1>4, <1>16, <1>17 DEF QueueIsKept
<1> QED BY <1>11, <1>12, <1>14, <1>15, <1>18, <1>19

LEMMA StutterKeeps == JukeInv /\ UNCHANGED jukeVars => JukeInv'
<1> SUFFICES ASSUME JukeInv, UNCHANGED jukeVars PROVE JukeInv' OBVIOUS
<1> USE DEF JukeInv, jukeVars
<1>1. Types' /\ Alone' /\ InHand' /\ KnownIds' /\ BoundOnce'
  BY DEF Types, TableTypes, EngineTypes, RequestsFormed, Alone, Active, InHand, KnownIds, BoundOnce
<1>2. \A j, k, pc : During(j, k, pc)' <=> During(j, k, pc) BY DEF During
<1>3. \A j : Restoring(j)' <=> Restoring(j) BY DEF Restoring
<1>4. EnginesAreTheirs' /\ PlayingIsManaged' BY <1>2 DEF EnginesAreTheirs, PlayingIsManaged
<1>5. \A j \in Jukes : QueueIsKept(j)' BY <1>2, <1>3 DEF QueueIsKept
<1> QED BY <1>1, <1>4, <1>5

LEMMA NextKeeps == ASSUME AdminAlone, JukeInv, [JukeNext]_jukeVars PROVE JukeInv'
<1>1. ASSUME NEW r \in JukeThreads, JukeStep(r) PROVE JukeInv'
  <2>1. CASE UpdateRow(r) BY <2>1, UpdateRowKeeps
  <2>2. CASE RemoveEngine(r) BY <2>2, RemoveEngineKeeps
  <2>3. CASE DeleteJukebox(r) BY <2>3, DeleteJukeboxKeeps
  <2>4. CASE WriteSettings(r) BY <2>4, WriteSettingsKeeps
  <2>5. CASE ApplySettings(r) BY <2>5, ApplySettingsKeeps
  <2>6. CASE InsertJukebox(r) BY <2>6, InsertJukeboxKeeps
  <2>7. CASE WriteMode(r) BY <2>7, WriteModeKeeps
  <2>8. CASE \E e \in Engines : EnsureEngine(r, e) BY <2>8, EnsureKeeps
  <2>9. CASE \E e \in Engines : FreshEngine(r, e) BY <2>9, FreshEngineKeeps
  <2>10. CASE \E d \in Devices : CreateJukebox(r, d) \/ CheckUnbound(r, d) BY <2>10, PlacingKeeps
  <2>11. CASE \E d \in Devices : DropDevice(r, d) BY <2>11, DropDeviceKeeps
  <2>12. CASE \/ ReadRow(r) \/ RestoreEngine(r) \/ Status(r) \/ PlayTrack(r) \/ StopTrack(r)
              \/ ChangeQueue(r) \/ EmptyQueue(r) \/ ChangeMode(r) \/ ReadForMode(r)
    BY <2>12, PlaybackKeeps
  <2> QED BY <1>1, <2>1, <2>2, <2>3, <2>4, <2>5, <2>6, <2>7, <2>8, <2>9, <2>10, <2>11, <2>12 DEF JukeStep
<1> QED BY <1>1, RequestKeeps, TrackEndsKeeps, SaveStateKeeps, StutterKeeps DEF JukeNext

(* While whoever administers has the server to itself: a device belongs to *)
(* one jukebox and every jukebox has one; an engine that plays is its      *)
(* jukebox's and can be stopped, with the mapping last set; and at rest a  *)
(* row has the queue its engine plays from, unless a save was overtaken or *)
(* Update threw the queue away (jukebox.go, EngineManager, wireEngine).    *)
THEOREM JukeboxesAgree == ASSUME AdminAlone PROVE JukeSpec => []JukeSound
<1>1. JukeInv /\ [JukeNext]_jukeVars => JukeInv' BY NextKeeps
<1> QED BY <1>1, InitJuke, InvImpliesSound, PTL DEF JukeSpec

(***************************************************************************)
(* Listening                                                               *)
(***************************************************************************)

ListenWindows == [token: 1..MaxReports, lastPos: Nat, lastUpdate: 0..MaxTime, listened: Nat, anchor: 0..MaxTime]
ReportRecords == [pc: {"progress", "play", "playc", "count", "scrobble"}, user: Listeners, token: 1..MaxReports,
                  pos: 0..Duration, began: 0..MaxTime, listened: Nat, play: BOOLEAN, complete: BOOLEAN]
JukeListens == [epoch: Epochs, start: 0..MaxTime]
HeardRecords == [epoch: Epochs, played: Nat, token: Epochs, done: BOOLEAN]

ListenTypes ==
    /\ clock \in 0..MaxTime /\ tokens \in 0..MaxReports
    /\ listen \in [Listeners -> ListenWindows \cup {Silence}]
    /\ gate \in [Listeners -> [Gates -> Nat]]
    /\ track \in [heat: Nat, plays: Nat]
    /\ events \subseteq EventKeys /\ IsFiniteSet(events)
    /\ report \in [Reports -> ReportRecords \cup {Silence}]
    /\ granted \in [Listeners -> SUBSET (0..MaxTime)]
    /\ voice \in Voices /\ emits \in Seq(Voices)
    /\ active \in JukeListens \cup {Silence}
    /\ heard \subseteq HeardRecords /\ IsFiniteSet(heard)

(* The clock has passed what is on record, and a request is not older than *)
(* one may be.                                                             *)
TimesPast ==
    /\ \A u \in Listeners : listen[u] # Silence =>
          listen[u].anchor <= listen[u].lastUpdate /\ listen[u].lastUpdate <= clock
    /\ \A r \in Reports : report[r] # Silence => report[r].began <= clock /\ clock <= report[r].began + MaxLatency
    /\ active # Silence => active.start <= clock

(* A gate that opened stays shut for a window.                             *)
GatesHold == \A u \in Listeners :
    /\ \A a \in granted[u] : a <= clock /\ a + HeatRateLimitWindow <= gate[u]["play"]
    /\ \A a, b \in granted[u] : a < b => a + HeatRateLimitWindow <= b

(* The token a request brings with it is its own until a listen takes it.  *)
TokensAreDrawn ==
    /\ \A r \in Reports : report[r] # Silence => report[r].token <= tokens
    /\ \A u \in Listeners : listen[u] # Silence => listen[u].token <= tokens
    /\ \A u \in Listeners, t \in 1..MaxReports : <<"play", u, t>> \in events => t <= tokens
BringsToken(r) == report[r] # Silence /\ report[r].pc \in {"progress", "scrobble"}
OwnTokens == \A r \in Reports : BringsToken(r) =>
    /\ \A s \in Reports \ {r} : report[s] # Silence => report[s].token # report[r].token
    /\ \A u \in Listeners : /\ listen[u] # Silence => listen[u].token # report[r].token
                            /\ <<"play", u, report[r].token>> \notin events
    /\ ~report[r].play /\ ~report[r].complete

(* A token the gate was opened for, and what a request that waits for the  *)
(* gate, or that came through it, knows of its own.                        *)
WaitsFor(r, u, t) == report[r] # Silence /\ report[r].pc = "play" /\ report[r].user = u /\ report[r].token = t
CameThrough(r, u, t) == report[r] # Silence /\ report[r].play /\ report[r].user = u /\ report[r].token = t
Opened(u, t) == <<"play", u, t>> \in events \/ \E r \in Reports : CameThrough(r, u, t)

ThroughOnce ==
    /\ \A r \in Reports : report[r] # Silence /\ report[r].play => report[r].pc \in {"playc", "count"}
    /\ \A r \in Reports, u \in Listeners, t \in 1..MaxReports : CameThrough(r, u, t) =>
          <<"play", u, t>> \notin events /\ \A s \in Reports \ {r} : ~CameThrough(s, u, t)
ShutForLate == \A r \in Reports, u \in Listeners, t \in 1..MaxReports :
    WaitsFor(r, u, t) /\ Opened(u, t) => report[r].began + MaxLatency < gate[u]["play"]
ListensAs(u, t) == listen[u] # Silence /\ listen[u].token = t
ShutForListen == \A u \in Listeners, t \in 1..MaxReports : ListensAs(u, t) /\ Opened(u, t) =>
    listen[u].anchor + HeatRateLimitWindow + MaxLatency <= gate[u]["play"]
ListenedBefore == \A r \in Reports, u \in Listeners, t \in 1..MaxReports : ListensAs(u, t) /\ WaitsFor(r, u, t) =>
    listen[u].anchor + MaxLatency <= clock

(* A request takes less than the shortest window and no longer than the    *)
(* shortest listen that counts.                                            *)
Punctual == MaxLatency < RateFloor /\ \A l \in 0..MaxLatency - 1 : ~HeatQualifiesForListened(l)

(* Jukebox: a listen on record is of an instance that is over.             *)
TokensOfHeard ==
    /\ voice.epoch <= tokens /\ Cardinality(heard) + Len(emits) <= tokens
    /\ \A h \in heard : h.token < Cardinality(heard)
    /\ \A g, h \in heard : g.token = h.token => g = h
EmitsAreOrdered ==
    /\ \A i, j \in DOMAIN emits : i < j =>
          emits[i].epoch <= emits[j].epoch /\ (emits[i].epoch = emits[j].epoch => emits[i].playing)
    /\ \A i \in DOMAIN emits :
          emits[i].epoch <= voice.epoch /\ (emits[i].epoch = voice.epoch /\ voice.playing => emits[i].playing)
ActiveIsLatest == active # Silence =>
    active.epoch <= voice.epoch /\ \A i \in DOMAIN emits : active.epoch <= emits[i].epoch
HeardIsOver == \A h \in heard :
    /\ active # Silence => h.epoch < active.epoch
    /\ \A i \in DOMAIN emits : h.epoch < emits[i].epoch
    /\ h.epoch < voice.epoch \/ (h.epoch = voice.epoch /\ ~voice.playing)

GateInv == ThroughOnce /\ ShutForLate /\ ShutForListen /\ ListenedBefore
JukeboxInv == EmitsAreOrdered /\ ActiveIsLatest /\ HeardIsOver /\ JukeboxListensOnce
ListeningInv ==
    /\ ListenTypes /\ TimesPast /\ ListenedIsReal /\ GatesHold /\ TokensAreDrawn /\ OwnTokens
    /\ HeatIsTheLog /\ TokensOfHeard
    /\ Punctual => GateInv
    /\ EmitsInOrder => JukeboxInv

-----------------------------------------------------------------------------
(* The window, and a finite set of events counted by kind.                 *)

LEMMA GreaterOfTwo ==
  ASSUME NEW a \in Int, NEW b \in Int
  PROVE  Max({a, b}) = IF a >= b THEN a ELSE b
<1> DEFINE m == IF a >= b THEN a ELSE b
<1>1. m \in {a, b} /\ \A y \in {a, b} : m >= y OBVIOUS
<1>2. \A x \in {a, b} : (\A y \in {a, b} : x >= y) => x = m OBVIOUS
<1>3. Max({a, b}) = CHOOSE x \in {a, b} : \A y \in {a, b} : x >= y BY DEF Max
<1> HIDE DEF m
<1>4. Max({a, b}) = m BY <1>1, <1>2, <1>3
<1> QED BY <1>4 DEF m

LEMMA LesserOfTwo ==
  ASSUME NEW a \in Int, NEW b \in Int
  PROVE  Min({a, b}) = IF a <= b THEN a ELSE b
<1> DEFINE m == IF a <= b THEN a ELSE b
<1>1. m \in {a, b} /\ \A y \in {a, b} : m <= y OBVIOUS
<1>2. \A x \in {a, b} : (\A y \in {a, b} : x <= y) => x = m OBVIOUS
<1>3. Min({a, b}) = CHOOSE x \in {a, b} : \A y \in {a, b} : x <= y BY DEF Min
<1> HIDE DEF m
<1>4. Min({a, b}) = m BY <1>1, <1>2, <1>3
<1> QED BY <1>4 DEF m

LEMMA WindowFacts ==
  /\ HeatRateLimitWindow \in Nat /\ RateFloor <= HeatRateLimitWindow
  /\ HeatRateLimitWindow >= Max({RateFloor, Duration}) + (IF Duration >= RateFloor THEN RateGrace ELSE 0)
  /\ Max({RateFloor, Duration}) + (IF Duration >= RateFloor THEN RateGrace ELSE 0) \in Nat
<1>1. RateFloor \in Nat \ {0} /\ Duration \in Nat /\ RateGrace \in Nat BY ListeningConstants
<1>2. Max({RateFloor, Duration}) = IF RateFloor >= Duration THEN RateFloor ELSE Duration BY <1>1, GreaterOfTwo
<1>3. Max({RateFloor, Duration + RateGrace}) = IF RateFloor >= Duration + RateGrace THEN RateFloor ELSE Duration + RateGrace
  BY <1>1, GreaterOfTwo
<1> QED BY <1>1, <1>2, <1>3 DEF HeatRateLimitWindow

LEMMA NothingListened == ~HeatQualifiesForListened(0) /\ ~HeatListenedIsComplete(0)
BY ListeningConstants DEF HeatQualifiesForListened, HeatListenedIsComplete

LEMMA KindsAdd ==
  ASSUME NEW S, NEW T, IsFiniteSet(S), IsFiniteSet(T), S \cap T = {}, NEW k
  PROVE  /\ IsFiniteSet(Kind(k, S)) /\ IsFiniteSet(Kind(k, T))
         /\ Cardinality(Kind(k, S)) \in Nat /\ Cardinality(Kind(k, T)) \in Nat
         /\ Cardinality(Kind(k, S \cup T)) = Cardinality(Kind(k, S)) + Cardinality(Kind(k, T))
<1>1. Kind(k, S) \subseteq S /\ Kind(k, T) \subseteq T BY DEF Kind
<1>2. IsFiniteSet(Kind(k, S)) /\ IsFiniteSet(Kind(k, T)) BY <1>1, FS_Subset
<1>3. Cardinality(Kind(k, S)) \in Nat /\ Cardinality(Kind(k, T)) \in Nat BY <1>2, FS_CardinalityType
<1>4. Kind(k, S \cup T) = Kind(k, S) \cup Kind(k, T) BY DEF Kind
<1>5. Kind(k, S) \cap Kind(k, T) = {} BY <1>1
<1>6. Cardinality(Kind(k, S) \cup Kind(k, T)) = Cardinality(Kind(k, S)) + Cardinality(Kind(k, T)) - Cardinality(Kind(k, S) \cap Kind(k, T))
  BY <1>2, FS_Union
<1>7. Cardinality(Kind(k, S) \cap Kind(k, T)) = 0 BY <1>5, FS_EmptySet
<1> DEFINE s == Cardinality(Kind(k, S))  t == Cardinality(Kind(k, T))  both == Cardinality(Kind(k, S \cup T))
<1>8. s \in Nat /\ t \in Nat /\ both = s + t - 0 BY <1>3, <1>4, <1>6, <1>7
<1> HIDE DEF s, t, both
<1>9. both = s + t BY <1>8
<1> QED BY <1>2, <1>8, <1>9 DEF s, t, both

LEMMA AwardKeepsLog ==
  ASSUME ListenTypes, HeatIsTheLog, NEW keys \in SUBSET EventKeys, IsFiniteSet(keys), Award(keys)
  PROVE  /\ events' = events \cup keys /\ events' \subseteq EventKeys /\ IsFiniteSet(events')
         /\ track' \in [heat : Nat, plays : Nat] /\ HeatIsTheLog'
<1> DEFINE new == keys \ events
<1>1. events' = events \cup new /\ events \cap new = {} /\ IsFiniteSet(events) /\ events \subseteq EventKeys BY DEF Award, ListenTypes
<1>2. track' = [heat |-> track.heat + HeatOf(new), plays |-> track.plays + Cardinality(Kind("play", new))] BY DEF Award
<1>3. IsFiniteSet(new) BY FS_Subset
<1>4. events' = events \cup keys BY <1>1
<1>5. IsFiniteSet(events') BY <1>1, <1>3, FS_Union
<1> HIDE DEF new
<1>6. \A k : /\ Cardinality(Kind(k, events)) \in Nat /\ Cardinality(Kind(k, new)) \in Nat
             /\ Cardinality(Kind(k, events \cup new)) = Cardinality(Kind(k, events)) + Cardinality(Kind(k, new))
  BY <1>1, <1>3, KindsAdd
<1>7. track.heat = HeatOf(events) /\ track.plays = Cardinality(Kind("play", events)) BY DEF HeatIsTheLog
<1>8. Weight.play = 1 /\ Weight.playc = 1 /\ Weight.dl = 3 BY DEF Weight
<1>9. HeatOf(events) \in Nat /\ HeatOf(new) \in Nat /\ HeatOf(events \cup new) = HeatOf(events) + HeatOf(new)
  <2> DEFINE c(k) == Cardinality(Kind(k, events))  d(k) == Cardinality(Kind(k, new))  e(k) == Cardinality(Kind(k, events \cup new))
  <2>1. /\ c("play") \in Nat /\ c("playc") \in Nat /\ c("dl") \in Nat
        /\ d("play") \in Nat /\ d("playc") \in Nat /\ d("dl") \in Nat
        /\ e("play") = c("play") + d("play") /\ e("playc") = c("playc") + d("playc") /\ e("dl") = c("dl") + d("dl")
    BY <1>6
  <2>2. /\ HeatOf(events) = 1 * c("play") + 1 * c("playc") + 3 * c("dl")
        /\ HeatOf(new) = 1 * d("play") + 1 * d("playc") + 3 * d("dl")
        /\ HeatOf(events \cup new) = 1 * e("play") + 1 * e("playc") + 3 * e("dl")
    BY <1>8 DEF HeatOf
  <2> HIDE DEF c, d, e
  <2> QED BY <2>1, <2>2
<1>10. track'.heat = HeatOf(events') /\ track'.plays = Cardinality(Kind("play", events'))
  BY <1>1, <1>2, <1>6, <1>7, <1>9
<1>11. track' \in [heat : Nat, plays : Nat] BY <1>2, <1>6, <1>7, <1>9
<1>12. HeatIsTheLog' BY <1>10 DEF HeatIsTheLog, HeatOf, Kind
<1> QED BY <1>1, <1>4, <1>5, <1>11, <1>12

-----------------------------------------------------------------------------
LEMMA InvImpliesSpaced == ListeningInv => PlaysAreSpaced
<1> SUFFICES ASSUME ListeningInv PROVE PlaysAreSpaced OBVIOUS
<1>1. ListenTypes /\ GatesHold BY DEF ListeningInv
<1> SUFFICES ASSUME NEW u \in Listeners, NEW a \in granted[u], NEW b \in granted[u], a < b
             PROVE  b - a >= Max({RateFloor, Duration}) + (IF Duration >= RateFloor THEN RateGrace ELSE 0)
    BY DEF PlaysAreSpaced
<1> DEFINE spaced == Max({RateFloor, Duration}) + (IF Duration >= RateFloor THEN RateGrace ELSE 0)
<1>2. a \in Nat /\ b \in Nat BY <1>1, ListeningConstants DEF ListenTypes
<1>3. a + HeatRateLimitWindow <= b BY <1>1 DEF GatesHold
<1>4. HeatRateLimitWindow \in Nat /\ spaced \in Nat /\ HeatRateLimitWindow >= spaced BY WindowFacts
<1> HIDE DEF spaced
<1>5. b - a >= spaced BY <1>2, <1>3, <1>4
<1> QED BY <1>5 DEF spaced

LEMMA InvImpliesListeningSound == ListeningInv /\ Punctual /\ EmitsInOrder => ListeningSound
<1> SUFFICES ASSUME ListeningInv, Punctual, EmitsInOrder PROVE ListeningSound OBVIOUS
<1>1. ListenTypes /\ GatesHold /\ ThroughOnce /\ JukeboxListensOnce BY DEF ListeningInv, GateInv, JukeboxInv
<1>2. ListeningTypeOK
  <2>1. \A i \in DOMAIN emits : emits[i] \in Voices BY <1>1 DEF ListenTypes
  <2> QED BY <1>1, <2>1 DEF ListenTypes, ListeningTypeOK, ListenWindows, ReportRecords, JukeListens, HeardRecords
<1>3. PlaysAreSpaced BY InvImpliesSpaced
<1>4. GateIsNotWasted
  <2> SUFFICES ASSUME NEW r \in Reports, report[r] # Silence, report[r].play
               PROVE  <<"play", report[r].user, report[r].token>> \notin events
      BY DEF GateIsNotWasted
  <2>1. report[r].user \in Listeners /\ report[r].token \in 1..MaxReports BY <1>1 DEF ListenTypes, ReportRecords
  <2> QED BY <1>1, <2>1 DEF ThroughOnce, CameThrough
<1> QED BY <1>1, <1>2, <1>3, <1>4 DEF ListeningInv, ListeningSound

LEMMA InitListening == ListeningInit => ListeningInv
<1> SUFFICES ASSUME ListeningInit PROVE ListeningInv OBVIOUS
<1>1. Cardinality({}) = 0 /\ IsFiniteSet({}) BY FS_EmptySet
<1>2. ListenTypes
  BY <1>1, ListeningConstants DEF ListeningInit, ListenTypes, Voices, Epochs, Gates
<1>3. TimesPast /\ ListenedIsReal /\ GatesHold /\ TokensAreDrawn /\ OwnTokens
  BY DEF ListeningInit, TimesPast, ListenedIsReal, GatesHold, TokensAreDrawn, OwnTokens, BringsToken
<1>4. HeatIsTheLog
  <2>1. \A k : Kind(k, {}) = {} BY DEF Kind
  <2>2. Weight.play = 1 /\ Weight.playc = 1 /\ Weight.dl = 3 BY DEF Weight
  <2>3. HeatOf({}) = 1 * 0 + 1 * 0 + 3 * 0 BY <1>1, <2>1, <2>2 DEF HeatOf
  <2>4. events = {} /\ track.heat = 0 /\ track.plays = 0 BY DEF ListeningInit
  <2> QED BY <1>1, <2>1, <2>3, <2>4 DEF HeatIsTheLog
<1>5. TokensOfHeard
  <2>1. Len(emits) = 0 BY DEF ListeningInit
  <2> QED BY <1>1, <2>1 DEF ListeningInit, TokensOfHeard
<1>6. GateInv
  BY DEF ListeningInit, GateInv, ThroughOnce, CameThrough, WaitsFor, ListensAs, Opened, ShutForLate, ShutForListen, ListenedBefore
<1>7. JukeboxInv
  BY DEF ListeningInit, JukeboxInv, EmitsAreOrdered, ActiveIsLatest, HeardIsOver, JukeboxListensOnce
<1> QED BY <1>2, <1>3, <1>4, <1>5, <1>6, <1>7 DEF ListeningInv

-----------------------------------------------------------------------------
(* What a step leaves alone.                                               *)

LEMMA JukeboxStays ==
  ASSUME ListeningInv, NoJukebox, tokens' \in Nat, tokens <= tokens', clock' \in Nat, clock <= clock'
  PROVE  TokensOfHeard' /\ (EmitsInOrder => JukeboxInv') /\ (active' # Silence => active'.start <= clock')
<1>1. TokensOfHeard /\ (EmitsInOrder => JukeboxInv) /\ ListenTypes /\ TimesPast BY DEF ListeningInv
<1>2. voice' = voice /\ emits' = emits /\ active' = active /\ heard' = heard BY DEF NoJukebox
<1>3. voice.epoch \in Int /\ Len(emits) \in Nat /\ tokens \in Int BY <1>1 DEF ListenTypes, Voices, Epochs
<1>4. Cardinality(heard) \in Nat BY <1>1, FS_CardinalityType DEF ListenTypes
<1>5. TokensOfHeard' BY <1>1, <1>2, <1>3, <1>4 DEF TokensOfHeard
<1>6. EmitsInOrder => JukeboxInv'
  BY <1>1, <1>2 DEF JukeboxInv, EmitsAreOrdered, ActiveIsLatest, HeardIsOver, JukeboxListensOnce
<1>7. active # Silence => active.start \in Int BY <1>1 DEF ListenTypes, JukeListens
<1> QED BY <1>1, <1>2, <1>5, <1>6, <1>7 DEF TimesPast, ListenTypes

LEMMA ReportTurns ==
  ASSUME ListenTypes, NEW r \in Reports, NEW x \in ReportRecords \cup {Silence}, report' = [report EXCEPT ![r] = x]
  PROVE  /\ report' \in [Reports -> ReportRecords \cup {Silence}] /\ report'[r] = x
         /\ \A s \in Reports \ {r} : report'[s] = report[s]
BY DEF ListenTypes

(* A step of a request that is under way changes neither the clock nor the *)
(* tokens: what the invariant says of one request at a time.               *)
LEMMA RequestGoesOn ==
  ASSUME ListeningInv, NEW r \in Reports, report[r] # Silence, NEW x \in ReportRecords \cup {Silence},
         report' = [report EXCEPT ![r] = x], UNCHANGED <<clock, tokens>>, NoJukebox,
         x # Silence => x.user = report[r].user /\ x.began = report[r].began /\ x.pc \notin {"progress", "scrobble"}
                        /\ x.token <= tokens
  PROVE  /\ report' \in [Reports -> ReportRecords \cup {Silence}] /\ report'[r] = x
         /\ \A s \in Reports \ {r} : report'[s] = report[s]
         /\ \A s \in Reports : report'[s] # Silence => report'[s].began <= clock' /\ clock' <= report'[s].began + MaxLatency
         /\ \A s \in Reports : report'[s] # Silence => report'[s].token <= tokens'
         /\ active' # Silence => active'.start <= clock'
         /\ \A s \in Reports : BringsToken(s)' => s # r /\ BringsToken(s)
         /\ \A s \in Reports \ {r} : \A u, t : (WaitsFor(s, u, t)' <=> WaitsFor(s, u, t)) /\ (CameThrough(s, u, t)' <=> CameThrough(s, u, t))
         /\ TokensOfHeard' /\ (EmitsInOrder => JukeboxInv')
<1>1. ListenTypes /\ TimesPast /\ TokensAreDrawn BY DEF ListeningInv
<1>2. report' \in [Reports -> ReportRecords \cup {Silence}] /\ report'[r] = x /\ \A s \in Reports \ {r} : report'[s] = report[s]
  BY <1>1, ReportTurns
<1>3. \A s \in Reports : report'[s] # Silence => report'[s].began <= clock' /\ clock' <= report'[s].began + MaxLatency
  BY <1>1, <1>2 DEF TimesPast
<1>4. \A s \in Reports : report'[s] # Silence => report'[s].token <= tokens' BY <1>1, <1>2 DEF TokensAreDrawn
<1>5. \A s \in Reports : BringsToken(s)' => s # r /\ BringsToken(s) BY <1>2 DEF BringsToken
<1>6. \A s \in Reports \ {r} : \A u, t : (WaitsFor(s, u, t)' <=> WaitsFor(s, u, t)) /\ (CameThrough(s, u, t)' <=> CameThrough(s, u, t))
  BY <1>2 DEF WaitsFor, CameThrough
<1>7. tokens \in Nat /\ clock \in Nat BY <1>1, ListeningConstants DEF ListenTypes
<1>8. TokensOfHeard' /\ (EmitsInOrder => JukeboxInv') /\ (active' # Silence => active'.start <= clock') BY <1>7, JukeboxStays
<1> QED BY <1>2, <1>3, <1>4, <1>5, <1>6, <1>8

LEMMA PunctualListens ==
  ASSUME Punctual, NEW n \in Nat, HeatQualifiesForListened(n)
  PROVE  MaxLatency <= n
BY ListeningConstants DEF Punctual

-----------------------------------------------------------------------------
(* A report of the web player: the window's script.                        *)
ListensOn(l, new) ==
    /\ l # Silence /\ new.token = l.token /\ new.anchor = l.anchor
    /\ clock - l.anchor < HeatRateLimitWindow /\ new.listened <= clock - l.anchor
StartsAnew(q, new) == new.token = q.token /\ new.anchor = clock /\ new.listened = 0

LEMMA TrustedIs ==
  ASSUME NEW l \in ListenWindows, NEW pos \in Nat, clock \in Nat, l.lastUpdate \in Nat, l.lastUpdate <= clock
  PROVE  Trusted(l, pos) \in Nat /\ Trusted(l, pos) <= clock - l.lastUpdate
<1> DEFINE ahead == pos - l.lastPos  past == clock - l.lastUpdate  gain == Trusted(l, pos)  most == Max({ahead, 0})
<1>1. ahead \in Int /\ past \in Nat BY DEF ListenWindows
<1>2. gain = Min({most, past}) BY DEF Trusted
<1> HIDE DEF ahead, past, gain
<1>3. most = IF ahead >= 0 THEN ahead ELSE 0 BY <1>1, GreaterOfTwo
<1> HIDE DEF most
<1>4. most \in Nat BY <1>1, <1>3
<1>5. Min({most, past}) = IF most <= past THEN most ELSE past BY <1>1, <1>4, LesserOfTwo
<1>6. gain \in Nat /\ gain <= past BY <1>1, <1>2, <1>4, <1>5
<1> QED BY <1>6 DEF gain, past

LEMMA FirstWindow ==
  ASSUME clock \in 0..MaxTime, NEW t \in 1..MaxReports, NEW pos \in Nat
  PROVE  LET new == [token |-> t, lastPos |-> pos, lastUpdate |-> clock, listened |-> 0, anchor |-> clock] IN
         new \in ListenWindows /\ new.lastUpdate = clock /\ new.token = t /\ new.anchor = clock /\ new.listened = 0
BY DEF ListenWindows

LEMMA ProgressIs ==
  ASSUME ListeningInv, NEW r \in Reports, ListenProgress(r)
  PROVE  \E new \in ListenWindows, x \in ReportRecords \cup {Silence} :
            /\ listen' = [listen EXCEPT ![report[r].user] = new] /\ new.lastUpdate = clock
            /\ report' = [report EXCEPT ![r] = x]
            /\ \/ StartsAnew(report[r], new) /\ x = Silence
               \/ /\ ListensOn(listen[report[r].user], new)
                  /\ x # Silence => /\ x.user = report[r].user /\ x.began = report[r].began /\ x.token = new.token
                                    /\ x.play = report[r].play /\ x.pc \in {"play", "playc"}
                                    /\ x.pc = "play" => HeatQualifiesForListened(new.listened)
<1> DEFINE q == report[r]  l == listen[q.user]
           fresh == \/ l = Silence \/ clock >= l.lastUpdate + HeatRateLimitWindow \/ clock - l.anchor >= HeatRateLimitWindow
           new == IF fresh
                  THEN [token |-> q.token, lastPos |-> q.pos, lastUpdate |-> clock, listened |-> 0, anchor |-> clock]
                  ELSE [l EXCEPT !.lastPos = q.pos, !.lastUpdate = clock, !.listened = l.listened + Trusted(l, q.pos)]
           plays == HeatQualifiesForListened(new.listened)
           ends == HeatListenedIsComplete(new.listened)
           x == IF ~plays /\ ~ends THEN Silence
                ELSE [q EXCEPT !.pc = IF plays THEN "play" ELSE "playc", !.token = new.token, !.listened = new.listened]
<1>1. /\ q # Silence /\ q.pc = "progress" /\ listen' = [listen EXCEPT ![q.user] = new] /\ report' = [report EXCEPT ![r] = x]
  BY DEF ListenProgress
<1>2. ListenTypes /\ TimesPast /\ ListenedIsReal BY DEF ListeningInv
<1>3. q \in ReportRecords /\ q.user \in Listeners /\ clock \in 0..MaxTime /\ clock \in Nat /\ q.token \in 1..MaxReports /\ q.pos \in Nat
  BY <1>1, <1>2, ListeningConstants DEF ListenTypes, ReportRecords
<1>4. CASE fresh
  <2>1. new = [token |-> q.token, lastPos |-> q.pos, lastUpdate |-> clock, listened |-> 0, anchor |-> clock] BY <1>4
  <2> HIDE DEF new, fresh
  <2>2. new \in ListenWindows /\ new.lastUpdate = clock /\ StartsAnew(q, new) BY <1>3, <2>1, FirstWindow DEF StartsAnew
  <2>3. ~plays /\ ~ends BY <2>2, NothingListened DEF StartsAnew
  <2>4. x = Silence BY <2>3
  <2> HIDE DEF x
  <2> QED BY <1>1, <2>2, <2>4
<1>5. CASE ~fresh
  <2>1. l \in ListenWindows /\ l # Silence BY <1>2, <1>3, <1>5 DEF ListenTypes
  <2>2. /\ l.lastPos \in Nat /\ l.lastUpdate \in Nat /\ l.listened \in Nat /\ l.anchor \in Nat
        /\ l.anchor <= l.lastUpdate /\ l.lastUpdate <= clock /\ l.listened <= l.lastUpdate - l.anchor
    BY <1>2, <1>3, <2>1, ListeningConstants DEF ListenWindows, TimesPast, ListenedIsReal
  <2> DEFINE gain == Trusted(l, q.pos)
  <2>3. gain \in Nat /\ gain <= clock - l.lastUpdate BY <1>3, <2>1, <2>2, TrustedIs
  <2> HIDE DEF gain
  <2>4. new = [l EXCEPT !.lastPos = q.pos, !.lastUpdate = clock, !.listened = l.listened + gain] BY <1>5 DEF gain
  <2>5. clock - l.anchor < HeatRateLimitWindow
    <3>1. HeatRateLimitWindow \in Nat BY WindowFacts
    <3>2. ~(clock - l.anchor >= HeatRateLimitWindow) BY <1>5
    <3> HIDE DEF fresh, new
    <3> QED BY <1>3, <2>2, <3>1, <3>2
  <2> HIDE DEF new, fresh
  <2>6. new \in ListenWindows /\ new.lastUpdate = clock /\ new.listened \in Nat /\ new.token = l.token /\ new.token \in 1..MaxReports
        /\ new.anchor = l.anchor /\ new.listened = l.listened + gain
    <3> DEFINE n == l.listened + gain
    <3>1. n \in Nat BY <2>2, <2>3
    <3>2. new = [l EXCEPT !.lastPos = q.pos, !.lastUpdate = clock, !.listened = n] BY <2>4
    <3>3. l.token \in 1..MaxReports BY <2>1 DEF ListenWindows
    <3> DEFINE pos == q.pos
    <3>4. pos \in Nat /\ new = [l EXCEPT !.lastPos = pos, !.lastUpdate = clock, !.listened = n] BY <1>3, <3>2
    <3> HIDE DEF n, l, q, pos
    <3>5. new \in ListenWindows /\ new.lastUpdate = clock /\ new.listened = n /\ new.token = l.token /\ new.anchor = l.anchor
      BY <1>3, <2>1, <3>1, <3>4 DEF ListenWindows
    <3> QED BY <3>1, <3>3, <3>5 DEF n
  <2>7. ListensOn(l, new) BY <1>3, <2>1, <2>2, <2>3, <2>5, <2>6 DEF ListensOn
  <2>8. CASE ~plays /\ ~ends
    <3>1. x = Silence BY <2>8
    <3> HIDE DEF x
    <3> QED BY <1>1, <2>6, <2>7, <3>1
  <2>9. CASE plays \/ ends
    <3> DEFINE pc == IF plays THEN "play" ELSE "playc"
    <3>1. x = [q EXCEPT !.pc = pc, !.token = new.token, !.listened = new.listened] BY <2>9
    <3>2. pc \in {"play", "playc"} /\ (pc = "play" => HeatQualifiesForListened(new.listened)) OBVIOUS
    <3> HIDE DEF x, pc
    <3>3. /\ x \in ReportRecords /\ x.user = q.user /\ x.began = q.began /\ x.token = new.token /\ x.play = q.play /\ x.pc = pc
      BY <1>3, <2>6, <3>1, <3>2 DEF ReportRecords
    <3> QED BY <1>1, <2>6, <2>7, <3>2, <3>3
  <2> QED BY <2>8, <2>9
<1> QED BY <1>4, <1>5

LEMMA ProgressKeeps ==
  ASSUME ListeningInv, NEW r \in Reports, ListenProgress(r)
  PROVE  ListeningInv'
<1> DEFINE q == report[r]  l == listen[q.user]
<1>1. PICK new \in ListenWindows, x \in ReportRecords \cup {Silence} :
            /\ listen' = [listen EXCEPT ![q.user] = new] /\ new.lastUpdate = clock
            /\ report' = [report EXCEPT ![r] = x]
            /\ \/ StartsAnew(q, new) /\ x = Silence
               \/ /\ ListensOn(l, new)
                  /\ x # Silence => /\ x.user = q.user /\ x.began = q.began /\ x.token = new.token
                                    /\ x.play = q.play /\ x.pc \in {"play", "playc"}
                                    /\ x.pc = "play" => HeatQualifiesForListened(new.listened)
  BY ProgressIs
<1>2. q # Silence /\ q.pc = "progress" /\ UNCHANGED <<clock, gate, track, events, tokens, granted>> /\ NoJukebox
  BY DEF ListenProgress
<1>3. ListenTypes /\ TimesPast /\ ListenedIsReal /\ GatesHold /\ TokensAreDrawn /\ OwnTokens /\ HeatIsTheLog BY DEF ListeningInv
<1>4. q \in ReportRecords /\ q.user \in Listeners /\ q.token \in 1..MaxReports /\ q.began \in Nat /\ clock \in 0..MaxTime
  BY <1>2, <1>3, ListeningConstants DEF ListenTypes, ReportRecords
<1>5. /\ ~q.play /\ \A s \in Reports \ {r} : report[s] # Silence => report[s].token # q.token
      /\ \A u \in Listeners : (listen[u] # Silence => listen[u].token # q.token) /\ <<"play", u, q.token>> \notin events
  BY <1>2, <1>3 DEF OwnTokens, BringsToken
<1>6. listen' \in [Listeners -> ListenWindows \cup {Silence}] /\ listen'[q.user] = new
      /\ \A u \in Listeners \ {q.user} : listen'[u] = listen[u]
  BY <1>1, <1>3, <1>4 DEF ListenTypes
<1>8. new.token <= tokens /\ new.anchor \in Nat /\ new.listened \in Nat /\ new.anchor <= clock /\ new.listened <= clock - new.anchor
  <2>1. new.anchor \in Nat /\ new.listened \in Nat /\ clock \in Nat BY <1>1, <1>4, ListeningConstants DEF ListenWindows
  <2>2. CASE StartsAnew(q, new) BY <1>2, <1>3, <2>1, <2>2 DEF StartsAnew, TokensAreDrawn
  <2>3. CASE ListensOn(l, new)
    <3>1. l # Silence /\ l \in ListenWindows BY <1>3, <1>4, <2>3 DEF ListensOn, ListenTypes
    <3>2. l.anchor <= l.lastUpdate /\ l.lastUpdate <= clock /\ l.token <= tokens BY <1>3, <1>4, <3>1 DEF TimesPast, TokensAreDrawn
    <3>3. l.anchor \in Nat /\ l.lastUpdate \in Nat BY <3>1, ListeningConstants DEF ListenWindows
    <3> QED BY <2>1, <2>3, <3>2, <3>3 DEF ListensOn
  <2> QED BY <1>1, <2>2, <2>3
<1>9. /\ report' \in [Reports -> ReportRecords \cup {Silence}] /\ report'[r] = x
      /\ \A s \in Reports \ {r} : report'[s] = report[s]
      /\ \A s \in Reports : report'[s] # Silence => report'[s].began <= clock' /\ clock' <= report'[s].began + MaxLatency
      /\ \A s \in Reports : report'[s] # Silence => report'[s].token <= tokens'
      /\ active' # Silence => active'.start <= clock'
      /\ \A s \in Reports : BringsToken(s)' => s # r /\ BringsToken(s)
      /\ \A s \in Reports \ {r} : \A u, t : (WaitsFor(s, u, t)' <=> WaitsFor(s, u, t)) /\ (CameThrough(s, u, t)' <=> CameThrough(s, u, t))
      /\ TokensOfHeard' /\ (EmitsInOrder => JukeboxInv')
  <2>1. x # Silence => x.user = q.user /\ x.began = q.began /\ x.pc \notin {"progress", "scrobble"} /\ x.token <= tokens
    BY <1>1, <1>8
  <2> HIDE DEF q
  <2>2. report[r] = q /\ report[r] # Silence BY <1>2 DEF q
  <2> QED BY <1>1, <1>2, <2>1, <2>2, RequestGoesOn
<1>10. ListenTypes' BY <1>2, <1>3, <1>6, <1>9 DEF ListenTypes, NoJukebox
<1>11. TimesPast' /\ ListenedIsReal'
  <2> SUFFICES ASSUME NEW u \in Listeners, listen'[u] # Silence
               PROVE  /\ listen'[u].anchor <= listen'[u].lastUpdate /\ listen'[u].lastUpdate <= clock'
                      /\ listen'[u].listened <= listen'[u].lastUpdate - listen'[u].anchor
      BY <1>9 DEF TimesPast, ListenedIsReal
  <2>1. clock \in Nat BY <1>4, ListeningConstants
  <2>2. CASE u = q.user BY <1>1, <1>2, <1>6, <1>8, <2>1, <2>2
  <2>3. CASE u # q.user BY <1>2, <1>3, <1>6, <2>3 DEF TimesPast, ListenedIsReal
  <2> QED BY <2>2, <2>3
<1>12. GatesHold' BY <1>2, <1>3 DEF GatesHold
<1>13. TokensAreDrawn' BY <1>2, <1>3, <1>6, <1>8, <1>9 DEF TokensAreDrawn
<1>14. OwnTokens'
  <2> SUFFICES ASSUME NEW s \in Reports, BringsToken(s)' PROVE
           /\ \A p \in Reports \ {s} : report'[p] # Silence => report'[p].token # report'[s].token
           /\ \A u \in Listeners : /\ listen'[u] # Silence => listen'[u].token # report'[s].token
                                   /\ <<"play", u, report'[s].token>> \notin events'
           /\ ~report'[s].play /\ ~report'[s].complete
      BY DEF OwnTokens
  <2>1. s # r /\ BringsToken(s) /\ report'[s] = report[s] BY <1>9
  <2>2. /\ \A p \in Reports \ {s} : report[p] # Silence => report[p].token # report[s].token
        /\ \A u \in Listeners : (listen[u] # Silence => listen[u].token # report[s].token) /\ <<"play", u, report[s].token>> \notin events
        /\ ~report[s].play /\ ~report[s].complete
    BY <1>3, <2>1 DEF OwnTokens
  <2>3. new.token # report[s].token BY <1>1, <1>2, <1>4, <2>1, <2>2 DEF StartsAnew, ListensOn
  <2>4. x # Silence => x.token # report[s].token BY <1>1, <2>3
  <2> QED BY <1>2, <1>6, <1>9, <2>1, <2>2, <2>3, <2>4
<1>15. HeatIsTheLog' BY <1>2, <1>3 DEF HeatIsTheLog, HeatOf, Kind
<1>16. \A u, t : Opened(u, t)' <=> Opened(u, t)
  <2>1. \A u, t : ~CameThrough(r, u, t) BY <1>5 DEF CameThrough
  <2>2. \A u, t : ~CameThrough(r, u, t)' BY <1>1, <1>5, <1>9 DEF CameThrough
  <2> QED BY <1>2, <1>9, <2>1, <2>2 DEF Opened
<1>17. ASSUME Punctual PROVE GateInv'
  <2>1. ThroughOnce /\ ShutForLate /\ ShutForListen /\ ListenedBefore BY <1>17 DEF ListeningInv, GateInv
  <2>2. ThroughOnce'
    <3>1. \A s \in Reports : report'[s] # Silence /\ report'[s].play => report'[s].pc \in {"playc", "count"}
      BY <1>1, <1>5, <1>9, <2>1 DEF ThroughOnce
    <3>2. \A u, t : ~CameThrough(r, u, t)' BY <1>1, <1>5, <1>9 DEF CameThrough
    <3>3. \A s \in Reports, u \in Listeners, t \in 1..MaxReports : CameThrough(s, u, t)' =>
              <<"play", u, t>> \notin events' /\ \A p \in Reports \ {s} : ~CameThrough(p, u, t)'
      BY <1>2, <1>9, <2>1, <3>2 DEF ThroughOnce
    <3> QED BY <3>1, <3>3 DEF ThroughOnce
  <2>3. x # Silence /\ x.pc = "play" => MaxLatency <= new.listened /\ ListensOn(l, new) /\ x.token = new.token
    BY <1>1, <1>8, <1>17, PunctualListens
  <2>4. /\ MaxLatency \in Nat /\ HeatRateLimitWindow \in Nat /\ clock \in Nat /\ q.began <= clock
        /\ \A u \in Listeners : gate[u]["play"] \in Nat
    BY <1>2, <1>3, <1>4, ListeningConstants, WindowFacts DEF ListenTypes, TimesPast, Gates
  <2>5. ShutForLate'
    <3> SUFFICES ASSUME NEW s \in Reports, NEW u \in Listeners, NEW t \in 1..MaxReports, WaitsFor(s, u, t)', Opened(u, t)'
                 PROVE  report'[s].began + MaxLatency < gate'[u]["play"]
        BY DEF ShutForLate
    <3>1. CASE s # r BY <1>2, <1>9, <1>16, <2>1, <3>1 DEF ShutForLate
    <3>2. CASE s = r
      <4>1. x # Silence /\ x.pc = "play" /\ u = x.user /\ t = x.token BY <1>9, <3>2 DEF WaitsFor
      <4>2. ListensOn(l, new) /\ u = q.user /\ t = l.token /\ x.began = q.began BY <1>1, <2>3, <4>1 DEF ListensOn
      <4>3. l.anchor + HeatRateLimitWindow + MaxLatency <= gate[u]["play"]
        <5>1. ListensAs(u, t) BY <4>2 DEF ListensAs, ListensOn
        <5>2. Opened(u, t) BY <1>16
        <5> QED BY <2>1, <4>2, <5>1, <5>2 DEF ShutForListen
      <4>4. l.anchor \in Nat BY <1>3, <1>4, <4>2, ListeningConstants DEF ListensOn, ListenTypes, ListenWindows
      <4>5. clock < l.anchor + HeatRateLimitWindow BY <2>4, <4>2, <4>4 DEF ListensOn
      <4>6. q.began + MaxLatency < gate[u]["play"] BY <1>4, <2>4, <4>3, <4>4, <4>5
      <4> QED BY <1>2, <1>9, <3>2, <4>2, <4>6
    <3> QED BY <3>1, <3>2
  <2>6. ShutForListen'
    <3> SUFFICES ASSUME NEW u \in Listeners, NEW t \in 1..MaxReports, ListensAs(u, t)', Opened(u, t)'
                 PROVE  listen'[u].anchor + HeatRateLimitWindow + MaxLatency <= gate'[u]["play"]
        BY DEF ShutForListen
    <3>1. Opened(u, t) BY <1>16
    <3>2. CASE u # q.user
      <4>1. ListensAs(u, t) /\ listen'[u] = listen[u] BY <1>6, <3>2 DEF ListensAs
      <4> QED BY <1>2, <2>1, <3>1, <4>1 DEF ShutForListen
    <3>3. CASE u = q.user /\ StartsAnew(q, new)
      <4>1. t = q.token BY <1>6, <3>3 DEF StartsAnew, ListensAs
      <4>2. ~CameThrough(r, u, t) /\ \A s \in Reports \ {r} : ~CameThrough(s, u, t) BY <1>5, <4>1 DEF CameThrough
      <4> QED BY <1>5, <3>1, <4>1, <4>2 DEF Opened
    <3>4. CASE u = q.user /\ ListensOn(l, new)
      <4>1. ListensAs(u, t) /\ new.anchor = l.anchor BY <1>6, <3>4 DEF ListensAs, ListensOn
      <4> QED BY <1>2, <1>6, <2>1, <3>1, <3>4, <4>1 DEF ShutForListen
    <3> QED BY <1>1, <3>2, <3>3, <3>4
  <2>7. ListenedBefore'
    <3> SUFFICES ASSUME NEW s \in Reports, NEW u \in Listeners, NEW t \in 1..MaxReports, ListensAs(u, t)', WaitsFor(s, u, t)'
                 PROVE  listen'[u].anchor + MaxLatency <= clock'
        BY DEF ListenedBefore
    <3>1. CASE u # q.user
      <4>1. ListensAs(u, t) /\ listen'[u] = listen[u] BY <1>6, <3>1 DEF ListensAs
      <4>2. s # r BY <1>1, <1>9, <3>1 DEF WaitsFor
      <4>3. WaitsFor(s, u, t) BY <1>9, <4>2
      <4> QED BY <1>2, <2>1, <4>1, <4>3 DEF ListenedBefore
    <3>2. CASE u = q.user /\ s # r
      <4>1. WaitsFor(s, u, t) /\ t = new.token BY <1>6, <1>9, <3>2 DEF ListensAs
      <4>2. ~StartsAnew(q, new) BY <1>5, <3>2, <4>1 DEF StartsAnew, WaitsFor
      <4>3. ListensAs(u, t) /\ new.anchor = l.anchor BY <1>1, <3>2, <4>1, <4>2 DEF ListensAs, ListensOn
      <4>4. l.anchor + MaxLatency <= clock BY <2>1, <3>2, <4>1, <4>3 DEF ListenedBefore
      <4> QED BY <1>2, <1>6, <3>2, <4>3, <4>4
    <3>3. CASE u = q.user /\ s = r
      <4>1. x # Silence /\ x.pc = "play" BY <1>9, <3>3 DEF WaitsFor
      <4> QED BY <1>2, <1>6, <1>8, <2>3, <2>4, <3>3, <4>1
    <3> QED BY <3>1, <3>2, <3>3
  <2> QED BY <2>2, <2>5, <2>6, <2>7 DEF GateInv
<1> QED BY <1>9, <1>10, <1>11, <1>12, <1>13, <1>14, <1>15, <1>17 DEF ListeningInv

-----------------------------------------------------------------------------
(* The gate, which a report and a scrobble come to.                        *)

LEMMA GateOpens ==
  ASSUME ListenTypes, GatesHold, NEW u \in Listeners, Allow(u, "play"), clock' = clock,
         granted' = IF Allowed(u, "play") THEN [granted EXCEPT ![u] = @ \cup {clock}] ELSE granted
  PROVE  /\ gate' \in [Listeners -> [Gates -> Nat]] /\ granted' \in [Listeners -> SUBSET (0..MaxTime)] /\ GatesHold'
         /\ Allowed(u, "play") <=> clock >= gate[u]["play"]
         /\ Allowed(u, "play") => gate'[u]["play"] = clock + HeatRateLimitWindow
         /\ ~Allowed(u, "play") => gate'[u]["play"] = gate[u]["play"]
         /\ \A v \in Listeners \ {u} : gate'[v]["play"] = gate[v]["play"]
<1>1. /\ gate \in [Listeners -> [Gates -> Nat]] /\ granted \in [Listeners -> SUBSET (0..MaxTime)] /\ clock \in 0..MaxTime
      /\ clock \in Nat /\ HeatRateLimitWindow \in Nat /\ "play" \in Gates
  BY WindowFacts, ListeningConstants DEF ListenTypes, Gates
<1> DEFINE until == IF clock >= gate[u]["play"] THEN clock + HeatRateLimitWindow ELSE gate[u]["play"]
<1>2. gate' = [gate EXCEPT ![u]["play"] = until] BY DEF Allow
<1>3. until \in Nat BY <1>1
<1>4. Allowed(u, "play") <=> clock >= gate[u]["play"] BY DEF Allowed
<1> HIDE DEF until
<1>5. gate' \in [Listeners -> [Gates -> Nat]] /\ gate'[u]["play"] = until /\ \A v \in Listeners \ {u} : gate'[v] = gate[v]
  BY <1>1, <1>2, <1>3
<1>6. granted' \in [Listeners -> SUBSET (0..MaxTime)] /\ \A v \in Listeners \ {u} : granted'[v] = granted[v]
  <2>1. granted[u] \cup {clock} \in SUBSET (0..MaxTime) BY <1>1
  <2> QED BY <1>1, <2>1
<1>7. CASE Allowed(u, "play")
  <2>1. granted'[u] = granted[u] \cup {clock} /\ until = clock + HeatRateLimitWindow BY <1>1, <1>4, <1>7 DEF until
  <2>2. \A a \in granted[u] : a \in Nat /\ a <= clock /\ a + HeatRateLimitWindow <= gate[u]["play"]
    BY <1>1, ListeningConstants DEF GatesHold
  <2>3. \A a \in granted[u] : a + HeatRateLimitWindow <= clock
    <3>1. gate[u]["play"] \in Nat /\ gate[u]["play"] <= clock BY <1>1, <1>4, <1>7
    <3> QED BY <1>1, <2>2, <3>1
  <2>4. \A a \in granted'[u] : a <= clock' /\ a + HeatRateLimitWindow <= gate'[u]["play"]
    BY <1>1, <1>5, <2>1, <2>2
  <2>5. \A a, b \in granted'[u] : a < b => a + HeatRateLimitWindow <= b
    BY <1>1, <2>1, <2>2, <2>3 DEF GatesHold
  <2>6. \A v \in Listeners \ {u} : /\ \A a \in granted'[v] : a <= clock' /\ a + HeatRateLimitWindow <= gate'[v]["play"]
                                   /\ \A a, b \in granted'[v] : a < b => a + HeatRateLimitWindow <= b
    BY <1>5, <1>6 DEF GatesHold
  <2>7. GatesHold' BY <2>4, <2>5, <2>6 DEF GatesHold, HeatRateLimitWindow
  <2> QED BY <1>4, <1>5, <1>6, <1>7, <2>1, <2>7
<1>8. CASE ~Allowed(u, "play")
  <2>1. until = gate[u]["play"] /\ granted' = granted BY <1>1, <1>4, <1>8 DEF until
  <2>2. \A v \in Listeners : gate'[v]["play"] = gate[v]["play"] BY <1>5, <2>1
  <2>3. GatesHold' BY <2>1, <2>2 DEF GatesHold, HeatRateLimitWindow
  <2> QED BY <1>4, <1>5, <1>6, <1>8, <2>2, <2>3
<1> QED BY <1>7, <1>8

LEMMA PassingKeeps ==
  ASSUME ListeningInv, NEW r \in Reports, report[r] # Silence, report[r].pc \in {"play", "scrobble"},
         Allow(report[r].user, "play"),
         granted' = IF Allowed(report[r].user, "play") THEN [granted EXCEPT ![report[r].user] = @ \cup {clock}] ELSE granted,
         UNCHANGED <<clock, listen, track, events, tokens>>, NoJukebox,
         NEW x \in ReportRecords \cup {Silence}, report' = [report EXCEPT ![r] = x],
         x # Silence => /\ x.user = report[r].user /\ x.began = report[r].began /\ x.token = report[r].token
                        /\ x.pc \in {"playc", "count"} /\ x.play = Allowed(report[r].user, "play")
  PROVE  ListeningInv'
<1> DEFINE q == report[r]
<1>1. ListenTypes /\ TimesPast /\ ListenedIsReal /\ GatesHold /\ TokensAreDrawn /\ OwnTokens /\ HeatIsTheLog BY DEF ListeningInv
<1>2. q \in ReportRecords /\ q.user \in Listeners /\ q.token \in 1..MaxReports /\ q.began \in Nat /\ clock \in Nat
      /\ q.token <= tokens /\ q.began <= clock /\ clock <= q.began + MaxLatency
  BY <1>1, ListeningConstants DEF ListenTypes, ReportRecords, TokensAreDrawn, TimesPast
<1>3. /\ gate' \in [Listeners -> [Gates -> Nat]] /\ granted' \in [Listeners -> SUBSET (0..MaxTime)] /\ GatesHold'
      /\ Allowed(q.user, "play") <=> clock >= gate[q.user]["play"]
      /\ Allowed(q.user, "play") => gate'[q.user]["play"] = clock + HeatRateLimitWindow
      /\ ~Allowed(q.user, "play") => gate'[q.user]["play"] = gate[q.user]["play"]
      /\ \A v \in Listeners \ {q.user} : gate'[v]["play"] = gate[v]["play"]
  BY <1>1, <1>2, GateOpens
<1>4. /\ report' \in [Reports -> ReportRecords \cup {Silence}] /\ report'[r] = x
      /\ \A s \in Reports \ {r} : report'[s] = report[s]
      /\ \A s \in Reports : report'[s] # Silence => report'[s].began <= clock' /\ clock' <= report'[s].began + MaxLatency
      /\ \A s \in Reports : report'[s] # Silence => report'[s].token <= tokens'
      /\ active' # Silence => active'.start <= clock'
      /\ \A s \in Reports : BringsToken(s)' => s # r /\ BringsToken(s)
      /\ \A s \in Reports \ {r} : \A u, t : (WaitsFor(s, u, t)' <=> WaitsFor(s, u, t)) /\ (CameThrough(s, u, t)' <=> CameThrough(s, u, t))
      /\ TokensOfHeard' /\ (EmitsInOrder => JukeboxInv')
  <2>1. x # Silence => x.user = q.user /\ x.began = q.began /\ x.pc \notin {"progress", "scrobble"} /\ x.token <= tokens
    BY <1>2
  <2> HIDE DEF q
  <2>2. report[r] = q BY DEF q
  <2> QED BY <2>1, <2>2, RequestGoesOn
<1>5. ListenTypes' BY <1>1, <1>3, <1>4 DEF ListenTypes, NoJukebox
<1>6. TimesPast' /\ ListenedIsReal' BY <1>1, <1>4 DEF TimesPast, ListenedIsReal
<1>7. TokensAreDrawn' BY <1>1, <1>4 DEF TokensAreDrawn
<1>8. OwnTokens'
  <2> SUFFICES ASSUME NEW s \in Reports, BringsToken(s)' PROVE
           /\ \A p \in Reports \ {s} : report'[p] # Silence => report'[p].token # report'[s].token
           /\ \A u \in Listeners : /\ listen'[u] # Silence => listen'[u].token # report'[s].token
                                   /\ <<"play", u, report'[s].token>> \notin events'
           /\ ~report'[s].play /\ ~report'[s].complete
      BY DEF OwnTokens
  <2>1. s # r /\ BringsToken(s) /\ report'[s] = report[s] BY <1>4
  <2>2. /\ \A p \in Reports \ {s} : report[p] # Silence => report[p].token # report[s].token
        /\ \A u \in Listeners : (listen[u] # Silence => listen[u].token # report[s].token) /\ <<"play", u, report[s].token>> \notin events
        /\ ~report[s].play /\ ~report[s].complete
    BY <1>1, <2>1 DEF OwnTokens
  <2> QED BY <1>4, <2>1, <2>2
<1>9. HeatIsTheLog' BY <1>1 DEF HeatIsTheLog, HeatOf, Kind
<1>10. ASSUME Punctual PROVE GateInv'
  <2>1. ThroughOnce /\ ShutForLate /\ ShutForListen /\ ListenedBefore BY <1>10 DEF ListeningInv, GateInv
  <2>2. MaxLatency \in Nat /\ HeatRateLimitWindow \in Nat /\ MaxLatency < HeatRateLimitWindow
        /\ \A u \in Listeners : gate[u]["play"] \in Nat
    BY <1>1, <1>10, ListeningConstants, WindowFacts DEF Punctual, ListenTypes, Gates
  <2>3. \A u, t : CameThrough(r, u, t)' => Allowed(q.user, "play") /\ u = q.user /\ t = q.token
    BY <1>4 DEF CameThrough
  <2>4. \A u, t : ~WaitsFor(r, u, t)' BY <1>4 DEF WaitsFor
  <2>5. \A u, t : ~CameThrough(r, u, t) BY <2>1 DEF CameThrough, ThroughOnce
  <2>6. \A u, t : Opened(u, t)' => Opened(u, t) \/ (Allowed(q.user, "play") /\ u = q.user /\ t = q.token)
    BY <1>4, <2>3 DEF Opened
  <2>7. Allowed(q.user, "play") => ~Opened(q.user, q.token)
    <3>1. CASE q.pc = "scrobble"
      <4>1. BringsToken(r) BY <3>1 DEF BringsToken
      <4>2. /\ <<"play", q.user, q.token>> \notin events
            /\ \A s \in Reports \ {r} : report[s] # Silence => report[s].token # q.token
        BY <1>1, <1>2, <4>1 DEF OwnTokens
      <4> QED BY <2>5, <4>2 DEF Opened, CameThrough
    <3>2. CASE q.pc = "play"
      <4>1. WaitsFor(r, q.user, q.token) BY <3>2 DEF WaitsFor
      <4>2. Opened(q.user, q.token) => q.began + MaxLatency < gate[q.user]["play"] BY <1>2, <2>1, <4>1 DEF ShutForLate
      <4> QED BY <1>2, <1>3, <2>2, <4>2
    <3> QED BY <3>1, <3>2
  <2>8. ThroughOnce'
    <3>1. \A s \in Reports : report'[s] # Silence /\ report'[s].play => report'[s].pc \in {"playc", "count"}
      BY <1>4, <2>1 DEF ThroughOnce
    <3>2. ASSUME NEW s \in Reports, NEW u \in Listeners, NEW t \in 1..MaxReports, CameThrough(s, u, t)'
          PROVE  <<"play", u, t>> \notin events' /\ \A p \in Reports \ {s} : ~CameThrough(p, u, t)'
      <4>1. CASE s = r
        <5>1. u = q.user /\ t = q.token /\ ~Opened(u, t) BY <2>3, <2>7, <3>2, <4>1
        <5> QED BY <1>4, <4>1, <5>1 DEF Opened
      <4>2. CASE s # r
        <5>1. CameThrough(s, u, t) BY <1>4, <3>2, <4>2
        <5>2. Opened(u, t) BY <5>1 DEF Opened
        <5>3. ~CameThrough(r, u, t)' BY <2>3, <2>7, <5>2
        <5> QED BY <1>4, <2>1, <5>1, <5>3 DEF ThroughOnce
      <4> QED BY <4>1, <4>2
    <3> QED BY <3>1, <3>2 DEF ThroughOnce
  <2>9. ShutForLate'
    <3> SUFFICES ASSUME NEW s \in Reports, NEW u \in Listeners, NEW t \in 1..MaxReports, WaitsFor(s, u, t)', Opened(u, t)'
                 PROVE  report'[s].began + MaxLatency < gate'[u]["play"]
        BY DEF ShutForLate
    <3>1. s # r /\ WaitsFor(s, u, t) /\ report'[s] = report[s] BY <1>4, <2>4
    <3>2. report[s].began \in Nat /\ report[s].began <= clock
      BY <1>1, <3>1, ListeningConstants DEF WaitsFor, ListenTypes, ReportRecords, TimesPast
    <3>3. CASE u = q.user /\ Allowed(q.user, "play") BY <1>2, <1>3, <2>2, <3>1, <3>2, <3>3
    <3>4. CASE ~(u = q.user /\ Allowed(q.user, "play"))
      <4>1. Opened(u, t) /\ gate'[u]["play"] = gate[u]["play"] BY <1>3, <2>6, <3>4
      <4> QED BY <2>1, <3>1, <4>1 DEF ShutForLate
    <3> QED BY <3>3, <3>4
  <2>10. ShutForListen'
    <3> SUFFICES ASSUME NEW u \in Listeners, NEW t \in 1..MaxReports, ListensAs(u, t)', Opened(u, t)'
                 PROVE  listen'[u].anchor + HeatRateLimitWindow + MaxLatency <= gate'[u]["play"]
        BY DEF ShutForListen
    <3>1. ListensAs(u, t) BY DEF ListensAs
    <3>2. listen[u].anchor \in Nat BY <1>1, <3>1, ListeningConstants DEF ListensAs, ListenTypes, ListenWindows
    <3>3. CASE Opened(u, t)
      <4>1. listen[u].anchor + HeatRateLimitWindow + MaxLatency <= gate[u]["play"] BY <2>1, <3>1, <3>3 DEF ShutForListen
      <4>2. gate[u]["play"] <= gate'[u]["play"] BY <1>2, <1>3, <2>2
      <4>3. gate'[u]["play"] \in Nat BY <1>3 DEF Gates
      <4> QED BY <2>2, <3>2, <4>1, <4>2, <4>3
    <3>4. CASE ~Opened(u, t)
      <4>1. Allowed(q.user, "play") /\ u = q.user /\ t = q.token BY <2>6, <3>4
      <4>2. q.pc = "play"
        <5>1. BringsToken(r) => listen[u].token # q.token BY <1>1, <3>1 DEF OwnTokens, ListensAs
        <5> QED BY <3>1, <4>1, <5>1 DEF BringsToken, ListensAs
      <4>3. WaitsFor(r, u, t) BY <4>1, <4>2 DEF WaitsFor
      <4>4. listen[u].anchor + MaxLatency <= clock BY <2>1, <3>1, <4>3 DEF ListenedBefore
      <4> QED BY <1>2, <1>3, <2>2, <3>2, <4>1, <4>4
    <3> QED BY <3>3, <3>4
  <2>11. ListenedBefore'
    <3> SUFFICES ASSUME NEW s \in Reports, NEW u \in Listeners, NEW t \in 1..MaxReports, ListensAs(u, t)', WaitsFor(s, u, t)'
                 PROVE  listen'[u].anchor + MaxLatency <= clock'
        BY DEF ListenedBefore
    <3>1. ListensAs(u, t) /\ WaitsFor(s, u, t) BY <1>4, <2>4 DEF ListensAs
    <3> QED BY <2>1, <3>1 DEF ListenedBefore
  <2> QED BY <2>8, <2>9, <2>10, <2>11 DEF GateInv
<1> QED BY <1>3, <1>4, <1>5, <1>6, <1>7, <1>8, <1>9, <1>10 DEF ListeningInv

LEMMA AllowPlayKeeps ==
  ASSUME ListeningInv, NEW r \in Reports, AllowPlay(r)
  PROVE  ListeningInv'
<1> DEFINE q == report[r]  ok == Allowed(q.user, "play")  ends == HeatListenedIsComplete(q.listened)
           x == IF ends THEN [q EXCEPT !.play = ok, !.pc = "playc"]
                ELSE IF ok THEN [q EXCEPT !.play = TRUE, !.pc = "count"] ELSE Silence
<1>1. /\ q # Silence /\ q.pc = "play" /\ Allow(q.user, "play")
      /\ granted' = IF ok THEN [granted EXCEPT ![q.user] = @ \cup {clock}] ELSE granted
      /\ report' = [report EXCEPT ![r] = x] /\ UNCHANGED <<clock, listen, track, events, tokens>> /\ NoJukebox
  BY DEF AllowPlay
<1>2. q \in ReportRecords BY <1>1 DEF ListeningInv, ListenTypes
<1>3. ok \in BOOLEAN BY DEF Allowed
<1>4. CASE ends
  <2> DEFINE z == [q EXCEPT !.play = ok, !.pc = "playc"]
  <2>1. z \in ReportRecords /\ z.user = q.user /\ z.began = q.began /\ z.token = q.token /\ z.pc = "playc" /\ z.play = ok
    <3>1. z = [q EXCEPT !.play = ok, !.pc = "playc"] OBVIOUS
    <3> HIDE DEF z, q, ok
    <3> QED BY <1>2, <1>3, <3>1 DEF ReportRecords
  <2>2. report' = [report EXCEPT ![r] = z] BY <1>1, <1>4
  <2> HIDE DEF z
  <2> QED BY <1>1, <2>1, <2>2, PassingKeeps
<1>5. CASE ~ends /\ ok
  <2> DEFINE z == [q EXCEPT !.play = TRUE, !.pc = "count"]
  <2>1. z \in ReportRecords /\ z.user = q.user /\ z.began = q.began /\ z.token = q.token /\ z.pc = "count" /\ z.play = TRUE
    <3>1. z = [q EXCEPT !.play = TRUE, !.pc = "count"] OBVIOUS
    <3> HIDE DEF z, q, ok
    <3> QED BY <1>2, <3>1 DEF ReportRecords
  <2>2. report' = [report EXCEPT ![r] = z] BY <1>1, <1>5
  <2> HIDE DEF z
  <2> QED BY <1>1, <1>5, <2>1, <2>2, PassingKeeps
<1>6. CASE ~ends /\ ~ok
  <2>1. report' = [report EXCEPT ![r] = Silence] BY <1>1, <1>6
  <2> QED BY <1>1, <1>6, <2>1, PassingKeeps
<1> QED BY <1>4, <1>5, <1>6

LEMMA ScrobbleKeeps ==
  ASSUME ListeningInv, NEW r \in Reports, Scrobble(r)
  PROVE  ListeningInv'
<1> DEFINE q == report[r]  ok == Allowed(q.user, "play")
           x == IF ok THEN [q EXCEPT !.pc = "count", !.play = TRUE] ELSE Silence
<1>1. /\ q # Silence /\ q.pc = "scrobble" /\ Allow(q.user, "play")
      /\ granted' = IF ok THEN [granted EXCEPT ![q.user] = @ \cup {clock}] ELSE granted
      /\ report' = [report EXCEPT ![r] = x] /\ UNCHANGED <<clock, listen, track, events, tokens>> /\ NoJukebox
  BY DEF Scrobble
<1>2. q \in ReportRecords BY <1>1 DEF ListeningInv, ListenTypes
<1>3. CASE ok
  <2> DEFINE z == [q EXCEPT !.pc = "count", !.play = TRUE]
  <2>1. z \in ReportRecords /\ z.user = q.user /\ z.began = q.began /\ z.token = q.token /\ z.pc = "count" /\ z.play = TRUE
    <3>1. z = [q EXCEPT !.pc = "count", !.play = TRUE] OBVIOUS
    <3> HIDE DEF z, q, ok
    <3> QED BY <1>2, <3>1 DEF ReportRecords
  <2>2. report' = [report EXCEPT ![r] = z] BY <1>1, <1>3
  <2> HIDE DEF z
  <2> QED BY <1>1, <1>3, <2>1, <2>2, PassingKeeps
<1>4. CASE ~ok
  <2>1. report' = [report EXCEPT ![r] = Silence] BY <1>1, <1>4
  <2> QED BY <1>1, <1>4, <2>1, PassingKeeps
<1> QED BY <1>3, <1>4

-----------------------------------------------------------------------------
(* Steps that open no gate and touch no listen.  A play that is counted    *)
(* moves from its request to the log.                                      *)

LEMMA UnheardKeeps ==
  ASSUME ListeningInv, UNCHANGED <<listen, granted>>, clock' \in 0..MaxTime, tokens' \in 0..MaxReports,
         clock <= clock', tokens <= tokens',
         gate' \in [Listeners -> [Gates -> Nat]], \A u \in Listeners : gate'[u]["play"] = gate[u]["play"],
         track' \in [heat : Nat, plays : Nat], events' \subseteq EventKeys, IsFiniteSet(events'), HeatIsTheLog',
         report' \in [Reports -> ReportRecords \cup {Silence}],
         voice' \in Voices, emits' \in Seq(Voices), active' \in JukeListens \cup {Silence},
         heard' \subseteq HeardRecords, IsFiniteSet(heard'), active' # Silence => active'.start <= clock',
         \A s \in Reports : report'[s] # Silence =>
             /\ report'[s].began <= clock' /\ clock' <= report'[s].began + MaxLatency /\ report'[s].token <= tokens',
         \A s \in Reports : \A u, t : WaitsFor(s, u, t)' => WaitsFor(s, u, t) /\ report'[s].began = report[s].began,
         \A s \in Reports : \A u, t : CameThrough(s, u, t)' =>
             CameThrough(s, u, t) /\ (report'[s] = report[s] \/ report'[s].pc \in {"playc", "count"}),
         \A u \in Listeners : \A t : <<"play", u, t>> \in events' =>
             <<"play", u, t>> \in events \/ \E r \in Reports : CameThrough(r, u, t) /\ ~CameThrough(r, u, t)',
         OwnTokens', TokensOfHeard', EmitsInOrder => JukeboxInv'
  PROVE  ListeningInv'
<1>1. ListenTypes /\ TimesPast /\ ListenedIsReal /\ GatesHold /\ TokensAreDrawn BY DEF ListeningInv
<1>2. ListenTypes' BY <1>1 DEF ListenTypes
<1>3. clock \in Nat /\ clock' \in Nat /\ tokens \in Nat /\ tokens' \in Nat BY <1>1, ListeningConstants DEF ListenTypes
<1>4. \A u \in Listeners : listen[u] # Silence =>
          listen[u].anchor \in Nat /\ listen[u].lastUpdate \in Nat /\ listen[u].token \in 1..MaxReports
  BY <1>1, ListeningConstants DEF ListenTypes, ListenWindows
<1>5. TimesPast' /\ ListenedIsReal' BY <1>1, <1>3, <1>4 DEF TimesPast, ListenedIsReal
<1>6. GatesHold'
  <2>1. \A u \in Listeners : granted[u] \subseteq 0..MaxTime BY <1>1 DEF ListenTypes
  <2>2. \A u \in Listeners : \A a \in granted[u] : a \in Nat BY <2>1, ListeningConstants
  <2> SUFFICES ASSUME NEW u \in Listeners
               PROVE  /\ \A a \in granted[u] : a <= clock' /\ a + HeatRateLimitWindow <= gate'[u]["play"]
                      /\ \A a, b \in granted[u] : a < b => a + HeatRateLimitWindow <= b
      BY DEF GatesHold, HeatRateLimitWindow
  <2>3. \A a \in granted[u] : a <= clock /\ a + HeatRateLimitWindow <= gate[u]["play"] BY <1>1 DEF GatesHold
  <2>4. \A a, b \in granted[u] : a < b => a + HeatRateLimitWindow <= b BY <1>1 DEF GatesHold
  <2>5. \A a \in granted[u] : a <= clock' BY <1>3, <2>2, <2>3
  <2> QED BY <2>3, <2>4, <2>5
<1>7. TokensAreDrawn'
  <2>1. \A u \in Listeners : listen'[u] # Silence => listen'[u].token <= tokens' BY <1>1, <1>3, <1>4 DEF TokensAreDrawn
  <2>2. ASSUME NEW u \in Listeners, NEW t \in 1..MaxReports, <<"play", u, t>> \in events' PROVE t <= tokens'
    <3>1. CASE <<"play", u, t>> \in events BY <1>1, <1>3, <3>1, ListeningConstants DEF TokensAreDrawn
    <3>2. CASE <<"play", u, t>> \notin events
      <4>1. PICK r \in Reports : CameThrough(r, u, t) BY <2>2, <3>2
      <4>2. t <= tokens BY <1>1, <4>1 DEF TokensAreDrawn, CameThrough
      <4> QED BY <1>3, <4>2, ListeningConstants
    <3> QED BY <3>1, <3>2
  <2> QED BY <2>1, <2>2 DEF TokensAreDrawn
<1>8. ASSUME Punctual PROVE GateInv'
  <2>1. ThroughOnce /\ ShutForLate /\ ShutForListen /\ ListenedBefore BY <1>8 DEF ListeningInv, GateInv
  <2>2. ASSUME NEW u \in Listeners, NEW t, Opened(u, t)' PROVE Opened(u, t)
    <3>1. <<"play", u, t>> \in events' \/ \E s \in Reports : CameThrough(s, u, t)' BY <2>2 DEF Opened
    <3> QED BY <3>1 DEF Opened
  <2>3. ThroughOnce'
    <3>1. \A s \in Reports : report'[s] # Silence /\ report'[s].play => report'[s].pc \in {"playc", "count"}
      <4> SUFFICES ASSUME NEW s \in Reports, report'[s] # Silence, report'[s].play PROVE report'[s].pc \in {"playc", "count"} OBVIOUS
      <4> DEFINE u == report'[s].user  t == report'[s].token
      <4>1. \E v, w : v = u /\ w = t OBVIOUS
      <4>2. PICK v, w : v = u /\ w = t BY <4>1
      <4>3. CameThrough(s, v, w)' BY <4>2 DEF CameThrough
      <4>4. report'[s] = report[s] \/ report'[s].pc \in {"playc", "count"} BY <4>3
      <4> QED BY <2>1, <4>4 DEF ThroughOnce
    <3>2. ASSUME NEW s \in Reports, NEW u \in Listeners, NEW t \in 1..MaxReports, CameThrough(s, u, t)'
          PROVE  <<"play", u, t>> \notin events' /\ \A p \in Reports \ {s} : ~CameThrough(p, u, t)'
      <4>1. CameThrough(s, u, t) BY <3>2
      <4>2. <<"play", u, t>> \notin events /\ \A p \in Reports \ {s} : ~CameThrough(p, u, t) BY <2>1, <4>1 DEF ThroughOnce
      <4>3. ASSUME <<"play", u, t>> \in events' PROVE FALSE
        <5>1. PICK p \in Reports : CameThrough(p, u, t) /\ ~CameThrough(p, u, t)' BY <4>2, <4>3
        <5>2. p # s BY <3>2, <5>1
        <5> QED BY <4>2, <5>1, <5>2
      <4> QED BY <4>2, <4>3
    <3> QED BY <3>1, <3>2 DEF ThroughOnce
  <2>4. ShutForLate'
    <3> SUFFICES ASSUME NEW s \in Reports, NEW u \in Listeners, NEW t \in 1..MaxReports, WaitsFor(s, u, t)', Opened(u, t)'
                 PROVE  report'[s].began + MaxLatency < gate'[u]["play"]
        BY DEF ShutForLate
    <3>1. WaitsFor(s, u, t) /\ Opened(u, t) BY <2>2
    <3> QED BY <2>1, <3>1 DEF ShutForLate
  <2>5. ShutForListen'
    <3> SUFFICES ASSUME NEW u \in Listeners, NEW t \in 1..MaxReports, ListensAs(u, t)', Opened(u, t)'
                 PROVE  listen'[u].anchor + HeatRateLimitWindow + MaxLatency <= gate'[u]["play"]
        BY DEF ShutForListen
    <3>1. ListensAs(u, t) /\ Opened(u, t) BY <2>2 DEF ListensAs
    <3> QED BY <2>1, <3>1 DEF ShutForListen
  <2>6. ListenedBefore'
    <3> SUFFICES ASSUME NEW s \in Reports, NEW u \in Listeners, NEW t \in 1..MaxReports, ListensAs(u, t)', WaitsFor(s, u, t)'
                 PROVE  listen'[u].anchor + MaxLatency <= clock'
        BY DEF ListenedBefore
    <3>1. ListensAs(u, t) /\ WaitsFor(s, u, t) BY DEF ListensAs
    <3>2. listen[u].anchor + MaxLatency <= clock /\ listen[u].anchor \in Nat BY <1>4, <2>1, <3>1 DEF ListenedBefore, ListensAs
    <3> QED BY <1>3, <3>2, ListeningConstants
  <2> QED BY <2>3, <2>4, <2>5, <2>6 DEF GateInv
<1> QED BY <1>2, <1>5, <1>6, <1>7, <1>8 DEF ListeningInv

LEMMA OwnTokensStay ==
  ASSUME ListeningInv, listen' = listen,
         \A s \in Reports : BringsToken(s)' => BringsToken(s) /\ report'[s] = report[s],
         \A s \in Reports : report'[s] # Silence => report[s] # Silence /\ report'[s].token = report[s].token,
         \A u \in Listeners : \A t : <<"play", u, t>> \in events' =>
             \/ <<"play", u, t>> \in events
             \/ \E r \in Reports : report[r] # Silence /\ ~BringsToken(r) /\ report[r].token = t
  PROVE  OwnTokens'
<1> SUFFICES ASSUME NEW s \in Reports, BringsToken(s)' PROVE
         /\ \A p \in Reports \ {s} : report'[p] # Silence => report'[p].token # report'[s].token
         /\ \A u \in Listeners : /\ listen'[u] # Silence => listen'[u].token # report'[s].token
                                 /\ <<"play", u, report'[s].token>> \notin events'
         /\ ~report'[s].play /\ ~report'[s].complete
    BY DEF OwnTokens
<1>1. BringsToken(s) /\ report'[s] = report[s] OBVIOUS
<1>2. /\ \A p \in Reports \ {s} : report[p] # Silence => report[p].token # report[s].token
      /\ \A u \in Listeners : (listen[u] # Silence => listen[u].token # report[s].token) /\ <<"play", u, report[s].token>> \notin events
      /\ ~report[s].play /\ ~report[s].complete
  BY <1>1 DEF ListeningInv, OwnTokens
<1>3. \A p \in Reports \ {s} : report'[p] # Silence => report'[p].token # report'[s].token BY <1>1, <1>2
<1>4. ASSUME NEW u \in Listeners PROVE <<"play", u, report'[s].token>> \notin events'
  <2>1. SUFFICES ASSUME <<"play", u, report'[s].token>> \in events' PROVE FALSE OBVIOUS
  <2>2. PICK r \in Reports : report[r] # Silence /\ ~BringsToken(r) /\ report[r].token = report[s].token BY <1>1, <1>2, <2>1
  <2>3. r # s BY <1>1, <2>2
  <2> QED BY <1>2, <2>2, <2>3
<1> QED BY <1>1, <1>2, <1>3, <1>4

LEMMA AllowCompleteKeeps ==
  ASSUME ListeningInv, NEW r \in Reports, AllowComplete(r)
  PROVE  ListeningInv'
<1> DEFINE q == report[r]  ok == Allowed(q.user, "playc")
           x == IF ok \/ q.play THEN [q EXCEPT !.complete = ok, !.pc = "count"] ELSE Silence
           until == IF clock >= gate[q.user]["playc"] THEN clock + HeatRateLimitWindow ELSE gate[q.user]["playc"]
<1>1. /\ q # Silence /\ q.pc = "playc" /\ gate' = [gate EXCEPT ![q.user]["playc"] = until]
      /\ report' = [report EXCEPT ![r] = x] /\ UNCHANGED <<clock, listen, track, events, tokens, granted>> /\ NoJukebox
  BY DEF AllowComplete, Allow
<1>2. ListenTypes /\ HeatIsTheLog /\ TokensAreDrawn BY DEF ListeningInv
<1>3. q \in ReportRecords /\ q.user \in Listeners /\ clock \in Nat /\ HeatRateLimitWindow \in Nat /\ ok \in BOOLEAN
      /\ gate \in [Listeners -> [Gates -> Nat]] /\ q.token <= tokens
  BY <1>1, <1>2, WindowFacts, ListeningConstants DEF ListenTypes, ReportRecords, Allowed, TokensAreDrawn
<1>4. until \in Nat BY <1>3 DEF Gates
<1>5. gate' \in [Listeners -> [Gates -> Nat]] /\ \A u \in Listeners : gate'[u]["play"] = gate[u]["play"]
  <2> HIDE DEF until, q
  <2> QED BY <1>1, <1>3, <1>4 DEF Gates
<1>6. x \in ReportRecords \cup {Silence} /\ (x # Silence => /\ x.user = q.user /\ x.began = q.began /\ x.token = q.token
                                                             /\ x.pc = "count" /\ x.play = q.play)
  <2>1. CASE ok \/ q.play
    <3>1. x = [q EXCEPT !.complete = ok, !.pc = "count"] BY <2>1
    <3> HIDE DEF x, q, ok
    <3> QED BY <1>3, <3>1 DEF ReportRecords
  <2>2. CASE ~(ok \/ q.play) BY <2>2
  <2> QED BY <2>1, <2>2
<1> HIDE DEF x, ok, until
<1>7. /\ report' \in [Reports -> ReportRecords \cup {Silence}] /\ report'[r] = x
      /\ \A s \in Reports \ {r} : report'[s] = report[s]
      /\ \A s \in Reports : report'[s] # Silence => report'[s].began <= clock' /\ clock' <= report'[s].began + MaxLatency
      /\ \A s \in Reports : report'[s] # Silence => report'[s].token <= tokens'
      /\ active' # Silence => active'.start <= clock'
      /\ \A s \in Reports : BringsToken(s)' => s # r /\ BringsToken(s)
      /\ \A s \in Reports \ {r} : \A u, t : (WaitsFor(s, u, t)' <=> WaitsFor(s, u, t)) /\ (CameThrough(s, u, t)' <=> CameThrough(s, u, t))
      /\ TokensOfHeard' /\ (EmitsInOrder => JukeboxInv')
  <2>1. x # Silence => x.user = q.user /\ x.began = q.began /\ x.pc \notin {"progress", "scrobble"} /\ x.token <= tokens
    BY <1>3, <1>6
  <2>2. report[r] = q BY DEF q
  <2> HIDE DEF q
  <2> QED BY <1>1, <1>6, <2>1, <2>2, RequestGoesOn
<1>8. \A s \in Reports : \A u, t : WaitsFor(s, u, t)' => WaitsFor(s, u, t) /\ report'[s].began = report[s].began
  <2>1. \A u, t : ~WaitsFor(r, u, t)' BY <1>6, <1>7 DEF WaitsFor
  <2> QED BY <1>7, <2>1
<1>9. \A s \in Reports : \A u, t : CameThrough(s, u, t)' => CameThrough(s, u, t)
  <2>1. \A u, t : CameThrough(r, u, t)' => CameThrough(r, u, t) BY <1>1, <1>6, <1>7 DEF CameThrough
  <2> QED BY <1>7, <2>1
<1>10. \A s \in Reports : report'[s] = report[s] \/ report'[s] = Silence \/ report'[s].pc = "count" BY <1>6, <1>7
<1>11. OwnTokens'
  <2>1. ~BringsToken(r) BY <1>1 DEF BringsToken
  <2>2. \A s \in Reports : BringsToken(s)' => BringsToken(s) /\ report'[s] = report[s] BY <1>7
  <2>3. \A s \in Reports : report'[s] # Silence => report[s] # Silence /\ report'[s].token = report[s].token
    BY <1>1, <1>6, <1>7
  <2> QED BY <1>1, <2>2, <2>3, OwnTokensStay
<1>12. HeatIsTheLog' BY <1>1, <1>2 DEF HeatIsTheLog, HeatOf, Kind
<1>13. \A s \in Reports : \A u, t : CameThrough(s, u, t)' =>
          CameThrough(s, u, t) /\ (report'[s] = report[s] \/ report'[s].pc \in {"playc", "count"})
  BY <1>9, <1>10 DEF CameThrough
<1> QED
  <2>1. voice' = voice /\ emits' = emits /\ active' = active /\ heard' = heard BY <1>1 DEF NoJukebox
  <2>2. clock \in 0..MaxTime /\ tokens \in 0..MaxReports /\ clock <= clock /\ tokens <= tokens
    BY <1>2, ListeningConstants DEF ListenTypes
  <2>3. /\ track \in [heat : Nat, plays : Nat] /\ events \subseteq EventKeys /\ IsFiniteSet(events) /\ voice \in Voices
        /\ emits \in Seq(Voices) /\ active \in JukeListens \cup {Silence} /\ heard \subseteq HeardRecords /\ IsFiniteSet(heard)
    BY <1>2 DEF ListenTypes
  <2> HIDE DEF q
  <2> QED BY <1>1, <1>5, <1>7, <1>8, <1>11, <1>12, <1>13, <2>1, <2>2, <2>3, UnheardKeeps

LEMMA CountKeeps ==
  ASSUME ListeningInv, NEW r \in Reports, Count(r)
  PROVE  ListeningInv'
<1> DEFINE q == report[r]
           keys == (IF q.play THEN {<<"play", q.user, q.token>>} ELSE {})
                   \cup (IF q.complete THEN {<<"playc", q.user, q.token>>} ELSE {})
<1>1. /\ q # Silence /\ q.pc = "count" /\ Award(keys) /\ report' = [report EXCEPT ![r] = Silence]
      /\ UNCHANGED <<clock, listen, gate, tokens, granted>> /\ NoJukebox
  BY DEF Count, CountPlay
<1>2. ListenTypes /\ HeatIsTheLog BY DEF ListeningInv
<1>3. q \in ReportRecords /\ q.user \in Listeners /\ q.token \in 0..MaxReports
  BY <1>1, <1>2, ListeningConstants DEF ListenTypes, ReportRecords
<1>4. keys \subseteq {<<"play", q.user, q.token>>, <<"playc", q.user, q.token>>}
      /\ {<<"play", q.user, q.token>>, <<"playc", q.user, q.token>>} \subseteq EventKeys
  BY <1>3 DEF EventKeys
<1>5. keys \in SUBSET EventKeys /\ IsFiniteSet(keys)
  <2>1. IsFiniteSet({<<"play", q.user, q.token>>}) /\ IsFiniteSet({<<"playc", q.user, q.token>>}) BY FS_Singleton
  <2>2. IsFiniteSet({<<"play", q.user, q.token>>} \cup {<<"playc", q.user, q.token>>}) BY <2>1, FS_Union
  <2>3. keys \subseteq {<<"play", q.user, q.token>>} \cup {<<"playc", q.user, q.token>>} BY <1>4
  <2> QED BY <1>4, <2>2, <2>3, FS_Subset
<1>6. \A u, t : <<"play", u, t>> \in keys => q.play /\ u = q.user /\ t = q.token OBVIOUS
<1> HIDE DEF keys
<1>7. /\ events' = events \cup keys /\ events' \subseteq EventKeys /\ IsFiniteSet(events')
      /\ track' \in [heat : Nat, plays : Nat] /\ HeatIsTheLog'
  BY <1>1, <1>2, <1>5, AwardKeepsLog
<1>8. /\ report' \in [Reports -> ReportRecords \cup {Silence}] /\ report'[r] = Silence
      /\ \A s \in Reports \ {r} : report'[s] = report[s]
      /\ \A s \in Reports : report'[s] # Silence => report'[s].began <= clock' /\ clock' <= report'[s].began + MaxLatency
      /\ \A s \in Reports : report'[s] # Silence => report'[s].token <= tokens'
      /\ active' # Silence => active'.start <= clock'
      /\ \A s \in Reports : BringsToken(s)' => s # r /\ BringsToken(s)
      /\ \A s \in Reports \ {r} : \A u, t : (WaitsFor(s, u, t)' <=> WaitsFor(s, u, t)) /\ (CameThrough(s, u, t)' <=> CameThrough(s, u, t))
      /\ TokensOfHeard' /\ (EmitsInOrder => JukeboxInv')
  BY <1>1, RequestGoesOn
<1>9. \A u, t : ~WaitsFor(r, u, t)' /\ ~CameThrough(r, u, t)' BY <1>8 DEF WaitsFor, CameThrough
<1>10. \A s \in Reports : \A u, t : WaitsFor(s, u, t)' => WaitsFor(s, u, t) /\ report'[s].began = report[s].began BY <1>8, <1>9
<1>11. \A s \in Reports : \A u, t : CameThrough(s, u, t)' =>
          CameThrough(s, u, t) /\ (report'[s] = report[s] \/ report'[s].pc \in {"playc", "count"})
  BY <1>8, <1>9
<1>12. \A u \in Listeners : \A t : <<"play", u, t>> \in events' =>
          <<"play", u, t>> \in events \/ \E s \in Reports : CameThrough(s, u, t) /\ ~CameThrough(s, u, t)'
  <2>1. \A u, t : <<"play", u, t>> \in keys => CameThrough(r, u, t) BY <1>1, <1>6 DEF CameThrough
  <2> QED BY <1>7, <1>9, <2>1
<1>13. OwnTokens'
  <2>1. ~BringsToken(r) BY <1>1 DEF BringsToken
  <2>2. \A s \in Reports : BringsToken(s)' => BringsToken(s) /\ report'[s] = report[s] BY <1>8
  <2>3. \A s \in Reports : report'[s] # Silence => report[s] # Silence /\ report'[s].token = report[s].token BY <1>8
  <2>4. \A u \in Listeners : \A t : <<"play", u, t>> \in events' =>
             \/ <<"play", u, t>> \in events
             \/ \E s \in Reports : report[s] # Silence /\ ~BringsToken(s) /\ report[s].token = t
    BY <1>1, <1>6, <1>7, <2>1
  <2> QED BY <1>1, <2>2, <2>3, <2>4, OwnTokensStay
<1> QED
  <2>1. voice' = voice /\ emits' = emits /\ active' = active /\ heard' = heard BY <1>1 DEF NoJukebox
  <2>2. clock \in 0..MaxTime /\ tokens \in 0..MaxReports /\ clock <= clock /\ tokens <= tokens
    BY <1>2, ListeningConstants DEF ListenTypes
  <2>3. /\ gate \in [Listeners -> [Gates -> Nat]] /\ voice \in Voices
        /\ emits \in Seq(Voices) /\ active \in JukeListens \cup {Silence} /\ heard \subseteq HeardRecords /\ IsFiniteSet(heard)
    BY <1>2 DEF ListenTypes
  <2> HIDE DEF q
  <2> QED BY <1>1, <1>7, <1>8, <1>10, <1>11, <1>12, <1>13, <2>1, <2>2, <2>3, UnheardKeeps

LEMMA BeginKeeps ==
  ASSUME ListeningInv, NEW r \in Reports, NEW u \in Listeners, NEW p \in 0..Duration, NEW kind \in {"progress", "scrobble"},
         ReportBegins(r, u, p, kind)
  PROVE  ListeningInv'
<1> DEFINE x == [pc |-> kind, user |-> u, token |-> tokens + 1, began |-> clock,
                 pos |-> p, listened |-> 0, play |-> FALSE, complete |-> FALSE]
<1>1. /\ report[r] = Silence /\ tokens < MaxReports /\ tokens' = tokens + 1 /\ report' = [report EXCEPT ![r] = x]
      /\ UNCHANGED <<clock, listen, gate, track, events, granted>> /\ NoJukebox
  BY DEF ReportBegins
<1>2. ListenTypes /\ TimesPast /\ TokensAreDrawn /\ OwnTokens /\ HeatIsTheLog BY DEF ListeningInv
<1>3. tokens \in Nat /\ tokens' \in 0..MaxReports /\ tokens + 1 \in 1..MaxReports /\ tokens <= tokens' /\ clock \in 0..MaxTime
      /\ clock \in Nat /\ clock <= clock /\ clock <= clock + MaxLatency
  BY <1>1, <1>2, ListeningConstants DEF ListenTypes
<1>4. x \in ReportRecords BY <1>3 DEF ReportRecords
<1>5. x.pc = kind /\ x.token = tokens + 1 /\ x.began = clock /\ x.play = FALSE /\ x.complete = FALSE OBVIOUS
<1> HIDE DEF x
<1>6. /\ report' \in [Reports -> ReportRecords \cup {Silence}] /\ report'[r] = x /\ \A s \in Reports \ {r} : report'[s] = report[s]
  BY <1>1, <1>2, <1>4, ReportTurns
<1>7. \A s \in Reports : report[s] # Silence => report[s].token <= tokens /\ report[s].token \in Nat
  BY <1>2, ListeningConstants DEF ListenTypes, ReportRecords, TokensAreDrawn
<1>8. \A s \in Reports : report'[s] # Silence =>
          /\ report'[s].began <= clock' /\ clock' <= report'[s].began + MaxLatency /\ report'[s].token <= tokens'
  <2>1. \A s \in Reports \ {r} : report[s] # Silence =>
           report[s].began <= clock /\ clock <= report[s].began + MaxLatency /\ report[s].token <= tokens'
    BY <1>1, <1>2, <1>3, <1>7 DEF TimesPast
  <2> QED BY <1>1, <1>3, <1>5, <1>6, <2>1
<1>9. \A s \in Reports : \A v, t : WaitsFor(s, v, t)' => WaitsFor(s, v, t) /\ report'[s].began = report[s].began
  <2>1. \A v, t : ~WaitsFor(r, v, t)' BY <1>5, <1>6 DEF WaitsFor
  <2> QED BY <1>6, <2>1 DEF WaitsFor
<1>10. \A s \in Reports : \A v, t : CameThrough(s, v, t)' =>
          CameThrough(s, v, t) /\ (report'[s] = report[s] \/ report'[s].pc \in {"playc", "count"})
  <2>1. \A v, t : ~CameThrough(r, v, t)' BY <1>5, <1>6 DEF CameThrough
  <2> QED BY <1>6, <2>1 DEF CameThrough
<1>11. OwnTokens'
  <2> SUFFICES ASSUME NEW s \in Reports, BringsToken(s)' PROVE
         /\ \A q \in Reports \ {s} : report'[q] # Silence => report'[q].token # report'[s].token
         /\ \A v \in Listeners : /\ listen'[v] # Silence => listen'[v].token # report'[s].token
                                 /\ <<"play", v, report'[s].token>> \notin events'
         /\ ~report'[s].play /\ ~report'[s].complete
    BY DEF OwnTokens
  <2>1. CASE s = r
    <3>1. report'[s] = x BY <1>6, <2>1
    <3>2. \A q \in Reports \ {s} : report'[q] # Silence => report'[q].token # tokens + 1 BY <1>3, <1>6, <1>7, <2>1
    <3>3. \A v \in Listeners : listen[v] # Silence => listen[v].token # tokens + 1
      <4>1. \A v \in Listeners : listen[v] # Silence => listen[v].token <= tokens /\ listen[v].token \in Nat
        BY <1>2, ListeningConstants DEF ListenTypes, ListenWindows, TokensAreDrawn
      <4> QED BY <1>3, <4>1
    <3>4. \A v \in Listeners : <<"play", v, tokens + 1>> \notin events BY <1>2, <1>3 DEF TokensAreDrawn
    <3> QED BY <1>1, <1>5, <3>1, <3>2, <3>3, <3>4
  <2>2. CASE s # r
    <3>1. BringsToken(s) /\ report'[s] = report[s] BY <1>6, <2>2 DEF BringsToken
    <3>2. /\ \A q \in Reports \ {s} : report[q] # Silence => report[q].token # report[s].token
          /\ \A v \in Listeners : (listen[v] # Silence => listen[v].token # report[s].token) /\ <<"play", v, report[s].token>> \notin events
          /\ ~report[s].play /\ ~report[s].complete
      BY <1>2, <3>1 DEF OwnTokens
    <3>3. x.token # report[s].token BY <1>3, <1>5, <1>7, <3>1 DEF BringsToken
    <3> QED BY <1>1, <1>6, <2>2, <3>1, <3>2, <3>3
  <2> QED BY <2>1, <2>2
<1>12. HeatIsTheLog' BY <1>1, <1>2 DEF HeatIsTheLog, HeatOf, Kind
<1>13. TokensOfHeard' /\ (EmitsInOrder => JukeboxInv') /\ (active' # Silence => active'.start <= clock')
  BY <1>1, <1>3, JukeboxStays
<1> QED
  <2>1. voice' = voice /\ emits' = emits /\ active' = active /\ heard' = heard BY <1>1 DEF NoJukebox
  <2>2. /\ track \in [heat : Nat, plays : Nat] /\ events \subseteq EventKeys /\ IsFiniteSet(events) /\ voice \in Voices
        /\ gate \in [Listeners -> [Gates -> Nat]]
        /\ emits \in Seq(Voices) /\ active \in JukeListens \cup {Silence} /\ heard \subseteq HeardRecords /\ IsFiniteSet(heard)
    BY <1>2 DEF ListenTypes
  <2> QED BY <1>1, <1>3, <1>6, <1>8, <1>9, <1>10, <1>11, <1>12, <1>13, <2>1, <2>2, UnheardKeeps

LEMMA TickKeeps ==
  ASSUME ListeningInv, Tick
  PROVE  ListeningInv'
<1>1. /\ clock < MaxTime /\ clock' = clock + 1 /\ \A r \in Reports : report[r] # Silence => clock - report[r].began < MaxLatency
      /\ UNCHANGED <<listen, gate, track, events, report, tokens, granted>> /\ NoJukebox
  BY DEF Tick
<1>2. ListenTypes /\ TimesPast /\ TokensAreDrawn /\ OwnTokens /\ HeatIsTheLog BY DEF ListeningInv
<1>3. clock \in Nat /\ clock' \in 0..MaxTime /\ clock' \in Nat /\ clock <= clock' /\ tokens \in Nat /\ tokens \in 0..MaxReports /\ tokens <= tokens
  BY <1>1, <1>2, ListeningConstants DEF ListenTypes
<1>4. \A s \in Reports : report'[s] # Silence =>
          /\ report'[s].began <= clock' /\ clock' <= report'[s].began + MaxLatency /\ report'[s].token <= tokens'
  <2> SUFFICES ASSUME NEW s \in Reports, report[s] # Silence
               PROVE  report[s].began <= clock' /\ clock' <= report[s].began + MaxLatency /\ report[s].token <= tokens
      BY <1>1
  <2>1. report[s].began \in Nat /\ report[s].began <= clock /\ report[s].token <= tokens
    BY <1>2, ListeningConstants DEF ListenTypes, ReportRecords, TimesPast, TokensAreDrawn
  <2>2. clock - report[s].began < MaxLatency BY <1>1
  <2> QED BY <1>1, <1>3, <2>1, <2>2, ListeningConstants
<1>5. \A s \in Reports : \A v, t : (WaitsFor(s, v, t)' => WaitsFor(s, v, t)) /\ (CameThrough(s, v, t)' => CameThrough(s, v, t))
  BY <1>1 DEF WaitsFor, CameThrough
<1>6. OwnTokens' /\ HeatIsTheLog' BY <1>1, <1>2 DEF OwnTokens, BringsToken, HeatIsTheLog, HeatOf, Kind
<1>7. TokensOfHeard' /\ (EmitsInOrder => JukeboxInv') /\ (active' # Silence => active'.start <= clock')
  BY <1>1, <1>3, JukeboxStays
<1> QED
  <2>1. voice' = voice /\ emits' = emits /\ active' = active /\ heard' = heard BY <1>1 DEF NoJukebox
  <2>2. /\ track \in [heat : Nat, plays : Nat] /\ events \subseteq EventKeys /\ IsFiniteSet(events) /\ voice \in Voices
        /\ gate \in [Listeners -> [Gates -> Nat]] /\ report \in [Reports -> ReportRecords \cup {Silence}]
        /\ emits \in Seq(Voices) /\ active \in JukeListens \cup {Silence} /\ heard \subseteq HeardRecords /\ IsFiniteSet(heard)
    BY <1>2 DEF ListenTypes
  <2> QED BY <1>1, <1>3, <1>4, <1>5, <1>6, <1>7, <2>1, <2>2, UnheardKeeps

(* Nothing but the log and the jukebox changes.                            *)
LEMMA RequestsStay ==
  ASSUME ListeningInv, UNCHANGED <<clock, listen, gate, report, granted>>, tokens' \in 0..MaxReports, tokens <= tokens',
         track' \in [heat : Nat, plays : Nat], events' \subseteq EventKeys, IsFiniteSet(events'), HeatIsTheLog',
         \A u \in Listeners : \A t : <<"play", u, t>> \in events' => <<"play", u, t>> \in events,
         voice' \in Voices, emits' \in Seq(Voices), active' \in JukeListens \cup {Silence},
         heard' \subseteq HeardRecords, IsFiniteSet(heard'), active' # Silence => active'.start <= clock,
         TokensOfHeard', EmitsInOrder => JukeboxInv'
  PROVE  ListeningInv'
<1>1. ListenTypes /\ TimesPast /\ TokensAreDrawn BY DEF ListeningInv
<1>2. clock \in 0..MaxTime /\ clock \in Nat /\ clock <= clock /\ tokens \in Nat /\ tokens' \in Nat BY <1>1, ListeningConstants DEF ListenTypes
<1>3. \A s \in Reports : report'[s] # Silence =>
          /\ report'[s].began <= clock' /\ clock' <= report'[s].began + MaxLatency /\ report'[s].token <= tokens'
  <2>1. \A s \in Reports : report[s] # Silence => report[s].token <= tokens /\ report[s].token \in Nat
    BY <1>1, ListeningConstants DEF ListenTypes, ReportRecords, TokensAreDrawn
  <2>2. \A s \in Reports : report[s] # Silence => report[s].token <= tokens' BY <1>2, <2>1
  <2> QED BY <1>1, <2>2 DEF TimesPast
<1>4. \A s \in Reports : \A v, t : (WaitsFor(s, v, t)' => WaitsFor(s, v, t)) /\ (CameThrough(s, v, t)' => CameThrough(s, v, t))
  BY DEF WaitsFor, CameThrough
<1>5. OwnTokens'
  <2>1. \A s \in Reports : BringsToken(s)' => BringsToken(s) /\ report'[s] = report[s] BY DEF BringsToken
  <2> QED BY <2>1, OwnTokensStay
<1>6. gate \in [Listeners -> [Gates -> Nat]] /\ report \in [Reports -> ReportRecords \cup {Silence}] BY <1>1 DEF ListenTypes
<1> QED BY <1>2, <1>3, <1>4, <1>5, <1>6, UnheardKeeps

LEMMA DownloadKeeps ==
  ASSUME ListeningInv, NEW u \in Listeners, AwardDownload(u)
  PROVE  ListeningInv'
<1>1. UNCHANGED <<clock, listen, gate, report, tokens, granted>> /\ NoJukebox BY DEF AwardDownload
<1>2. Award({<<"dl", u, 0>>}) \/ UNCHANGED <<events, track>> BY DEF AwardDownload
<1>3. ListenTypes /\ HeatIsTheLog /\ TimesPast BY DEF ListeningInv
<1>4. {<<"dl", u, 0>>} \in SUBSET EventKeys /\ IsFiniteSet({<<"dl", u, 0>>})
  <2>1. 0 \in 0..MaxReports BY ListeningConstants
  <2>2. <<"dl", u, 0>> \in EventKeys BY <2>1 DEF EventKeys
  <2> QED BY <2>2, FS_Singleton
<1>5. track' \in [heat : Nat, plays : Nat] /\ events' \subseteq EventKeys /\ IsFiniteSet(events') /\ HeatIsTheLog'
      /\ events' \subseteq events \cup {<<"dl", u, 0>>}
  <2>1. CASE Award({<<"dl", u, 0>>}) BY <1>3, <1>4, <2>1, AwardKeepsLog
  <2>2. CASE UNCHANGED <<events, track>> BY <1>3, <2>2 DEF ListenTypes, HeatIsTheLog, HeatOf, Kind
  <2> QED BY <1>2, <2>1, <2>2
<1>6. \A v \in Listeners : \A t : <<"play", v, t>> \in events' => <<"play", v, t>> \in events BY <1>5
<1>7. tokens \in Nat /\ tokens \in 0..MaxReports /\ tokens <= tokens /\ clock \in Nat /\ clock <= clock
  BY <1>3, ListeningConstants DEF ListenTypes
<1>8. TokensOfHeard' /\ (EmitsInOrder => JukeboxInv') /\ (active' # Silence => active'.start <= clock')
  BY <1>1, <1>7, JukeboxStays
<1>9. voice' = voice /\ emits' = emits /\ active' = active /\ heard' = heard BY <1>1 DEF NoJukebox
<1>10. /\ voice \in Voices /\ emits \in Seq(Voices) /\ active \in JukeListens \cup {Silence} /\ heard \subseteq HeardRecords /\ IsFiniteSet(heard)
  BY <1>3 DEF ListenTypes
<1> QED BY <1>1, <1>5, <1>6, <1>7, <1>8, <1>9, <1>10, RequestsStay

-----------------------------------------------------------------------------
(* The jukebox.                                                            *)

LEMMA EmitsGrow ==
  ASSUME NEW s \in Seq(Voices), NEW v \in Voices
  PROVE  /\ s \o <<v>> \in Seq(Voices) /\ Len(s \o <<v>>) = Len(s) + 1 /\ Len(s) \in Nat
         /\ \A i \in DOMAIN (s \o <<v>>) : IF i \in DOMAIN s THEN (s \o <<v>>)[i] = s[i] ELSE i = Len(s) + 1 /\ (s \o <<v>>)[i] = v
         /\ DOMAIN s = 1..Len(s) /\ DOMAIN (s \o <<v>>) = 1..Len(s) + 1
OBVIOUS

LEMMA EmitsShrink ==
  ASSUME NEW s \in Seq(Voices), NEW i \in DOMAIN s
  PROVE  LET t == [k \in 1..Len(s) - 1 |-> IF k < i THEN s[k] ELSE s[k + 1]] IN
         /\ t \in Seq(Voices) /\ Len(t) = Len(s) - 1 /\ DOMAIN t = 1..Len(s) - 1
         /\ \A k \in DOMAIN t : t[k] = IF k < i THEN s[k] ELSE s[k + 1]
<1> DEFINE n == Len(s) - 1  t == [k \in 1..n |-> IF k < i THEN s[k] ELSE s[k + 1]]
<1>1. DOMAIN s = 1..Len(s) /\ Len(s) \in Nat /\ i \in 1..Len(s) OBVIOUS
<1>2. n \in Nat BY <1>1
<1>3. \A k \in 1..n : k \in DOMAIN s /\ k + 1 \in DOMAIN s BY <1>1
<1>4. \A k \in 1..n : t[k] \in Voices BY <1>3
<1>5. t \in [1..n -> Voices] BY <1>4
<1> HIDE DEF n
<1>6. t \in Seq(Voices) /\ Len(t) = n BY <1>2, <1>5
<1> QED BY <1>6 DEF n

LEMMA CommandKeeps ==
  ASSUME ListeningInv, NEW kind \in {"play", "stop", "other"}, JukeboxCommand(kind)
  PROVE  ListeningInv'
<1>1. /\ tokens < MaxReports /\ tokens' = tokens + 1 /\ (kind = "play" \/ voice.playing) /\ emits' = emits \o <<voice'>>
      /\ UNCHANGED <<clock, listen, gate, track, events, report, granted, active, heard>>
  BY DEF JukeboxCommand
<1>2. ListenTypes /\ HeatIsTheLog /\ TimesPast /\ TokensOfHeard BY DEF ListeningInv
<1>3. tokens \in Nat /\ tokens' \in 0..MaxReports /\ tokens <= tokens' /\ clock \in Nat BY <1>1, <1>2, ListeningConstants DEF ListenTypes
<1>4. voice \in Voices /\ voice.epoch \in Nat /\ voice.epoch <= tokens /\ voice.playing \in BOOLEAN
  BY <1>2, ListeningConstants DEF ListenTypes, Voices, Epochs, TokensOfHeard
<1>5. /\ voice' \in Voices /\ voice.epoch <= voice'.epoch /\ voice'.epoch <= tokens' /\ voice'.epoch \in Nat
      /\ voice'.epoch = voice.epoch => voice.playing
      /\ voice'.epoch = voice.epoch \/ voice'.epoch = voice.epoch + 1
  <2>1. CASE kind = "play"
    <3>1. voice' = [epoch |-> voice.epoch + 1, playing |-> TRUE] BY <2>1 DEF JukeboxCommand
    <3>2. voice.epoch + 1 \in Epochs BY <1>1, <1>3, <1>4, ListeningConstants DEF Epochs
    <3> QED BY <1>1, <1>3, <1>4, <3>1, <3>2 DEF Voices
  <2>2. CASE kind = "stop"
    <3>1. voice' = [voice EXCEPT !.playing = FALSE] BY <2>2 DEF JukeboxCommand
    <3>2. voice' \in Voices /\ voice'.epoch = voice.epoch BY <1>4, <3>1 DEF Voices
    <3> QED BY <1>1, <1>3, <1>4, <2>2, <3>2
  <2>3. CASE kind = "other"
    <3>1. voice' = voice BY <2>3 DEF JukeboxCommand
    <3> QED BY <1>1, <1>3, <1>4, <2>3, <3>1
  <2> QED BY <2>1, <2>2, <2>3
<1>6. emits \in Seq(Voices) /\ active \in JukeListens \cup {Silence} /\ heard \subseteq HeardRecords /\ IsFiniteSet(heard)
      /\ track \in [heat : Nat, plays : Nat] /\ events \subseteq EventKeys /\ IsFiniteSet(events)
  BY <1>2 DEF ListenTypes
<1>7. /\ emits' \in Seq(Voices) /\ Len(emits') = Len(emits) + 1 /\ Len(emits) \in Nat
      /\ \A i \in DOMAIN emits' : IF i \in DOMAIN emits THEN emits'[i] = emits[i] ELSE i = Len(emits) + 1 /\ emits'[i] = voice'
      /\ DOMAIN emits = 1..Len(emits) /\ DOMAIN emits' = 1..Len(emits) + 1
  BY <1>1, <1>5, <1>6, EmitsGrow
<1>8. TokensOfHeard'
  <2>1. Cardinality(heard) \in Nat BY <1>6, FS_CardinalityType
  <2> QED BY <1>1, <1>2, <1>3, <1>5, <1>7, <2>1 DEF TokensOfHeard
<1>9. ASSUME EmitsInOrder PROVE JukeboxInv'
  <2>1. EmitsAreOrdered /\ ActiveIsLatest /\ HeardIsOver /\ JukeboxListensOnce BY <1>9 DEF ListeningInv, JukeboxInv
  <2>2. /\ \A i \in DOMAIN emits : emits[i].epoch \in Nat /\ emits[i].playing \in BOOLEAN
        /\ \A h \in heard : h.epoch \in Nat
        /\ active # Silence => active.epoch \in Nat
    <3>1. \A v \in Voices : v.epoch \in Nat /\ v.playing \in BOOLEAN BY ListeningConstants DEF Voices, Epochs
    <3>2. \A i \in DOMAIN emits : emits[i] \in Voices BY <1>6
    <3> QED BY <1>6, <3>1, <3>2, ListeningConstants DEF HeardRecords, JukeListens, Epochs
  <2>3. \A i \in DOMAIN emits : emits[i].epoch <= voice'.epoch /\ (emits[i].epoch = voice'.epoch => emits[i].playing)
    BY <1>4, <1>5, <2>1, <2>2 DEF EmitsAreOrdered
  <2>4. EmitsAreOrdered'
    <3>1. ASSUME NEW i \in DOMAIN emits', NEW j \in DOMAIN emits', i < j
          PROVE  emits'[i].epoch <= emits'[j].epoch /\ (emits'[i].epoch = emits'[j].epoch => emits'[i].playing)
      <4>1. i \in DOMAIN emits /\ emits'[i] = emits[i] BY <1>7, <3>1
      <4>2. CASE j \in DOMAIN emits BY <1>7, <2>1, <3>1, <4>1, <4>2 DEF EmitsAreOrdered
      <4>3. CASE j \notin DOMAIN emits BY <1>7, <2>3, <4>1, <4>3
      <4> QED BY <4>2, <4>3
    <3>2. ASSUME NEW i \in DOMAIN emits'
          PROVE  emits'[i].epoch <= voice'.epoch /\ (emits'[i].epoch = voice'.epoch /\ voice'.playing => emits'[i].playing)
      BY <1>5, <1>7, <2>3
    <3> QED BY <3>1, <3>2 DEF EmitsAreOrdered
  <2>5. ActiveIsLatest'
    <3> SUFFICES ASSUME active # Silence
                 PROVE  active.epoch <= voice'.epoch /\ \A i \in DOMAIN emits' : active.epoch <= emits'[i].epoch
        BY <1>1 DEF ActiveIsLatest
    <3>1. active.epoch <= voice'.epoch BY <1>4, <1>5, <2>1, <2>2 DEF ActiveIsLatest
    <3> QED BY <1>7, <2>1, <3>1 DEF ActiveIsLatest
  <2>6. HeardIsOver'
    <3> SUFFICES ASSUME NEW h \in heard
                 PROVE  /\ active # Silence => h.epoch < active.epoch
                        /\ \A i \in DOMAIN emits' : h.epoch < emits'[i].epoch
                        /\ h.epoch < voice'.epoch \/ (h.epoch = voice'.epoch /\ ~voice'.playing)
        BY <1>1 DEF HeardIsOver
    <3>1. h.epoch < voice.epoch \/ (h.epoch = voice.epoch /\ ~voice.playing) BY <2>1 DEF HeardIsOver
    <3>2. h.epoch < voice'.epoch BY <1>4, <1>5, <2>2, <3>1
    <3> QED BY <1>7, <2>1, <3>2 DEF HeardIsOver
  <2>7. JukeboxListensOnce' BY <1>1, <2>1 DEF JukeboxListensOnce
  <2> QED BY <2>4, <2>5, <2>6, <2>7 DEF JukeboxInv
<1>10. HeatIsTheLog' BY <1>1, <1>2 DEF HeatIsTheLog, HeatOf, Kind
<1>11. active' # Silence => active'.start <= clock BY <1>1, <1>2 DEF TimesPast
<1> QED BY <1>1, <1>3, <1>5, <1>6, <1>7, <1>8, <1>9, <1>10, <1>11, RequestsStay

LEMMA TrackKeeps ==
  ASSUME ListeningInv, NEW i \in DOMAIN emits, TrackJukeboxPlay(i)
  PROVE  ListeningInv'
<1> DEFINE e == emits[i]  n == Cardinality(heard)
           h == [epoch |-> active.epoch, played |-> clock - active.start, token |-> n, done |-> FALSE]
<1>1. /\ EmitsInOrder => i = 1
      /\ active' = Follows(e) /\ heard' = IF Finalizes(e) THEN heard \cup {h} ELSE heard
      /\ emits' = [k \in 1..Len(emits) - 1 |-> IF k < i THEN emits[k] ELSE emits[k + 1]]
      /\ UNCHANGED <<clock, listen, gate, track, events, report, tokens, granted, voice>>
  BY DEF TrackJukeboxPlay
<1>2. ListenTypes /\ HeatIsTheLog /\ TimesPast /\ TokensOfHeard BY DEF ListeningInv
<1>3. /\ emits \in Seq(Voices) /\ active \in JukeListens \cup {Silence} /\ heard \subseteq HeardRecords /\ IsFiniteSet(heard)
      /\ track \in [heat : Nat, plays : Nat] /\ events \subseteq EventKeys /\ IsFiniteSet(events) /\ voice \in Voices
      /\ clock \in 0..MaxTime /\ clock \in Nat /\ tokens \in 0..MaxReports /\ tokens \in Nat /\ tokens <= tokens
  BY <1>2, ListeningConstants DEF ListenTypes
<1>4. DOMAIN emits = 1..Len(emits) /\ Len(emits) \in Nat /\ i \in 1..Len(emits) /\ e \in Voices BY <1>3
<1>5. e.epoch \in Epochs /\ e.epoch \in Nat /\ e.playing \in BOOLEAN BY <1>4, ListeningConstants DEF Voices, Epochs
<1>6. /\ emits' \in Seq(Voices) /\ Len(emits') = Len(emits) - 1 /\ DOMAIN emits' = 1..Len(emits) - 1
      /\ \A k \in DOMAIN emits' : emits'[k] = IF k < i THEN emits[k] ELSE emits[k + 1]
  BY <1>1, <1>3, EmitsShrink
<1>7. n \in Nat /\ n + Len(emits) <= tokens /\ n < tokens
  <2>1. n \in Nat BY <1>3, FS_CardinalityType
  <2> QED BY <1>2, <1>3, <1>4, <2>1 DEF TokensOfHeard
<1>8. active # Silence => /\ active.epoch \in Epochs /\ active.epoch \in Nat /\ active.start \in Nat /\ active.start <= clock
  BY <1>2, <1>3, ListeningConstants DEF JukeListens, Epochs, TimesPast
<1>9. active # Silence => h \in HeardRecords
  <2>1. n \in Epochs BY <1>3, <1>7, ListeningConstants DEF Epochs
  <2>2. active # Silence => clock - active.start \in Nat BY <1>3, <1>8
  <2> QED BY <1>8, <2>1, <2>2 DEF HeardRecords
<1>10. h.epoch = active.epoch /\ h.token = n OBVIOUS
<1> HIDE DEF h
<1>11. active' \in JukeListens \cup {Silence}
       /\ (active' # Silence => active'.start <= clock /\ active'.epoch = e.epoch /\ e.playing)
  <2>1. CASE ~e.playing BY <1>1, <2>1 DEF Follows
  <2>2. CASE e.playing /\ active # Silence /\ active.epoch = e.epoch BY <1>1, <1>3, <1>8, <2>2 DEF Follows
  <2>3. CASE e.playing /\ ~(active # Silence /\ active.epoch = e.epoch)
    <3>1. active' = [epoch |-> e.epoch, start |-> clock] BY <1>1, <2>3 DEF Follows
    <3> HIDE DEF e
    <3> QED BY <1>3, <1>5, <2>3, <3>1 DEF JukeListens
  <2> QED BY <2>1, <2>2, <2>3
<1>12. h \notin heard
  <2>1. \A g \in heard : g.token < n /\ g.token \in Nat BY <1>2, <1>3, ListeningConstants DEF TokensOfHeard, HeardRecords, Epochs
  <2> QED BY <1>7, <1>10, <2>1
<1>13. CASE Finalizes(e)
  <2>1. heard' = heard \cup {h} /\ active # Silence /\ (~e.playing \/ active.epoch # e.epoch) BY <1>1, <1>13 DEF Finalizes
  <2>2. heard' \subseteq HeardRecords BY <1>3, <1>9, <2>1
  <2>3. IsFiniteSet(heard') /\ Cardinality(heard') = n + 1 BY <1>3, <1>12, <2>1, FS_AddElement
  <2>4. TokensOfHeard'
    <3>1. voice'.epoch <= tokens' BY <1>1, <1>2 DEF TokensOfHeard
    <3>2. Cardinality(heard') + Len(emits') <= tokens' BY <1>1, <1>3, <1>4, <1>6, <1>7, <2>3
    <3>3. \A g \in heard : g.token \in Nat BY <1>3, ListeningConstants DEF HeardRecords, Epochs
    <3>4. \A g \in heard : g.token < n /\ \A f \in heard : f.token = g.token => f = g BY <1>2 DEF TokensOfHeard
    <3>5. \A g \in heard' : g.token < Cardinality(heard') BY <1>7, <1>10, <2>1, <2>3, <3>3, <3>4
    <3>6. \A f, g \in heard' : f.token = g.token => f = g BY <1>7, <1>10, <2>1, <3>3, <3>4
    <3> QED BY <3>1, <3>2, <3>5, <3>6 DEF TokensOfHeard
  <2>5. ASSUME EmitsInOrder PROVE JukeboxInv'
    <3>1. EmitsAreOrdered /\ ActiveIsLatest /\ HeardIsOver /\ JukeboxListensOnce /\ i = 1 BY <1>1, <2>5 DEF ListeningInv, JukeboxInv
    <3>2. DOMAIN emits' = 1..Len(emits) - 1 /\ \A k \in DOMAIN emits' : emits'[k] = emits[k + 1] /\ k + 1 \in DOMAIN emits
      BY <1>4, <1>6, <3>1
    <3>3. \A k \in DOMAIN emits' : /\ e.epoch <= emits'[k].epoch /\ (e.epoch = emits'[k].epoch => e.playing)
                                   /\ emits'[k].epoch \in Nat
      <4>1. \A k \in DOMAIN emits : emits[k] \in Voices BY <1>3
      <4>2. \A k \in DOMAIN emits : emits[k].epoch \in Nat BY <4>1, ListeningConstants DEF Voices, Epochs
      <4>3. \A k \in DOMAIN emits' : 1 < k + 1 BY <3>2
      <4> QED BY <1>4, <3>1, <3>2, <4>2, <4>3 DEF EmitsAreOrdered
    <3>4. EmitsAreOrdered'
      <4>1. ASSUME NEW k \in DOMAIN emits', NEW j \in DOMAIN emits', k < j
            PROVE  emits'[k].epoch <= emits'[j].epoch /\ (emits'[k].epoch = emits'[j].epoch => emits'[k].playing)
        <5>1. k + 1 < j + 1 BY <3>2, <4>1
        <5> QED BY <3>1, <3>2, <5>1 DEF EmitsAreOrdered
      <4>2. ASSUME NEW k \in DOMAIN emits'
            PROVE  emits'[k].epoch <= voice'.epoch /\ (emits'[k].epoch = voice'.epoch /\ voice'.playing => emits'[k].playing)
        BY <1>1, <3>1, <3>2 DEF EmitsAreOrdered
      <4> QED BY <4>1, <4>2 DEF EmitsAreOrdered
    <3>5. e.epoch <= voice.epoch /\ (e.epoch = voice.epoch /\ voice.playing => e.playing) /\ active.epoch <= e.epoch
      BY <1>4, <2>1, <3>1 DEF EmitsAreOrdered, ActiveIsLatest
    <3>6. ActiveIsLatest' BY <1>1, <1>11, <3>3, <3>5 DEF ActiveIsLatest
    <3>7. \A g \in heard : g.epoch < active.epoch /\ g.epoch \in Nat
      BY <1>3, <2>1, <3>1, ListeningConstants DEF HeardIsOver, HeardRecords, Epochs
    <3>8. HeardIsOver'
      <4>1. voice.epoch \in Nat BY <1>3, ListeningConstants DEF Voices, Epochs
      <4>2. ASSUME NEW g \in heard'
            PROVE  /\ active' # Silence => g.epoch < active'.epoch
                   /\ \A k \in DOMAIN emits' : g.epoch < emits'[k].epoch
                   /\ g.epoch < voice'.epoch \/ (g.epoch = voice'.epoch /\ ~voice'.playing)
        <5>1. g.epoch <= active.epoch /\ g.epoch \in Nat BY <1>8, <1>10, <2>1, <3>7
        <5>2. active' # Silence => g.epoch < active'.epoch BY <1>5, <1>8, <1>11, <2>1, <3>5, <5>1
        <5>3. \A k \in DOMAIN emits' : g.epoch < emits'[k].epoch BY <1>5, <1>8, <2>1, <3>3, <3>5, <5>1
        <5>4. g.epoch < voice.epoch \/ (g.epoch = voice.epoch /\ ~voice.playing)
          BY <1>5, <1>8, <2>1, <3>5, <4>1, <5>1
        <5> QED BY <1>1, <5>2, <5>3, <5>4
      <4> QED BY <4>2 DEF HeardIsOver
    <3>9. JukeboxListensOnce' BY <1>8, <1>10, <2>1, <3>1, <3>7 DEF JukeboxListensOnce
    <3> QED BY <3>4, <3>6, <3>8, <3>9 DEF JukeboxInv
  <2>6. HeatIsTheLog' BY <1>1, <1>2 DEF HeatIsTheLog, HeatOf, Kind
  <2> HIDE DEF e, n
  <2> QED BY <1>1, <1>3, <1>6, <1>11, <2>2, <2>3, <2>4, <2>5, <2>6, RequestsStay
<1>14. CASE ~Finalizes(e)
  <2>1. heard' = heard /\ (active = Silence \/ (e.playing /\ active.epoch = e.epoch)) BY <1>1, <1>5, <1>14 DEF Finalizes
  <2>2. TokensOfHeard'
    <3>1. Cardinality(heard') + Len(emits') <= tokens'
      <4>1. tokens' = tokens /\ Cardinality(heard') = n BY <1>1, <2>1
      <4> HIDE DEF n
      <4> QED BY <1>3, <1>4, <1>6, <1>7, <4>1
    <3>2. voice'.epoch <= tokens' BY <1>1, <1>2 DEF TokensOfHeard
    <3>3. /\ \A g \in heard' : g.token < Cardinality(heard')
          /\ \A f, g \in heard' : f.token = g.token => f = g
      BY <1>2, <2>1 DEF TokensOfHeard
    <3> QED BY <3>1, <3>2, <3>3 DEF TokensOfHeard
  <2>3. ASSUME EmitsInOrder PROVE JukeboxInv'
    <3>1. EmitsAreOrdered /\ ActiveIsLatest /\ HeardIsOver /\ JukeboxListensOnce /\ i = 1 BY <1>1, <2>3 DEF ListeningInv, JukeboxInv
    <3>2. DOMAIN emits' = 1..Len(emits) - 1 /\ \A k \in DOMAIN emits' : emits'[k] = emits[k + 1] /\ k + 1 \in DOMAIN emits
      BY <1>4, <1>6, <3>1
    <3>3. \A k \in DOMAIN emits' : e.epoch <= emits'[k].epoch
      <4>1. \A k \in DOMAIN emits' : 1 < k + 1 BY <3>2
      <4> QED BY <1>4, <3>1, <3>2, <4>1 DEF EmitsAreOrdered
    <3>4. EmitsAreOrdered'
      <4>1. ASSUME NEW k \in DOMAIN emits', NEW j \in DOMAIN emits', k < j
            PROVE  emits'[k].epoch <= emits'[j].epoch /\ (emits'[k].epoch = emits'[j].epoch => emits'[k].playing)
        <5>1. k + 1 < j + 1 BY <3>2, <4>1
        <5> QED BY <3>1, <3>2, <5>1 DEF EmitsAreOrdered
      <4>2. ASSUME NEW k \in DOMAIN emits'
            PROVE  emits'[k].epoch <= voice'.epoch /\ (emits'[k].epoch = voice'.epoch /\ voice'.playing => emits'[k].playing)
        BY <1>1, <3>1, <3>2 DEF EmitsAreOrdered
      <4> QED BY <4>1, <4>2 DEF EmitsAreOrdered
    <3>5. e.epoch <= voice.epoch BY <1>4, <3>1 DEF EmitsAreOrdered
    <3>6. ActiveIsLatest' BY <1>1, <1>11, <3>3, <3>5 DEF ActiveIsLatest
    <3>7. HeardIsOver'
      <4> SUFFICES ASSUME NEW g \in heard
                   PROVE  /\ active' # Silence => g.epoch < active'.epoch
                          /\ \A k \in DOMAIN emits' : g.epoch < emits'[k].epoch
                          /\ g.epoch < voice.epoch \/ (g.epoch = voice.epoch /\ ~voice.playing)
          BY <1>1, <2>1 DEF HeardIsOver
      <4>1. g.epoch < e.epoch /\ \A k \in DOMAIN emits : g.epoch < emits[k].epoch BY <1>4, <3>1 DEF HeardIsOver
      <4> QED BY <1>11, <3>1, <3>2, <4>1 DEF HeardIsOver
    <3>8. JukeboxListensOnce' BY <2>1, <3>1 DEF JukeboxListensOnce
    <3> QED BY <3>4, <3>6, <3>7, <3>8 DEF JukeboxInv
  <2>4. HeatIsTheLog' BY <1>1, <1>2 DEF HeatIsTheLog, HeatOf, Kind
  <2> HIDE DEF e, n
  <2> QED BY <1>1, <1>3, <1>6, <1>11, <2>1, <2>2, <2>3, <2>4, RequestsStay
<1> QED BY <1>13, <1>14

LEMMA RecordKeeps ==
  ASSUME ListeningInv, NEW h \in heard, RecordJukeboxListen(h)
  PROVE  ListeningInv'
<1> DEFINE done == [h EXCEPT !.done = TRUE]
           keys == (IF HeatQualifiesForListened(h.played) THEN {<<"play", "jukebox", h.token>>} ELSE {})
                   \cup (IF HeatListenedIsComplete(h.played) THEN {<<"playc", "jukebox", h.token>>} ELSE {})
<1>1. /\ ~h.done /\ heard' = (heard \ {h}) \cup {done} /\ Award(keys)
      /\ UNCHANGED <<clock, listen, gate, report, tokens, granted, voice, emits, active>>
  BY DEF RecordJukeboxListen, CountPlay
<1>2. ListenTypes /\ HeatIsTheLog /\ TimesPast /\ TokensOfHeard BY DEF ListeningInv
<1>3. /\ emits \in Seq(Voices) /\ active \in JukeListens \cup {Silence} /\ heard \subseteq HeardRecords /\ IsFiniteSet(heard)
      /\ voice \in Voices /\ tokens \in 0..MaxReports /\ tokens \in Nat /\ tokens <= tokens
  BY <1>2, ListeningConstants DEF ListenTypes
<1>4. h \in HeardRecords /\ done \in HeardRecords /\ done.epoch = h.epoch /\ done.token = h.token /\ done.done = TRUE
  BY <1>3 DEF HeardRecords
<1> HIDE DEF done
<1>5. keys \in SUBSET EventKeys /\ IsFiniteSet(keys)
  <2>1. IsFiniteSet({<<"play", "jukebox", h.token>>}) /\ IsFiniteSet({<<"playc", "jukebox", h.token>>}) BY FS_Singleton
  <2>2. IsFiniteSet({<<"play", "jukebox", h.token>>} \cup {<<"playc", "jukebox", h.token>>}) BY <2>1, FS_Union
  <2>3. keys \subseteq {<<"play", "jukebox", h.token>>} \cup {<<"playc", "jukebox", h.token>>} OBVIOUS
  <2>4. h.token \in 0..MaxReports BY <1>4 DEF HeardRecords, Epochs
  <2>5. <<"play", "jukebox", h.token>> \in EventKeys /\ <<"playc", "jukebox", h.token>> \in EventKeys BY <2>4 DEF EventKeys
  <2> QED BY <2>2, <2>3, <2>5, FS_Subset
<1>6. \A u \in Listeners : \A t : <<"play", u, t>> \notin keys BY ListeningConstants
<1> HIDE DEF keys
<1>7. /\ events' = events \cup keys /\ events' \subseteq EventKeys /\ IsFiniteSet(events')
      /\ track' \in [heat : Nat, plays : Nat] /\ HeatIsTheLog'
  BY <1>1, <1>2, <1>5, AwardKeepsLog
<1>8. \A g \in heard : g.token = h.token => g = h BY <1>2 DEF TokensOfHeard
<1>9. done \notin heard BY <1>1, <1>4, <1>8
<1>10. heard' \subseteq HeardRecords /\ IsFiniteSet(heard') /\ Cardinality(heard') = Cardinality(heard)
  <2>1. IsFiniteSet(heard \ {h}) /\ Cardinality(heard \ {h}) = Cardinality(heard) - 1 BY <1>3, FS_RemoveElement
  <2>2. IsFiniteSet(heard') /\ Cardinality(heard') = Cardinality(heard \ {h}) + 1 BY <1>1, <1>9, <2>1, FS_AddElement
  <2>3. Cardinality(heard) \in Nat BY <1>3, FS_CardinalityType
  <2> QED BY <1>1, <1>3, <1>4, <2>1, <2>2, <2>3
<1>11. \A g \in heard' : \E f \in heard : g.epoch = f.epoch /\ g.token = f.token /\ (g = f \/ (f = h /\ g = done)) BY <1>1, <1>4
<1>12. TokensOfHeard'
  <2>1. \A g \in heard' : g.token < Cardinality(heard') BY <1>2, <1>10, <1>11 DEF TokensOfHeard
  <2>2. \A f, g \in heard' : f.token = g.token => f = g
    <3>1. \A f, g \in heard : f.token = g.token => f = g BY <1>2 DEF TokensOfHeard
    <3> QED BY <1>1, <1>4, <1>8, <3>1
  <2> QED BY <1>1, <1>2, <1>10, <2>1, <2>2 DEF TokensOfHeard
<1>13. ASSUME EmitsInOrder PROVE JukeboxInv'
  <2>1. EmitsAreOrdered /\ ActiveIsLatest /\ HeardIsOver /\ JukeboxListensOnce BY <1>13 DEF ListeningInv, JukeboxInv
  <2>2. EmitsAreOrdered' /\ ActiveIsLatest' BY <1>1, <2>1 DEF EmitsAreOrdered, ActiveIsLatest
  <2>3. HeardIsOver' BY <1>1, <1>11, <2>1 DEF HeardIsOver
  <2>4. JukeboxListensOnce'
    <3>1. \A g \in heard : g.epoch = h.epoch => g = h BY <2>1 DEF JukeboxListensOnce
    <3> QED BY <1>1, <1>4, <2>1, <3>1 DEF JukeboxListensOnce
  <2> QED BY <2>2, <2>3, <2>4 DEF JukeboxInv
<1>14. \A u \in Listeners : \A t : <<"play", u, t>> \in events' => <<"play", u, t>> \in events BY <1>6, <1>7
<1>15. active' # Silence => active'.start <= clock BY <1>1, <1>2 DEF TimesPast
<1> QED BY <1>1, <1>3, <1>7, <1>10, <1>12, <1>13, <1>14, <1>15, RequestsStay

-----------------------------------------------------------------------------
LEMMA NextKeepsListening == ListeningInv /\ [ListeningNext]_listenVars => ListeningInv'
<1> SUFFICES ASSUME ListeningInv, [ListeningNext]_listenVars PROVE ListeningInv' OBVIOUS
<1>1. CASE UNCHANGED listenVars
  <2>1. UNCHANGED <<clock, listen, gate, track, events, report, tokens, granted, voice, emits, active, heard>> BY <1>1 DEF listenVars
  <2>2. ListenTypes /\ HeatIsTheLog /\ TimesPast /\ TokensOfHeard BY DEF ListeningInv
  <2>3. /\ emits \in Seq(Voices) /\ active \in JukeListens \cup {Silence} /\ heard \subseteq HeardRecords /\ IsFiniteSet(heard)
        /\ track \in [heat : Nat, plays : Nat] /\ events \subseteq EventKeys /\ IsFiniteSet(events) /\ voice \in Voices
        /\ tokens \in 0..MaxReports /\ tokens \in Nat /\ tokens <= tokens /\ clock \in Nat /\ clock <= clock
    BY <2>2, ListeningConstants DEF ListenTypes
  <2>4. HeatIsTheLog' BY <2>1, <2>2 DEF HeatIsTheLog, HeatOf, Kind
  <2>5. NoJukebox BY <2>1 DEF NoJukebox
  <2>6. TokensOfHeard' /\ (EmitsInOrder => JukeboxInv') /\ (active' # Silence => active'.start <= clock')
    BY <2>1, <2>3, <2>5, JukeboxStays
  <2> QED BY <2>1, <2>3, <2>4, <2>6, RequestsStay
<1>2. CASE Tick BY <1>2, TickKeeps
<1>3. ASSUME NEW r \in Reports, ListenProgress(r) PROVE ListeningInv' BY <1>3, ProgressKeeps
<1>4. ASSUME NEW r \in Reports, AllowPlay(r) PROVE ListeningInv' BY <1>4, AllowPlayKeeps
<1>5. ASSUME NEW r \in Reports, AllowComplete(r) PROVE ListeningInv' BY <1>5, AllowCompleteKeeps
<1>6. ASSUME NEW r \in Reports, Count(r) PROVE ListeningInv' BY <1>6, CountKeeps
<1>7. ASSUME NEW r \in Reports, Scrobble(r) PROVE ListeningInv' BY <1>7, ScrobbleKeeps
<1>8. ASSUME NEW r \in Reports, NEW u \in Listeners, NEW p \in 0..Duration, ReportBegins(r, u, p, "progress") PROVE ListeningInv'
  BY <1>8, BeginKeeps
<1>9. ASSUME NEW r \in Reports, NEW u \in Listeners, ReportBegins(r, u, 0, "scrobble") PROVE ListeningInv'
  <2>1. 0 \in 0..Duration BY ListeningConstants
  <2> QED BY <1>9, <2>1, BeginKeeps
<1>10. ASSUME NEW u \in Listeners, AwardDownload(u) PROVE ListeningInv' BY <1>10, DownloadKeeps
<1>11. ASSUME NEW k \in {"play", "stop", "other"}, JukeboxCommand(k) PROVE ListeningInv' BY <1>11, CommandKeeps
<1>12. ASSUME NEW i \in DOMAIN emits, TrackJukeboxPlay(i) PROVE ListeningInv' BY <1>12, TrackKeeps
<1>13. ASSUME NEW h \in heard, RecordJukeboxListen(h) PROVE ListeningInv' BY <1>13, RecordKeeps
<1> QED BY <1>1, <1>2, <1>3, <1>4, <1>5, <1>6, <1>7, <1>8, <1>9, <1>10, <1>11, <1>12, <1>13 DEF ListeningNext

LEMMA ListeningInvHolds == ListeningSpec => []ListeningInv
BY InitListening, NextKeepsListening, PTL DEF ListeningSpec

(* A listen counts once and for time that went by, and the heat adds up,   *)
(* if requests take no longer than the shortest listen that counts and the *)
(* changes of an engine arrive in their order                              *)
(* (play_marker.go, heat_repo.go, jukebox.go).                             *)
THEOREM ListenCountsOnce == ASSUME Punctual, EmitsInOrder PROVE ListeningSpec => []ListeningSound
<1>1. ListeningInv => ListeningSound BY InvImpliesListeningSound
<1> QED BY <1>1, ListeningInvHolds, PTL

(* Whatever the requests take and however changes arrive: credited time is *)
(* time that went by, plays are a window apart, and heat is what the log   *)
(* says.                                                                   *)
THEOREM HeatIsNotForged == ListeningSpec => [](HeatIsTheLog /\ ListenedIsReal /\ PlaysAreSpaced)
<1>1. ListeningInv => HeatIsTheLog /\ ListenedIsReal /\ PlaysAreSpaced BY InvImpliesSpaced DEF ListeningInv
<1> QED BY <1>1, ListeningInvHolds, PTL
================================================================================
