-------------------------------- MODULE UserData -------------------------------
(* What a user keeps: favorites, playlists, the play history and the queue of *)
(* the web player.  src/internal/api/rest/user_data.go and the same operations *)
(* of the Subsonic API (internal/api/subsonic/handler.go), which write the     *)
(* same tables.  One user.  A request is a thread, and every action is one     *)
(* statement; between two of them other requests run, a scan deletes tracks,   *)
(* and the client may leave, which cancels the statements still to come.       *)
EXTENDS Integers, FiniteSets, SequencesExt

CONSTANTS
    UserTracks,
    Group, Main,    \* tracks that are versions of one recording, and the first of them
    Lists,          \* playlists
    UserThreads,
    NoList,         \* a playlist that does not exist
    MaxUserRequests \* bound: requests made

\* Sequences without repetition, and any others as short.
UserSeqs == UNION {[1..n -> UserTracks] : n \in 0..Cardinality(UserTracks)}

ASSUME UserConstants ==
    /\ IsFiniteSet(UserTracks) /\ IsFiniteSet(Lists)
    /\ Group \subseteq UserTracks /\ Main \in Group
    /\ NoList \notin Lists /\ "fav" \notin Lists /\ NoList \notin UserSeqs
    /\ MaxUserRequests \in Nat

VARIABLES
    shelf,     \* table tracks: which exist
    favorites, \* table favorites, of tracks
    playlist,  \* table playlists: their track_ids
    log,       \* table track_events: <<"fav", track>> and <<playlist, track>>
    heat,      \* tracks.heat, without the plays (module Listening)
    history,   \* table play_history: rows per track
    player,    \* user_settings.player_queue
    ureq,      \* the requests
    asked,     \* history: requests made
    starred,   \* history: tracks (un)starred through Subsonic
    clash      \* history: what two requests worked on at once, or a client left half done

userVars == <<shelf, favorites, playlist, log, heat, history, player, ureq, asked, starred, clash>>

FavKinds == {"favorite", "unfavorite", "star", "unstar"}
ListKinds == {"create", "addOne", "addMany", "remove", "update", "drop", "discard"}
Drops == {"drop", "discard"}  \* REST, Subsonic
UserPcs == {"idle", "insert", "delete", "award", "reverse", "read", "write", "erase", "row"}
Resting == [pc |-> "idle", kind |-> "none", ids |-> <<>>, on |-> NoList, read |-> <<>>, add |-> {}, sub |-> {}]

UserTypeOK ==
    /\ shelf \subseteq UserTracks /\ favorites \subseteq UserTracks
    /\ \A p \in Lists : playlist[p] \in UserSeqs \cup {NoList}
    /\ log \subseteq ({"fav"} \cup Lists) \X UserTracks
    /\ heat \in [UserTracks -> Int] /\ history \in [UserTracks -> Nat]
    /\ player.ids \in UserSeqs /\ player.idx \in Nat
    /\ \A r \in UserThreads : /\ ureq[r].pc \in UserPcs /\ ureq[r].ids \in Seq(UserTracks)
                              /\ ureq[r].add \cup ureq[r].sub \subseteq UserTracks
    /\ asked \in 0..MaxUserRequests /\ starred \subseteq UserTracks /\ clash \subseteq UserTracks \cup Lists

WeightOf(e) == IF e[1] = "fav" THEN 5 ELSE 2
HeatOf(t, es) ==
    (IF <<"fav", t>> \in es THEN WeightOf(<<"fav", t>>) ELSE 0) + 2 * Cardinality({p \in Lists : <<p, t>> \in es})

(* All that earlier requests may have left, with its heat. *)
UserInit ==
    /\ shelf = UserTracks /\ favorites \in {{}, Group}
    /\ playlist \in [Lists -> {NoList, <<Main>>}]
    /\ log = {<<"fav", t>> : t \in favorites}
             \cup {e \in Lists \X UserTracks : playlist[e[1]] = <<e[2]>>}
    /\ heat = [t \in UserTracks |-> HeatOf(t, log)] /\ history = [t \in UserTracks |-> 0]
    /\ player = [ids |-> <<>>, idx |-> 0]
    /\ ureq = [r \in UserThreads |-> Resting]
    /\ asked = 0 /\ starred = {} /\ clash = {}

Becomes(r, q) == ureq' = [ureq EXCEPT ![r] = q]

(* What a request works on, and what others work on. *)
Touched(q) == IF q.kind \in ListKinds THEN {q.on} ELSE ToSet(q.read)
Busy(r) == UNION {Touched(ureq[q]) : q \in {q \in UserThreads \ {r} : ureq[q].pc # "idle"}}
Asks(r, q) ==
    /\ ureq[r].pc = "idle" /\ asked < MaxUserRequests /\ asked' = asked + 1
    /\ Becomes(r, q)
    /\ clash' = clash \cup (Touched(q) \cap Busy(r))
    /\ UNCHANGED <<shelf, favorites, playlist, log, heat, history, player>>

-------------------------------------------------------------------------------
(* Heat events (HeatRepo): an insert that finds its key does nothing; one for *)
(* a track that is gone violates the foreign key, and is only logged.         *)

AwardEvent(e) ==
    IF e \in log \/ e[2] \notin shelf THEN UNCHANGED <<log, heat>>
    ELSE log' = log \cup {e} /\ heat' = [heat EXCEPT ![e[2]] = @ + WeightOf(e)]

(* Reverse and ReverseMany *)
ReverseEvents(es) ==
    /\ log' = log \ es
    /\ heat' = [t \in UserTracks |-> heat[t] - HeatOf(t, es \cap log)]

-------------------------------------------------------------------------------
(* Favorites. *)

(* expandTrackVersions: all versions of a track that exists. *)
ExpandTrackVersions(t) ==
    IF t \in Group \cap shelf THEN SetToSeq(Group \cap shelf) ELSE <<t>>

(* AddFavorites and RemoveFavorites (REST) expand; star and unstar (Subsonic) *)
(* take the track they are given.                                             *)
AskFavorite(r, k, t) ==
    LET ts == IF k \in {"favorite", "unfavorite"} THEN ExpandTrackVersions(t) ELSE <<t>> IN
    /\ Asks(r, [Resting EXCEPT !.kind = k, !.ids = ts, !.read = ts,
                               !.pc = IF k \in {"favorite", "star"} THEN "insert" ELSE "delete"])
    /\ starred' = IF k \in {"star", "unstar"} THEN starred \cup {t} ELSE starred

FavGoesOn(r) ==
    LET rest == Tail(ureq[r].ids) IN
    Becomes(r, IF rest = <<>> THEN Resting
               ELSE [ureq[r] EXCEPT !.ids = rest, !.pc = IF @ = "award" \/ @ = "insert" THEN "insert" ELSE "delete"])

InsertFavorite(r) ==
    LET t == Head(ureq[r].ids) IN
    /\ ureq[r].pc = "insert"
    /\ favorites' = favorites \cup {t}
    /\ IF t \in favorites THEN FavGoesOn(r) ELSE Becomes(r, [ureq[r] EXCEPT !.pc = "award"])
    /\ UNCHANGED <<shelf, playlist, log, heat, history, player, asked, starred, clash>>

AwardFavorite(r) ==
    /\ ureq[r].pc = "award" /\ ureq[r].kind \in FavKinds
    /\ AwardEvent(<<"fav", Head(ureq[r].ids)>>)
    /\ FavGoesOn(r)
    /\ UNCHANGED <<shelf, favorites, playlist, history, player, asked, starred, clash>>

(* Subsonic's unstar reverses whether or not there was a row. *)
Reverses(k, t) == t \in favorites \/ k = "unstar"

DeleteFavorite(r) ==
    LET t == Head(ureq[r].ids) IN
    /\ ureq[r].pc = "delete" /\ ureq[r].kind \in FavKinds
    /\ favorites' = favorites \ {t}
    /\ IF Reverses(ureq[r].kind, t)
       THEN Becomes(r, [ureq[r] EXCEPT !.pc = "reverse"]) ELSE FavGoesOn(r)
    /\ UNCHANGED <<shelf, playlist, log, heat, history, player, asked, starred, clash>>

ReverseFavorite(r) ==
    /\ ureq[r].pc = "reverse" /\ ureq[r].kind \in FavKinds
    /\ ReverseEvents({<<"fav", Head(ureq[r].ids)>>})
    /\ FavGoesOn(r)
    /\ UNCHANGED <<shelf, favorites, playlist, history, player, asked, starred, clash>>

(* ListFavorites: the first versions, and what has no others. *)
FavoritesView == {t \in favorites \cap shelf : t \in Group => t = Main}

-------------------------------------------------------------------------------
(* Playlists: the list is read, changed in memory and written back as a whole. *)

AskList(r, k, p, ids) ==
    /\ Len(ids) = 1 \/ k # "addOne"
    /\ (ids = <<>>) => k \in {"create", "update"} \cup Drops
    /\ k \in Drops => ids = <<>>
    /\ Asks(r, [Resting EXCEPT !.kind = k, !.on = p, !.ids = ids, !.pc = IF k = "create" THEN "write" ELSE "read"])
    /\ UNCHANGED starred

(* What s has at the positions K, in its order. *)
Picked(s, K) ==
    LET nth(i) == CHOOSE p \in K : Cardinality({q \in K : q <= p}) = i
    IN [i \in 1..Cardinality(K) |-> s[nth(i)]]
Without(s, T) == Picked(s, {i \in DOMAIN s : s[i] \notin T})
FirstOnes(s) == {i \in DOMAIN s : \A j \in 1..(i - 1) : s[j] # s[i]}
AppendNew(s, new) == s \o Without(Picked(new, FirstOnes(new)), ToSet(s))

(* createPlaylist (Subsonic): a list with its first tracks. *)
Imported(ids) == AppendNew(<<>>, ids)

(* The list a request of a kind makes of the one it read.  Subsonic removes by *)
(* position, after it added.                                                   *)
Changed(k, s, ids, pos) ==
    CASE k = "create" -> Imported(ids)
      [] k \in {"addOne", "addMany"} -> AppendNew(s, ids)
      [] k = "remove" -> Without(s, ToSet(ids))
      [] k = "update" -> LET a == AppendNew(s, ids) IN Picked(a, DOMAIN a \ {pos})
      [] k \in Drops -> s

ReadList(r) ==
    LET q == ureq[r]  s == playlist[q.on] IN
    /\ q.pc = "read"
    /\ Becomes(r, IF s = NoList \/ (q.kind = "addOne" /\ Head(q.ids) \in ToSet(s)) THEN Resting
                  ELSE [q EXCEPT !.read = s, !.pc = "write"])
    /\ UNCHANGED <<shelf, favorites, playlist, log, heat, history, player, asked, starred, clash>>

(* Mutant: a list that is deleted keeps its heat. *)
WithdrawnButDrop(k, base, new) == IF k \in Drops THEN {} ELSE ToSet(base) \ ToSet(new)

(* The tracks that leave a list. *)
Withdrawn(k, base, new) == IF k \in Drops THEN ToSet(base) ELSE ToSet(base) \ ToSet(new)

(* A list that is gone meanwhile is a 404 (REST), while Subsonic goes on to    *)
(* the heat.                                                                   *)
EndsAtWrite(k, there) == IF there THEN k = "create" ELSE k \notin {"create", "update", "discard"}

WriteList(r, pos) ==
    LET q == ureq[r]
        base == IF q.kind = "create" THEN <<>> ELSE q.read
        new == Changed(q.kind, base, q.ids, pos)
        there == playlist[q.on] # NoList
    IN
    /\ q.pc = "write"
    /\ q.kind # "update" => pos = 1
    /\ playlist' = [playlist EXCEPT ![q.on] =
          CASE q.kind = "create" -> IF there THEN @ ELSE new
            [] q.kind \in Drops -> NoList
            [] OTHER -> IF there THEN new ELSE NoList]
    /\ Becomes(r, IF EndsAtWrite(q.kind, there) THEN Resting
                  ELSE [q EXCEPT !.pc = "award",
                                 !.add = IF q.kind \in Drops THEN {} ELSE ToSet(new) \ ToSet(base),
                                 !.sub = Withdrawn(q.kind, base, new)])
    /\ UNCHANGED <<shelf, favorites, log, heat, history, player, asked, starred, clash>>

(* awardPlaylistTracks: one statement for each track. *)
AwardListTrack(r, t) ==
    /\ ureq[r].pc = "award" /\ ureq[r].kind \in ListKinds /\ t \in ureq[r].add
    /\ AwardEvent(<<ureq[r].on, t>>)
    /\ Becomes(r, [ureq[r] EXCEPT !.add = @ \ {t}])
    /\ UNCHANGED <<shelf, favorites, playlist, history, player, asked, starred, clash>>

(* reversePlaylistTracks: one statement for all. *)
ReverseListTracks(r) ==
    /\ ureq[r].pc = "award" /\ ureq[r].kind \in ListKinds /\ ureq[r].add = {}
    /\ ReverseEvents({<<ureq[r].on, t>> : t \in ureq[r].sub})
    /\ Becomes(r, Resting)
    /\ UNCHANGED <<shelf, favorites, playlist, history, player, asked, starred, clash>>

-------------------------------------------------------------------------------
(* History and the saved queue. *)

(* AddHistory and countScrobble, once they found the track: the old row goes,  *)
(* a new one comes.                                                            *)
AskHistory(r, t) == t \in shelf /\ UNCHANGED starred
                    /\ Asks(r, [Resting EXCEPT !.kind = "played", !.ids = <<t>>, !.read = <<t>>, !.pc = "erase"])

EraseHistory(r) ==
    /\ ureq[r].pc = "erase"
    /\ history' = [history EXCEPT ![Head(ureq[r].ids)] = 0]
    /\ Becomes(r, [ureq[r] EXCEPT !.pc = "row"])
    /\ UNCHANGED <<shelf, favorites, playlist, log, heat, player, asked, starred, clash>>

InsertHistory(r) ==
    /\ ureq[r].pc = "row"
    /\ history' = [history EXCEPT ![Head(ureq[r].ids)] = @ + 1]
    /\ Becomes(r, Resting)
    /\ UNCHANGED <<shelf, favorites, playlist, log, heat, player, asked, starred, clash>>

RemoveHistoryItems(ts) ==
    /\ asked < MaxUserRequests /\ asked' = asked + 1
    /\ history' = [t \in UserTracks |-> IF t \in ts THEN 0 ELSE history[t]]
    /\ UNCHANGED <<shelf, favorites, playlist, log, heat, player, ureq, starred, clash>>

SaveQueue(s, i) ==
    /\ asked < MaxUserRequests /\ asked' = asked + 1
    /\ Len(s) = Cardinality(UserTracks) /\ i < Len(s) /\ player' = [ids |-> s, idx |-> i]
    /\ UNCHANGED <<shelf, favorites, playlist, log, heat, history, ureq, starred, clash>>

(* GetQueue: the tracks that still exist, each once; the index (from 0) is    *)
(* reset only when it is past their end.                                       *)
QueueView == LET ts == AppendNew(<<>>, Without(player.ids, UserTracks \ shelf))
             IN [tracks |-> ts, idx |-> IF player.idx >= Len(ts) THEN 0 ELSE player.idx]

(* GetPlaylist: a page of the list, pages from 1. *)
Page(s, page, per) ==
    LET start == IF (page - 1) * per > Len(s) THEN Len(s) ELSE (page - 1) * per
        end == IF start + per > Len(s) THEN Len(s) ELSE start + per
    IN SubSeq(s, start + 1, end)

-------------------------------------------------------------------------------
(* A scan deletes a track: its events go with it (ON DELETE CASCADE), its ids  *)
(* in favorites, playlists, history and queues stay.                           *)
TrackVanishes(t) ==
    /\ t \in shelf /\ shelf' = shelf \ {t}
    /\ log' = {e \in log : e[2] # t} /\ heat' = [heat EXCEPT ![t] = 0]
    /\ UNCHANGED <<favorites, playlist, history, player, ureq, asked, starred, clash>>

(* The client leaves: the request's context is cancelled, and what is left of  *)
(* the request fails.                                                          *)
ClientLeaves(r) ==
    /\ ureq[r].pc \notin {"idle", "read"}
    /\ clash' = clash \cup Touched(ureq[r])
    /\ Becomes(r, Resting)
    /\ UNCHANGED <<shelf, favorites, playlist, log, heat, history, player, asked, starred>>

UserStep(r) ==
    \/ InsertFavorite(r) \/ AwardFavorite(r) \/ DeleteFavorite(r) \/ ReverseFavorite(r)
    \/ ReadList(r) \/ ReverseListTracks(r) \/ EraseHistory(r) \/ InsertHistory(r) \/ ClientLeaves(r)
    \/ \E i \in 1..Cardinality(UserTracks) : WriteList(r, i)
    \/ \E t \in UserTracks : AwardListTrack(r, t)

UserNext ==
    \/ \E r \in UserThreads :
        \/ UserStep(r)
        \/ \E t \in UserTracks : AskHistory(r, t) \/ \E k \in FavKinds : AskFavorite(r, k, t)
        \/ \E k \in ListKinds, p \in Lists, ids \in UserSeqs : AskList(r, k, p, ids)
    \/ \E s \in UserSeqs, i \in 0..1 : SaveQueue(s, i)
    \/ \E t \in UserTracks : TrackVanishes(t) \/ RemoveHistoryItems({t})

UserSpec == UserInit /\ [][UserNext]_userVars

-------------------------------------------------------------------------------
UserQuiet == \A r \in UserThreads : ureq[r].pc = "idle"

(* The heat of a track is the sum of its events, in every interleaving and     *)
(* whoever leaves when (HeatRepo: one statement moves both).                   *)
HeatIsItsEvents ==
    \A t \in shelf : heat[t] = HeatOf(t, log)

(* A favorite has earned its track the favorite's heat, and nothing else has,  *)
(* unless two requests worked on it at once or a client left (AddFavorites,    *)
(* RemoveFavorites, handleStar).                                               *)
FavoritesEarnHeat ==
    UserQuiet => \A t \in shelf \ clash : (t \in favorites) <=> (<<"fav", t>> \in log)

(* The same for a playlist and its tracks (AddTrackToPlaylist ... updatePlaylist). *)
PlaylistsEarnHeat ==
    UserQuiet => \A p \in Lists \ clash, t \in shelf :
        (playlist[p] # NoList /\ t \in ToSet(playlist[p])) <=> (<<p, t>> \in log)

(* No playlist holds a track twice, even if requests overwrite each other      *)
(* (songIdToAdd, AddTracksToPlaylist).                                         *)
PlaylistsHaveNoDuplicates ==
    \A p \in Lists : playlist[p] # NoList => IsInjective(playlist[p])

(* A recording with a favorite among its versions is listed, whichever version *)
(* was chosen, as long as no Subsonic client stars versions one by one          *)
(* (expandTrackVersions, ListFavorites).                                        *)
FavoritesAreListed ==
    UserQuiet /\ (starred \cup clash) \cap Group = {} /\ Main \in shelf
        => ((Group \cap shelf \cap favorites # {}) <=> Main \in FavoritesView)

(* A track is once in the history (AddHistory, countScrobble). *)
HistoryOnce == \A t \in UserTracks \ clash : history[t] <= 1

(* The queue that is given back points at one of its tracks (GetQueue). *)
QueueIdxInRange == QueueView.tracks # <<>> => QueueView.idx < Len(QueueView.tracks)

(* The pages of a playlist are the playlist: each of its entries is on the     *)
(* page and at the place where a reader who pages through expects it, and      *)
(* nothing else is on a page (GetPlaylist, parsePagination).                   *)
PagesAreThePlaylist ==
    \A p \in Lists, per \in 1..3, n \in 1..Cardinality(UserTracks) + 1 : playlist[p] # NoList =>
        LET s == playlist[p]  shown == Page(s, n, per) IN
        /\ Len(shown) <= per
        /\ \A j \in 1..per :
            IF (n - 1) * per + j \in DOMAIN s THEN j \in DOMAIN shown /\ shown[j] = s[(n - 1) * per + j]
            ELSE j \notin DOMAIN shown

(* Heat, favorites, playlists, history and the saved queue agree with one     *)
(* another, as said above (user_data.go and the Subsonic handlers).           *)
UserSound ==
    /\ UserTypeOK
    /\ HeatIsItsEvents /\ FavoritesEarnHeat /\ PlaylistsEarnHeat /\ PlaylistsHaveNoDuplicates
    /\ FavoritesAreListed /\ HistoryOnce /\ QueueIdxInRange /\ PagesAreThePlaylist
===============================================================================
