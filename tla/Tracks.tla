------------------------------- MODULE Tracks -------------------------------
(***************************************************************************)
(* What a track is: the (metadata_source, external_id) pair its row        *)
(* carries, the table of ids the other sources know it by, its place in a  *)
(* group of versions of one song, and the heat of its plays.  A library    *)
(* scan (scanner.go, merge.go) and the editor (rest/metadata.go) both      *)
(* rewrite whole rows from copies they read earlier, and both regroup the  *)
(* versions.                                                               *)
(*                                                                         *)
(* A song is a number.  A platform's id of a song is a record of the two,  *)
(* so that an id shows which source issued it, and the text a row is       *)
(* compared by (title, albums and artists) is the song's number, 0 when    *)
(* any part of it is unknown.  The files of the library are numbered in    *)
(* the order of the walk, which is also the order of their quality.        *)
(***************************************************************************)
EXTENDS Integers, FiniteSets, FiniteSetsExt

CONSTANTS
    TrackCount,     \* Files of the library.
    Songs,          \* The songs the platforms know.
    Tagged,         \* Files that carry a MusicBrainz recording id.
    NoId, NoEdit,   \* The empty id; no edit under way, or nothing saved.
    Edits,          \* The editor's operations taken.
    MaxTrackWork    \* Bound: scans, edits, files replaced and plays, together.

TrackIds == 1..TrackCount
Platforms == {"musicbrainz", "netease"}
Sources == Platforms \cup {"user"}
IdsOf(s) == IF s = "user" THEN {} ELSE {[src |-> s, song |-> n] : n \in Songs}
Ids == UNION {IdsOf(s) : s \in Sources}

ASSUME TracksAssumption ==
    /\ TrackCount \in Nat \ {0}
    /\ Songs \subseteq Nat \ {0} /\ IsFiniteSet(Songs)
    /\ Tagged \subseteq TrackIds
    /\ NoId \notin Ids
    /\ MaxTrackWork \in Nat
    /\ Edits \subseteq {"save", "source", "identify", "reidentify", "unmatched"}

VARIABLES
    rows,       \* tracks: the row of each file.
    groups,     \* track_version_groups: (source, id) pairs with their tracks.
    files,      \* The song in each file, and whether its row was derived from it.
    remembered, \* user_metadata: what the owner saved for a file's hash.
    scan,       \* The scan under way.
    edit,       \* The edit under way.
    listens,    \* track_events: plays of each track.
    agreed,     \* No change since the last regrouping bypassed it.
    budget      \* What is left of the bound.

trackVars == <<rows, groups, files, remembered, scan, edit, listens, agreed, budget>>

NoAliases == [s \in Sources |-> NoId]
Row == [src : Sources, id : Ids \cup {NoId}, aliases : [Sources -> Ids \cup {NoId}],
        ver : 0..TrackCount, text : Songs, heat : 0..MaxTrackWork]
Found == [src : Sources, id : Ids \cup {NoId}, text : Songs]
ScanPcs == {"idle", "walk", "merge", "resolve", "avatars"}

\* sourcePriority: the registry's order, lower first.
sourcePriority(s) == CASE s = "user" -> 0 [] s = "musicbrainz" -> 10 [] OTHER -> 20

\* SetExternalID: the alias of the row's own source follows the id, in a row
\* that has an alias table at all.
SetExternalID(r, table, id) ==
    [r EXCEPT !.id = id, !.aliases = IF table THEN [@ EXCEPT ![r.src] = id] ELSE @]

\* A row read from the database has a table unless the stored one is empty.
HasTable(r) == r.aliases # NoAliases

-----------------------------------------------------------------------------
(* Grouping.                                                               *)

Key(r) == <<r.src, r.id>>
Holders(rs, k) == {t \in TrackIds : rs[t].id # NoId /\ Key(rs[t]) = k}
KeysHeld(rs) == {Key(rs[t]) : t \in {u \in TrackIds : rs[u].id # NoId}}
RowsFor(k, S) == {<<k, t>> : t \in S}

\* The place of a track among its versions, best file first.
RankIn(S, t) == Cardinality({u \in S : u <= t})

\* renumberGroup: the holders are numbered and recorded under the key.
Numbered(rs, S) == [t \in TrackIds |-> IF t \in S THEN [rs[t] EXCEPT !.ver = RankIn(S, t)] ELSE rs[t]]
Listed(rs, S) == [t \in TrackIds |-> IF t \in S THEN [rs[t] EXCEPT !.ver = 0] ELSE rs[t]]

\* resolveVersions: every identity of the library at once.
Resolved(rs) ==
    [t \in TrackIds |->
        IF rs[t].id = NoId THEN rs[t]
        ELSE LET S == Holders(rs, Key(rs[t]))
             IN  [rs[t] EXCEPT !.ver = IF Cardinality(S) < 2 THEN 0 ELSE RankIn(S, t)]]
ResolvedGroups(rs, gs) ==
    LET shared == {k \in KeysHeld(rs) : Cardinality(Holders(rs, k)) >= 2}
    IN  {g \in gs : g[1] \in shared} \cup UNION {RowsFor(k, Holders(rs, k)) : k \in shared}

\* reResolveVersions, after the identity of t changed from the pair `old`:
\* the old group first, then the new one.  A lone track left in the old group
\* is listed again and every row of the old id is dropped, whatever its source.
LeaveGroup(rs, gs, old) ==
    LET S == Holders(rs, old)
    IN  IF old[2] = NoId THEN <<rs, gs>>
        ELSE IF Cardinality(S) < 2 THEN <<Listed(rs, S), {g \in gs : g[1][2] # old[2]}>>
        ELSE <<Numbered(rs, S), gs \cup RowsFor(old, S)>>
JoinGroup(rs, gs, k) ==
    LET S == Holders(rs, k)
    IN  IF Cardinality(S) >= 2 THEN <<Numbered(rs, S), gs \cup RowsFor(k, S)>>
        ELSE <<Listed(rs, S), gs>>
reResolveVersions(rs, gs, old, new) ==
    LET left == LeaveGroup(rs, gs, old) IN JoinGroup(left[1], left[2], new)

\* The cleanup after a save that only switched the source: the track leaves
\* every group in one transaction and the rest of its old group is renumbered.
DropFromGroups(rs, gs, t, old) ==
    LET own  == Listed(rs, {t})
        rest == Holders(own, old)
    IN  <<Numbered(own, rest), {g \in gs : g[2] # t} \cup RowsFor(old, rest)>>

-----------------------------------------------------------------------------
(* Merging.                                                                *)

\* What a row says of itself under a source, and what a set of rows does, the
\* later row winning.
Says(r, s) == IF r.src = s /\ r.id # NoId THEN r.id ELSE r.aliases[s]
mergeExternalIDs(rs, S) ==
    [s \in Sources |-> LET G == {t \in S : Says(rs[t], s) # NoId}
                       IN  IF G = {} THEN NoId ELSE Says(rs[Max(G)], s)]

\* FindByExternalID: another track known by the id, main versions first.
FindByExternalID(rs, t, s, id) ==
    {u \in TrackIds \ {t} : Key(rs[u]) = <<s, id>> \/ rs[u].aliases[s] = id}
Precedes(rs, u, v) ==
    LET rank(w) == IF rs[w].ver = 1 THEN -1 ELSE rs[w].ver
    IN  rank(u) < rank(v) \/ (rank(u) = rank(v) /\ u <= v)

\* tryMergeByIdentifiedID: the scanned track r takes the identity of a track
\* already known by its id, and both tables.
tryMergeByIdentifiedID(rs, t, r) ==
    LET same == IF r.id = NoId THEN {} ELSE FindByExternalID(rs, t, r.src, r.id)
        u    == CHOOSE v \in same : \A w \in same : Precedes(rs, v, w)
        both == [s \in Sources |->
                    IF s = rs[u].src THEN rs[u].id ELSE IF s = r.src THEN r.id
                    ELSE IF r.aliases[s] # NoId THEN r.aliases[s] ELSE rs[u].aliases[s]]
    IN  IF same = {} \/ rs[u].id = NoId THEN rs
        ELSE [rs EXCEPT ![t] = [@ EXCEPT !.src = rs[u].src, !.id = rs[u].id, !.aliases = both]]

(* Mutant: only the tracks with an id are aligned, each keeping its aliases. *)
AlignOnlyIds(rs, S) ==
    LET named == {t \in S : rs[t].id # NoId}
        main  == CHOOSE t \in named : \A u \in named : sourcePriority(rs[t].src) <= sourcePriority(rs[u].src)
    IN  [t \in TrackIds |-> IF t \in named THEN [rs[t] EXCEPT !.src = rs[main].src, !.id = rs[main].id] ELSE rs[t]]

\* alignGroup: tracks of one text take the identity of the source of the best
\* priority among them, and all their aliases.
alignGroup(rs, S) ==
    LET named == {t \in S : rs[t].id # NoId}
        main  == CHOOSE t \in named : \A u \in named :
                    \/ sourcePriority(rs[t].src) < sourcePriority(rs[u].src)
                    \/ sourcePriority(rs[t].src) = sourcePriority(rs[u].src) /\ t <= u
        table == [mergeExternalIDs(rs, S) EXCEPT ![rs[main].src] = rs[main].id]
    IN  IF Cardinality(S) < 2 \/ named = {} THEN rs
        ELSE [t \in TrackIds |->
                IF t \in S THEN [rs[t] EXCEPT !.src = rs[main].src, !.id = rs[main].id, !.aliases = table]
                ELSE rs[t]]

\* mergeKey: the title, the albums and the artists, normalised.
mergeKey(r) == r.text

\* Phase 1 of mergeDuplicates: secondary versions are not compared.
Comparable(rs, gs) ==
    {t \in TrackIds : ~(rs[t].ver > 1 /\ \E g \in gs : g[2] = t)}
Aligned(rs, gs) ==
    [t \in TrackIds |->
        LET S == {u \in Comparable(rs, gs) : mergeKey(rs[u]) = mergeKey(rs[t])}
        IN  IF t \in S THEN alignGroup(rs, S)[t] ELSE rs[t]]

\* Phase 2, syncVersionGroups: the main version of a recorded group hands its
\* identity to the other members and everyone the union of the aliases.
MembersOf(gs, k) == {t \in TrackIds : <<k, t>> \in gs}
GroupsOf(gs, t) == {g[1] : g \in {h \in gs : h[2] = t}}
MainOf(rs, S) == {t \in S : rs[t].ver = 1}
InSync(rs, S, t) ==
    LET main  == Min(MainOf(rs, S))
        other == mergeExternalIDs(rs, S \ {main})
        own   == mergeExternalIDs(rs, {main})
        table == [s \in Sources |->
                    IF s = rs[main].src /\ rs[main].id # NoId THEN rs[main].id
                    ELSE IF other[s] # NoId THEN other[s] ELSE own[s]]
    IN  [rs[t] EXCEPT !.src = rs[main].src, !.id = rs[main].id, !.aliases = table]
SyncedBy(rs, gs, t) ==
    {S \in {MembersOf(gs, g[1]) : g \in gs} : t \in S /\ Cardinality(S) >= 2 /\ MainOf(rs, S) # {}}

\* The groups recorded by the last scan still are of one text each, with a
\* main version, and apart.  They are not once the file of a secondary version
\* has been replaced by another song: its row keeps its place in the group.
OfOneText(rs, gs) ==
    /\ \A g, h \in gs : g[1] = h[1] => mergeKey(rs[g[2]]) = mergeKey(rs[h[2]])
    /\ \A g \in gs : MainOf(rs, MembersOf(gs, g[1])) # {}
    /\ \A g, h \in gs : g[2] = h[2] => g[1] = h[1]

-----------------------------------------------------------------------------
(* What a scan makes of a file.                                            *)

RecordingId(t) == IF t \in Tagged THEN [src |-> "musicbrainz", song |-> files[t].song] ELSE NoId
HitOf(id) == [src |-> id.src, id |-> id, text |-> id.song]

\* Registry.Identify: the recording id in the file, else what its owner saved
\* (whose missing id the platform it names may supply), else a platform or
\* nobody.
Answers(t, corrections) ==
    LET platform == {HitOf([src |-> s, song |-> files[t].song]) : s \in Platforms}
        kept     == remembered[t]
        saved    == IF ~corrections \/ kept = NoEdit THEN {}
                    ELSE {kept} \cup {[kept EXCEPT !.id = h.id] :
                                        h \in {p \in platform : kept.id = NoId /\ p.src = kept.src}}
    IN  (IF t \in Tagged THEN {HitOf(RecordingId(t))} ELSE {})
        \cup (IF saved = {} THEN platform ELSE saved)
Unrecognised(t, corrections) == ~corrections \/ remembered[t] = NoEdit

\* ApplyEnrichment, on the copy of a row whose file has not changed.
WithRecordingId(r, id, overwrite) ==
    IF id # NoId /\ (r.id = NoId \/ overwrite) /\ r.src = "musicbrainz"
    THEN SetExternalID(r, HasTable(r), id) ELSE r
Switched(r, hit) ==
    LET kept == [r EXCEPT !.aliases = IF r.id = NoId THEN @ ELSE [@ EXCEPT ![r.src] = r.id], !.src = hit.src]
    IN  IF hit.id = NoId /\ r.id = NoId THEN kept ELSE SetExternalID(kept, HasTable(kept), hit.id)
MaySwitch(r, overwrite) == overwrite \/ r.src = "musicbrainz"
Adopted(r, hit, overwrite) ==
    LET there  == IF hit.src # r.src /\ MaySwitch(r, overwrite) THEN Switched(r, hit) ELSE r
        titled == [there EXCEPT !.text = IF overwrite THEN hit.text ELSE @]
    IN  IF hit.id # NoId /\ (titled.id = NoId \/ overwrite)
        THEN SetExternalID(titled, HasTable(there), hit.id) ELSE titled

\* A changed file gives a new row, which keeps the aliases of the old one,
\* its old id among them when the source is another, its version and heat.
\* "" is the source of a row nobody identified; it is stored as "user".
Derived(r, t, hit) ==
    LET source == IF hit = NoEdit THEN "" ELSE hit.src
        kept   == IF r.id # NoId /\ r.src # source THEN [r.aliases EXCEPT ![r.src] = r.id] ELSE r.aliases
        blank  == [r EXCEPT !.src = IF source = "" THEN "user" ELSE source, !.id = NoId, !.aliases = kept,
                            !.text = IF hit = NoEdit THEN files[t].song ELSE hit.text]
        table  == kept # NoAliases
        named  == IF hit = NoEdit THEN blank ELSE SetExternalID(blank, table, hit.id)
        mbid   == RecordingId(t)
    IN  CASE mbid = NoId -> named
          [] mbid # NoId /\ source \in {"", "musicbrainz"} ->
                SetExternalID([named EXCEPT !.src = "musicbrainz"], table, mbid)
          [] mbid # NoId /\ source \notin {"", "musicbrainz"} ->
                IF named.id = NoId THEN named ELSE [named EXCEPT !.aliases["musicbrainz"] = mbid]

-----------------------------------------------------------------------------
(* The scan.                                                               *)

Unscanned == [pc |-> "idle", copy |-> <<>>, next |-> 0, overwrite |-> FALSE, tidy |-> FALSE]

TracksInit ==
    /\ files \in [TrackIds -> {[song |-> n, fresh |-> TRUE] : n \in Songs}]
    /\ rows = [t \in TrackIds |-> [src |-> "user", id |-> NoId, aliases |-> NoAliases,
                                   ver |-> 0, text |-> files[t].song, heat |-> 0]]
    /\ groups = {}
    /\ remembered = [t \in TrackIds |-> NoEdit]
    /\ scan = Unscanned
    /\ edit = NoEdit
    /\ listens = [t \in TrackIds |-> 0]
    /\ agreed = TRUE
    /\ budget = MaxTrackWork

\* The rows are read once, before the walk.
ScanLibrary(overwrite) ==
    /\ scan.pc = "idle" /\ budget > 0
    /\ scan' = [pc |-> "walk", copy |-> rows, next |-> 1, overwrite |-> overwrite, tidy |-> FALSE]
    /\ budget' = budget - 1
    /\ UNCHANGED <<rows, groups, files, remembered, edit, listens, agreed>>

WalkOn == scan' = [scan EXCEPT !.next = @ + 1, !.pc = IF scan.next = TrackCount THEN "merge" ELSE @]

\* The row that a visit stores: the copy as the visit changed it, whole.
Visited(t, hit) ==
    LET r == scan.copy[t]
        m == WithRecordingId(r, RecordingId(t), scan.overwrite)
    IN  IF files[t].fresh THEN Derived(r, t, hit)
        ELSE IF hit = NoEdit THEN m ELSE Adopted(m, hit, scan.overwrite)

\* One file of the walk.  The row of an unchanged file is stored when
\* anything of the track changed, its cover or lyrics included; the merge by
\* id works from the copy either way.
ScanTrack ==
    LET t == scan.next IN
    /\ scan.pc = "walk"
    /\ \E hit \in Answers(t, TRUE) \cup {NoEdit}, changed \in BOOLEAN :
        LET r      == Visited(t, hit)
            stored == IF changed THEN [rows EXCEPT ![t] = r] ELSE rows
        IN  /\ hit = NoEdit => Unrecognised(t, TRUE)
            /\ (files[t].fresh \/ r # scan.copy[t]) => changed
            /\ rows' = tryMergeByIdentifiedID(stored, t, r)
    /\ files' = [files EXCEPT ![t].fresh = FALSE]
    /\ agreed' = FALSE
    /\ WalkOn
    /\ UNCHANGED <<groups, remembered, edit, listens, budget>>

\* mergeDuplicates: nothing to do for a single track.  A track recorded in
\* two groups is written by both, in either order.
mergeDuplicates ==
    /\ scan.pc = "merge"
    /\ LET rs == Aligned(rows, groups) IN
       IF TrackCount < 2 THEN rows' = rows
       ELSE \E last \in [TrackIds -> {MembersOf(groups, g[1]) : g \in groups} \cup {{}}] :
            /\ \A t \in TrackIds : IF SyncedBy(rs, groups, t) = {} THEN last[t] = {}
                                     ELSE last[t] \in SyncedBy(rs, groups, t)
            /\ rows' = [t \in TrackIds |-> IF last[t] = {} THEN rs[t] ELSE InSync(rs, last[t], t)]
    /\ scan' = [scan EXCEPT !.pc = "resolve", !.tidy = OfOneText(rows, groups)]
    /\ agreed' = FALSE
    /\ UNCHANGED <<groups, files, remembered, edit, listens, budget>>

resolveVersions ==
    /\ scan.pc = "resolve"
    /\ rows' = Resolved(rows)
    /\ groups' = ResolvedGroups(rows, groups)
    /\ scan' = [scan EXCEPT !.pc = "avatars"]
    /\ agreed' = TRUE
    /\ UNCHANGED <<files, remembered, edit, listens, budget>>

\* backfillArtistAvatars may learn a platform's id of a track not keyed under
\* that platform yet.
AddExternalID ==
    /\ scan.pc = "avatars"
    /\ \E t \in TrackIds, s \in Platforms :
        /\ rows[t].src # s /\ rows[t].aliases[s] = NoId
        /\ rows' = [rows EXCEPT ![t].aliases[s] = [src |-> s, song |-> rows[t].text]]
    /\ scan' = Unscanned
    /\ UNCHANGED <<groups, files, remembered, edit, listens, agreed, budget>>

\* The end of a scan, or its cancellation at a stage boundary.
EndScan ==
    /\ scan.pc # "idle"
    /\ scan' = Unscanned
    /\ UNCHANGED <<rows, groups, files, remembered, edit, listens, agreed, budget>>

\* A file is replaced by one with another hash.
ReplaceFile(t) ==
    /\ budget > 0
    /\ \E n \in Songs : files' = [files EXCEPT ![t] = [song |-> n, fresh |-> TRUE]]
    /\ remembered' = [remembered EXCEPT ![t] = NoEdit]
    /\ scan.pc = "walk" => scan.next <= t
    /\ budget' = budget - 1
    /\ UNCHANGED <<rows, groups, scan, edit, listens, agreed>>

-----------------------------------------------------------------------------
(* The editor and the player.                                              *)

\* A request reads the row; a platform is asked before it is written back.
\* Reidentify forgets what the owner saved first.
BeginEdit(kind, t) ==
    /\ edit = NoEdit /\ budget > 0
    /\ edit' = [kind |-> kind, track |-> t, row |-> rows[t]]
    /\ remembered' = IF kind = "reidentify" THEN [remembered EXCEPT ![t] = NoEdit] ELSE remembered
    /\ budget' = budget - 1
    /\ UNCHANGED <<rows, groups, files, scan, listens, agreed>>

\* A write from an outdated copy, or one that regroups nothing, leaves the
\* numbering to the next scan.
WrittenBack(r, regroups) ==
    /\ edit' = NoEdit
    /\ scan' = [scan EXCEPT !.tidy = FALSE]
    /\ agreed' = (agreed /\ regroups /\ [edit.row EXCEPT !.heat = 0] = [rows[edit.track] EXCEPT !.heat = 0])
    /\ UNCHANGED <<files, listens, budget>>

\* The row a save with an external id stores: a changed title drops the
\* aliases, and the id lands under its source.
SavedRow(old, id) ==
    LET fresh == old.text # id.song
        based == [old EXCEPT !.src = id.src, !.text = id.song, !.aliases = IF fresh THEN NoAliases ELSE @]
    IN  SetExternalID(based, fresh \/ HasTable(old), id)

\* Save with an external id: the owner's answer for the file is remembered,
\* the row stored and the versions of both identities regrouped.
Save ==
    /\ edit # NoEdit /\ edit.kind = "save"
    /\ \E id \in Ids :
        LET t     == edit.track
            old   == edit.row
            r     == SavedRow(old, id)
            rs    == [rows EXCEPT ![t] = r]
            after == IF old.id = id THEN <<rs, groups>> ELSE reResolveVersions(rs, groups, Key(old), Key(r))
        IN  /\ rows' = after[1] /\ groups' = after[2]
            /\ remembered' = [remembered EXCEPT ![t] = HitOf(id)]
            /\ WrittenBack(r, Key(old) = Key(r) \/ old.id # id)

\* Save of another source without an id: the id and its alias go, and the
\* track leaves its group.
SaveSource ==
    /\ edit # NoEdit /\ edit.kind = "source"
    /\ \E s \in Sources \ {edit.row.src} :
        LET t     == edit.track
            old   == edit.row
            bare  == IF old.id = NoId THEN old ELSE SetExternalID(old, HasTable(old), NoId)
            r     == [bare EXCEPT !.src = s]
            rs    == [rows EXCEPT ![t] = r]
            after == IF old.id = NoId THEN <<rs, groups>> ELSE DropFromGroups(rs, groups, t, Key(old))
        IN  /\ rows' = after[1] /\ groups' = after[2]
            /\ remembered' = [remembered EXCEPT ![t] = [src |-> s, id |-> NoId, text |-> old.text]]
            /\ WrittenBack(r, TRUE)

\* Identify: the id asked for is looked up and stored; nothing is regrouped.
Identify ==
    /\ edit # NoEdit /\ edit.kind = "identify"
    /\ \E id \in Ids :
        LET old  == edit.row
            bare == IF old.src # id.src /\ old.id # NoId THEN SetExternalID(old, HasTable(old), NoId) ELSE old
            r    == SetExternalID([bare EXCEPT !.src = id.src, !.text = id.song], HasTable(old), id)
        IN  /\ rows' = [rows EXCEPT ![edit.track] = r]
            /\ WrittenBack(r, Key(old) = Key(r))
    /\ UNCHANGED <<groups, remembered>>

\* Another answer starts the row afresh, its aliases included.
Afresh(old, hit) ==
    [old EXCEPT !.src = hit.src, !.id = hit.id, !.ver = 0, !.text = hit.text,
                !.aliases = [NoAliases EXCEPT ![hit.src] = hit.id]]

\* Reidentify with another answer regroups; with the same one the row is
\* enriched in place.
Reidentify ==
    /\ edit # NoEdit /\ edit.kind = "reidentify"
    /\ \E hit \in Answers(edit.track, FALSE) :
        LET t     == edit.track
            old   == edit.row
            other == Key(old) # Key(hit)
            r     == IF other THEN Afresh(old, hit) ELSE Adopted(WithRecordingId(old, RecordingId(t), TRUE), hit, TRUE)
            rs    == [rows EXCEPT ![t] = r]
            after == IF other THEN reResolveVersions(rs, groups, Key(old), Key(r)) ELSE <<rs, groups>>
        IN  /\ rows' = after[1] /\ groups' = after[2]
            /\ WrittenBack(r, TRUE)
    /\ UNCHANGED remembered

\* Reidentify of a file nobody recognises: id, source and aliases are dropped.
Unmatched ==
    /\ edit # NoEdit /\ edit.kind = "reidentify" /\ "unmatched" \in Edits
    /\ LET r == [edit.row EXCEPT !.src = "user", !.id = NoId, !.aliases = NoAliases,
                                  !.text = files[edit.track].song]
       IN  /\ rows' = [rows EXCEPT ![edit.track] = r]
           /\ WrittenBack(r, edit.row.id = NoId)
    /\ UNCHANGED <<groups, remembered>>

\* A play earns heat: the counter is raised in the row, the event is logged.
CountPlay(t) ==
    /\ budget > 0
    /\ rows' = [rows EXCEPT ![t].heat = @ + 1]
    /\ listens' = [listens EXCEPT ![t] = @ + 1]
    /\ budget' = budget - 1
    /\ UNCHANGED <<groups, files, remembered, scan, edit, agreed>>

TracksNext ==
    \/ \E overwrite \in BOOLEAN : ScanLibrary(overwrite)
    \/ ScanTrack \/ mergeDuplicates \/ resolveVersions \/ AddExternalID \/ EndScan
    \/ \E t \in TrackIds : ReplaceFile(t) \/ CountPlay(t)
    \/ \E t \in TrackIds, kind \in Edits \ {"unmatched"} : BeginEdit(kind, t)
    \/ Save \/ SaveSource \/ Identify \/ Reidentify \/ Unmatched

TracksSpec == TracksInit /\ [][TracksNext]_trackVars

-----------------------------------------------------------------------------
(* Properties.                                                             *)

\* Every row, copy and group has its type.
TracksTypeOK ==
    /\ rows \in [TrackIds -> Row]
    /\ \A g \in groups : g[1] \in Sources \X Ids /\ g[2] \in TrackIds
    /\ \A t \in TrackIds : remembered[t] \in Found \cup {NoEdit}
    /\ scan.pc \in ScanPcs
    /\ edit # NoEdit => edit.track \in TrackIds /\ edit.row \in Row

\* The alias a row holds under its own source is its id: a stale one would
\* join it to the versions of another song.
AliasInStep ==
    \A t \in TrackIds : rows[t].id # NoId => rows[t].aliases[rows[t].src] \in {NoId, rows[t].id}

\* Of the versions of one song exactly one is listed, the best file,
\* whichever of the scan and the editor grouped them last.
ListedOnce ==
    agreed /\ scan.pc \in {"idle", "avatars"} =>
        \A t \in TrackIds : rows[t].id # NoId =>
            (rows[t].ver <= 1 <=> t = Min(Holders(rows, Key(rows[t]))))

\* What a merge makes of groups that still are of one text each, until
\* somebody edits a row: tracks of one text are one song and share the
\* identity, and of one group also the aliases.
OneSongOneIdentity ==
    scan.pc \in {"resolve", "avatars"} /\ scan.tidy =>
        \A t, u \in TrackIds :
            (mergeKey(rows[t]) = mergeKey(rows[u]) /\ rows[t].id # NoId) =>
                /\ Key(rows[t]) = Key(rows[u])
                /\ (scan.pc = "resolve" /\ GroupsOf(groups, t) = GroupsOf(groups, u))
                      => rows[t].aliases = rows[u].aliases

\* An id is stored under the source that issued it.
IdsKeepTheirSource == \A t \in TrackIds : rows[t].id # NoId => rows[t].id.src = rows[t].src

\* A track without an identity is no version of anything and is listed.
UnidentifiedAreListed == \A t \in TrackIds : rows[t].id = NoId => rows[t].ver <= 1

\* The heat of a track is the sum of its events.
HeatIsTheSumOfEvents == \A t \in TrackIds : rows[t].heat = listens[t]

\* No row of an identity a track has left stays in the version groups.
GroupsAreCurrent ==
    agreed /\ scan.pc \in {"idle", "avatars"} =>
        \A g \in groups : Key(rows[g[2]]) = g[1]

\* Identities, aliases and versions agree, as said above (scanner.go, merge.go,
\* rest/metadata.go).
TracksSound == TracksTypeOK /\ AliasInStep /\ ListedOnce /\ OneSongOneIdentity
=============================================================================
