-------------------------------- MODULE Covers --------------------------------
(* Cover images: the rows of table images, the cover_image_id of tracks,      *)
(* albums and artists, and the files of the originals, as CoverManager        *)
(* (internal/infrastructure/metadata/cover_manager.go) keeps them together.   *)
(* Its critical sections (extractMu) are one action each, with an outcome for *)
(* every step of theirs that can fail or be the last before a crash; what a   *)
(* request read before it has the lock may be old by then.                    *)
(*                                                                            *)
(* An image is its content.  Thumbnails go with their original, and the memo  *)
(* of recent failures only refuses requests: neither is a variable.           *)
EXTENDS Integers, FiniteSets

CONSTANTS
    CoverTracks, CoverAlbum, CoverArtist, \* owners of images; the tracks are the album's
    Embedded, Network,                    \* contents of images, by where they come from
    NoContent,
    NoRow,
    CoverThreads,
    SweepAlone,       \* during a sweep no covers are deleted, and none imported for an owner gone before
    MaxImages,        \* bound: rows created
    MaxCoverRequests, \* bound
    MaxUpsets         \* bound: files lost, files tagged again, deletions

Owners == CoverTracks \cup {CoverAlbum, CoverArtist}
Paths == CoverTracks \cup {CoverArtist} \* an album's row names the path of a track
Contents == Embedded \cup Network
NoImage == 0

(* Pictures in files and pictures from platforms are told apart by origin. *)
ASSUME CoversAssumption ==
    /\ CoverAlbum # CoverArtist /\ {CoverAlbum, CoverArtist} \cap CoverTracks = {}
    /\ Embedded # {} /\ Embedded \cap Network = {} /\ NoContent \notin Contents
    /\ NoRow \notin [owner : Owners, path : Paths, content : Contents]
    /\ SweepAlone \in BOOLEAN
    /\ MaxImages \in Nat \ {0, 1} /\ MaxCoverRequests \in Nat /\ MaxUpsets \in Nat

VARIABLES
    db,       \* [row, ptr, file, last]: table images, cover_image_id, the originals, the last id
    alive,    \* owners with a row in their table
    embedded, \* the picture inside the audio file
    creq,     \* the requests of CoverThreads
    coverAsked,    \* requests made so far
    upsets,   \* files lost, tagged again, deletions so far
    coverCrossed,  \* history: owners changed by one request while another had read them
    torn,     \* history: owners an operation was cut short for, with no way back
    lost      \* history: paths whose file was removed from outside

coverVars == <<db, alive, embedded, creq, coverAsked, upsets, coverCrossed, torn, lost>>

CoverPcs == {"idle", "embedded", "platform", "check", "fetch", "backfill", "shared", "sweep"}
AtRest == [pc |-> "idle", owner |-> CoverAlbum, force |-> FALSE, snap |-> NoImage, album |-> NoImage, orphans |-> {}, shared |-> {}]

CoversTypeOK ==
    /\ db.row \in [1..MaxImages -> [owner : Owners, path : Paths, content : Contents] \cup {NoRow}]
    /\ db.ptr \in [Owners -> 0..MaxImages] /\ db.file \in [Paths -> Contents \cup {NoContent}]
    /\ alive \subseteq Owners /\ embedded \in [CoverTracks -> Embedded \cup {NoContent}]
    /\ \A r \in CoverThreads : creq[r].pc \in CoverPcs /\ creq[r].snap \in 0..MaxImages
    /\ coverCrossed \subseteq Owners /\ torn \subseteq Owners /\ lost \subseteq Paths

(* A library after its first scan: one track has a cover, the album shows it. *)
CoversInit ==
    /\ \E t \in CoverTracks, c \in {CHOOSE x \in Embedded : TRUE} :
          /\ db = [row |-> [i \in 1..MaxImages |-> CASE i = 1 -> [owner |-> t, path |-> t, content |-> c]
                                                    [] i = 2 -> [owner |-> CoverAlbum, path |-> t, content |-> c]
                                                    [] OTHER -> NoRow],
                   ptr |-> [o \in Owners |-> CASE o = t -> 1 [] o = CoverAlbum -> 2 [] OTHER -> NoImage],
                   file |-> [p \in Paths |-> IF p = t THEN c ELSE NoContent],
                   last |-> 2]
          /\ embedded = [u \in CoverTracks |-> IF u = t THEN c ELSE NoContent]
    /\ alive = Owners /\ creq = [r \in CoverThreads |-> AtRest]
    /\ coverAsked = 0 /\ upsets = 0 /\ coverCrossed = {} /\ torn = {} /\ lost = {}

-------------------------------------------------------------------------------
(* The tables, as operators from one state of db to the next.                 *)

Create(d, o, p, c) == [d EXCEPT !.last = @ + 1, !.row[d.last + 1] = [owner |-> o, path |-> p, content |-> c]]

(* images.cover_image_id is ON DELETE SET NULL *)
DropRows(d, ids) == [d EXCEPT !.row = [i \in DOMAIN @ |-> IF i \in ids THEN NoRow ELSE @[i]],
                              !.ptr = [o \in Owners |-> IF @[o] \in ids THEN NoImage ELSE @[o]]]
DropRow(d, i) == IF i = NoImage THEN d ELSE DropRows(d, {i})

(* An update of a row that is gone changes nothing and is no error. *)
Point(d, o, i) == IF o \in alive THEN [d EXCEPT !.ptr[o] = i] ELSE d

Exists(d, i) == i # NoImage /\ d.row[i] # NoRow
RowsOf(d, o) == {i \in 1..d.last : d.row[i] # NoRow /\ d.row[i].owner = o}
AlbumRowsAt(d, p) == {i \in RowsOf(d, CoverAlbum) : d.row[i].path = p}
ImageFilesIntact(d, i) == Exists(d, i) /\ d.file[d.row[i].path] # NoContent

-------------------------------------------------------------------------------
(* The import pipeline, with the lock held.  Its outcomes: [db, how].         *)

CoverOutcome(d, how) == [db |-> d, how |-> how]

(* Mutant: the album's rows keep what they said of the old picture. *)
LeaveAlbums(d, t, c) == d

RefreshAlbumsReferencing(d, t, c) ==
    [d EXCEPT !.row = [i \in DOMAIN @ |-> IF i \in AlbumRowsAt(d, t) THEN [@[i] EXCEPT !.content = c] ELSE @[i]]]

CreateAlbumImage(d, t, c) == LET new == Create(d, CoverAlbum, t, c) IN Point(new, CoverAlbum, new.last)

(* The album gets a cover when the request read it as having none. *)
WithAlbum(d, q, t, c) ==
    IF t \in CoverTracks /\ q.album = NoImage
    THEN {CoverOutcome(CreateAlbumImage(d, t, c), "ok"), CoverOutcome(d, "ok")} ELSE {CoverOutcome(d, "ok")}

Retire(d, i) == DropRow(d, i)

RollbackNewRow(d, o, new, old) == DropRow(IF Exists(d, old) THEN Point(d, o, old) ELSE d, new)

(* One row is replaced by another: created, pointed at, files renamed, the    *)
(* old row retired.  "half": the thumbnail could not be renamed after the     *)
(* original was.  "crash": the process ended between two steps; "stuck": the  *)
(* way back failed, too, its statements run through the same context.         *)
Replaced(q, o, c) ==
    LET created == Create(db, o, o, c)
        new == created.last
        pointed == Point(created, o, new)
        renamed == [pointed EXCEPT !.file[o] = c]
        retired == Retire(renamed, q.snap)
        done == IF o \in CoverTracks THEN RefreshAlbumsReferencing(retired, o, c) ELSE retired
    IN  {CoverOutcome(DropRow(created, new), "failed"),
         CoverOutcome(RollbackNewRow(pointed, o, new, q.snap), "failed"),
         CoverOutcome(RollbackNewRow(renamed, o, new, q.snap), "half"),
         CoverOutcome(pointed, "stuck")}
        \cup {CoverOutcome(d, "crash") : d \in {created, pointed, renamed, retired}}
        \cup WithAlbum(done, q, o, c)

(* The content is that of the row the request knows: only files are written. *)
Restored(q, o, c) == {CoverOutcome(db, "failed")} \cup WithAlbum([db EXCEPT !.file[o] = c], q, o, c)

ImportTrackCover(q, t, c) ==
    {CoverOutcome(db, "failed")} \cup
    (IF Exists(db, q.snap) /\ db.row[q.snap].content = c THEN Restored(q, t, c) ELSE Replaced(q, t, c))

ImportArtistCover(q, c) ==
    IF Exists(db, q.snap) /\ db.row[q.snap].content = c
    THEN Restored(q, CoverArtist, c) ELSE Replaced(q, CoverArtist, c)

Import(q, c) == IF q.owner = CoverArtist THEN ImportArtistCover(q, c) ELSE ImportTrackCover(q, q.owner, c)

-------------------------------------------------------------------------------
(* What a request has read of an owner is out of date once another changes it. *)
Changes(d) == {o \in Owners : d.ptr[o] # db.ptr[o] \/ RowsOf(d, o) # RowsOf(db, o)}
ReadBy(S) == UNION {IF creq[s].pc \in {"embedded", "platform", "check", "fetch"} THEN {creq[s].owner, CoverAlbum}
                    ELSE IF creq[s].pc = "backfill" THEN {CoverAlbum} ELSE {} : s \in S}
Become(r, d, q) ==
    /\ db' = d /\ creq' = [creq EXCEPT ![r] = q]
    /\ coverCrossed' = coverCrossed \cup (Changes(d) \cap ReadBy(CoverThreads \ {r}))
    /\ UNCHANGED <<alive, embedded, coverAsked, upsets>>

Started(r, q) ==
    /\ creq[r].pc = "idle" /\ creq' = [creq EXCEPT ![r] = q]
    /\ coverAsked < MaxCoverRequests /\ coverAsked' = coverAsked + 1
OnlyAsks == UNCHANGED <<db, alive, embedded, upsets, coverCrossed, torn, lost>>
Room == db.last + 2 <= MaxImages

(* The end of an import: the next step after a failure, or a restart. *)
RequestEnded(r, x, next) ==
    LET q == creq[r]
        put == IF x.db.file # db.file THEN lost \ {q.owner} ELSE lost IN
    /\ lost' = put
    /\ torn' = IF x.how \in {"crash", "stuck", "half"} THEN torn \cup {q.owner, CoverAlbum} ELSE torn
    /\ IF x.how = "crash"
       THEN /\ db' = x.db /\ creq' = [s \in CoverThreads |-> AtRest]
            /\ UNCHANGED <<alive, embedded, coverAsked, upsets, coverCrossed>>
       ELSE Become(r, x.db, IF x.how = "ok" THEN AtRest ELSE next)

(* A scan (force) or a client's request for a picture whose file is missing   *)
(* (CoverHandler.Serve): both have read the track, and the album.             *)
AskEnsure(r, t, force) ==
    /\ t \in alive
    /\ force \/ db.ptr[t] # NoImage
    /\ Started(r, [AtRest EXCEPT !.pc = "embedded", !.owner = t, !.force = force, !.snap = db.ptr[t], !.album = db.ptr[CoverAlbum]])
    /\ OnlyAsks

(* EnsureTrackCover up to where it lets go of the lock, and ExtractTrackCover *)
EmbeddedCover(r) ==
    LET q == creq[r]
        later == [q EXCEPT !.pc = "platform"] IN
    /\ q.pc = "embedded"
    /\ IF ~q.force /\ ImageFilesIntact(db, q.snap) THEN Become(r, db, AtRest) /\ UNCHANGED <<torn, lost>>
       ELSE IF embedded[q.owner] = NoContent THEN Become(r, db, later) /\ UNCHANGED <<torn, lost>>
       ELSE Room /\ \E x \in Import(q, embedded[q.owner]) : RequestEnded(r, x, later)

(* Mutant: the row the request read decides, not the table. *)
InPlaceAsRead(q) == ImageFilesIntact(db, q.snap)

(* FindByOwner: any row of the owner *)
InPlace(q) == \E i \in RowsOf(db, q.owner) : ImageFilesIntact(db, i)

(* EnsureTrackCover when it has the lock again, with what the platform gave *)
PlatformCover(r) ==
    LET q == creq[r] IN
    /\ q.pc = "platform"
    /\ \/ ~q.force /\ InPlace(q) /\ Become(r, db, AtRest) /\ UNCHANGED <<torn, lost>>
       \/ /\ q.force \/ ~InPlace(q)
          /\ \/ Become(r, db, AtRest) /\ UNCHANGED <<torn, lost>>
             \/ Room /\ \E c \in Network : \E x \in Import(q, c) : RequestEnded(r, x, AtRest)

(* ImportTrackCoverURL and ImportArtistCoverURL *)
AskURL(r, o) ==
    /\ o \in alive \ {CoverAlbum}
    /\ Started(r, [AtRest EXCEPT !.pc = "check", !.owner = o, !.snap = db.ptr[o], !.album = db.ptr[CoverAlbum]])
    /\ OnlyAsks

CheckURL(r) ==
    LET q == creq[r] IN
    /\ q.pc = "check"
    /\ Become(r, db, IF ImageFilesIntact(db, q.snap) THEN AtRest ELSE [q EXCEPT !.pc = "fetch"])
    /\ UNCHANGED <<torn, lost>>

(* An artist's row that is there but not pointed at is pointed at. *)
RepairPointer(q) ==
    IF q.owner = CoverArtist
    THEN {Point(db, CoverArtist, i) : i \in {j \in RowsOf(db, CoverArtist) : j # q.snap}} \cup
         (IF q.snap \in RowsOf(db, CoverArtist) THEN {db} ELSE {}) ELSE {db}

ImportURL(r) ==
    LET q == creq[r] IN
    /\ q.pc = "fetch"
    /\ \/ Become(r, db, AtRest) /\ UNCHANGED <<torn, lost>> \* the download failed
       \/ InPlace(q) /\ (\E d \in RepairPointer(q) : Become(r, d, AtRest)) /\ UNCHANGED <<torn, lost>>
       \/ ~InPlace(q) /\ Room /\ \E c \in Network : \E x \in Import(q, c) : RequestEnded(r, x, AtRest)

(* BackfillAlbumCover: the first track with a row and a file gives the album  *)
(* its cover.                                                                 *)
AskBackfill(r, force) ==
    /\ CoverAlbum \in alive
    /\ Started(r, [AtRest EXCEPT !.pc = "backfill", !.force = force, !.album = db.ptr[CoverAlbum]])
    /\ OnlyAsks

Bearing == {t \in CoverTracks \cap alive : ImageFilesIntact(db, db.ptr[t])}

BackfillAlbumCover(r) ==
    LET q == creq[r] IN
    /\ q.pc = "backfill"
    /\ UNCHANGED <<torn, lost>>
    /\ IF (~q.force /\ ImageFilesIntact(db, q.album)) \/ Bearing = {} THEN Become(r, db, AtRest)
       ELSE \E t \in Bearing :
            LET c == db.file[t] IN
            \/ Become(r, db, AtRest) \* it fails, and takes the row it created back
            \/ IF Exists(db, q.album) /\ db.row[q.album].content = c THEN Become(r, db, AtRest)
               ELSE Room /\ Become(r, Retire(CreateAlbumImage(db, t, c), q.album), AtRest)

-------------------------------------------------------------------------------
(* Deleting.                                                                  *)

Sweeping == \E r \in CoverThreads : creq[r].pc \in {"shared", "sweep"}
MayDelete == SweepAlone => ~Sweeping

(* a track's rows, and those of the albums that show its picture *)
CoverRowsOf(t) == RowsOf(db, t) \cup AlbumRowsAt(db, t)
Upset == upsets < MaxUpsets /\ upsets' = upsets + 1
Delete(d) == Upset /\ db' = d /\ coverCrossed' = coverCrossed \cup (Changes(d) \cap ReadBy(CoverThreads))
Undeleted == UNCHANGED <<alive, embedded, creq, coverAsked, torn>>

(* "albums" alone: the second statement failed *)
DeleteTrackCovers(t) ==
    /\ MayDelete
    /\ \/ Delete(DropRows(db, AlbumRowsAt(db, t))) /\ UNCHANGED lost
       \/ /\ Delete([DropRows(db, CoverRowsOf(t)) EXCEPT !.file[t] = NoContent])
          /\ lost' = lost \ {t}
    /\ Undeleted

DeleteAlbumCovers == MayDelete /\ Delete(DropRows(db, RowsOf(db, CoverAlbum))) /\ Undeleted /\ UNCHANGED lost

DeleteArtistCovers ==
    /\ MayDelete
    /\ Delete([DropRows(db, RowsOf(db, CoverArtist)) EXCEPT !.file[CoverArtist] = NoContent])
    /\ lost' = lost \ {CoverArtist} /\ Undeleted

(* The owner goes, its covers not cleaned: a crash between the two, or by hand *)
OwnerGoes(o) ==
    /\ Upset
    /\ o \in alive /\ alive' = alive \ {o}
    /\ db' = [db EXCEPT !.ptr[o] = NoImage]
    /\ UNCHANGED <<embedded, creq, coverAsked, coverCrossed, torn, lost>>

FindOrphans == {i \in 1..db.last : db.row[i] # NoRow /\ db.row[i].owner \notin alive}

StartSweep(r) ==
    /\ FindOrphans # {}
    /\ SweepAlone => \A s \in CoverThreads : creq[s].pc = "idle" \/ creq[s].owner \in alive
    /\ Started(r, [AtRest EXCEPT !.pc = "shared", !.orphans = {<<i, db.row[i].path>> : i \in FindOrphans}])
    /\ OnlyAsks

SharedPaths(orphans) ==
    LET ids == {x[1] : x \in orphans} IN
    {x[2] : x \in {y \in orphans : \E i \in 1..db.last \ ids : db.row[i] # NoRow /\ db.row[i].path = y[2]}}

AskShared(r) ==
    LET q == creq[r] IN
    /\ q.pc = "shared"
    /\ \/ Become(r, db, [q EXCEPT !.pc = "sweep", !.shared = SharedPaths(q.orphans)])
       \/ Become(r, db, AtRest)
    /\ UNCHANGED <<torn, lost>>

(* The file first, then the row; a file that cannot be removed keeps its row. *)
SweepOrphan(r) ==
    LET q == creq[r] IN
    /\ q.pc = "sweep" /\ UNCHANGED <<torn, lost>>
    /\ IF q.orphans = {} THEN Become(r, db, AtRest)
       ELSE \E x \in q.orphans :
            LET gone == IF x[2] \in q.shared THEN db ELSE [db EXCEPT !.file[x[2]] = NoContent]
                next == [q EXCEPT !.orphans = @ \ {x}] IN
            \/ Become(r, db, next)
            \/ Become(r, gone, next)
            \/ Become(r, DropRow(gone, x[1]), next)

(* Someone deletes an original or saves a picture in an audio file. *)
LoseFile(p) ==
    /\ Upset
    /\ db.file[p] # NoContent /\ db' = [db EXCEPT !.file[p] = NoContent] /\ lost' = lost \cup {p}
    /\ UNCHANGED <<alive, embedded, creq, coverAsked, coverCrossed, torn>>

Retag(t, c) ==
    /\ Upset
    /\ embedded[t] # c /\ embedded' = [embedded EXCEPT ![t] = c]
    /\ UNCHANGED <<db, alive, creq, coverAsked, coverCrossed, torn, lost>>

CoversNext ==
    \/ \E r \in CoverThreads :
          \/ \E t \in CoverTracks, force \in BOOLEAN : AskEnsure(r, t, force)
          \/ EmbeddedCover(r) \/ PlatformCover(r)
          \/ \E o \in Owners : AskURL(r, o)
          \/ CheckURL(r) \/ ImportURL(r)
          \/ \E force \in BOOLEAN : AskBackfill(r, force)
          \/ BackfillAlbumCover(r)
          \/ StartSweep(r) \/ AskShared(r) \/ SweepOrphan(r)
    \/ \E t \in CoverTracks : DeleteTrackCovers(t)
    \/ DeleteAlbumCovers \/ DeleteArtistCovers
    \/ \E o \in Owners : OwnerGoes(o)
    \/ \E p \in Paths : LoseFile(p)
    \/ \E t \in CoverTracks, c \in Embedded \cup {NoContent} : Retag(t, c)

CoversSpec == CoversInit /\ [][CoversNext]_coverVars
-------------------------------------------------------------------------------

(* An owner's picture is its own row's, and no other row of the owner is left *)
(* behind ("so repeated requests do not accumulate rows"): unless two         *)
(* requests overlapped, or one was cut short.                                 *)
NoRowIsLeft == \A o \in alive \ (coverCrossed \cup torn) : RowsOf(db, o) = {db.ptr[o]} \ {NoImage}

(* An owner that overlapping requests left with two rows, until an import puts *)
(* that right, or with more when it went.                                     *)
Doubled == {o \in Paths : (\E i, j \in RowsOf(db, o) : i # j) \/ o \in coverCrossed \ alive}

(* A picture that is pointed at has its file, with the content its row says,  *)
(* whichever way the last import, deletion or sweep went.                     *)
CoverIsThere == \A o \in alive : LET i == db.ptr[o] IN
    i # NoImage => LET p == db.row[i].path IN
        p \in lost \cup torn \cup Doubled \/ db.file[p] = db.row[i].content

(* What the platform gave never takes the place of a picture whose file is    *)
(* there, unless a scan asked for it.                                        *)
NetworkFillsGaps == [][\A t \in CoverTracks :
    LET i == db.ptr[t]  j == db'.ptr[t] IN
    (j # i /\ j # NoImage /\ i # NoImage /\ db'.row[j].content \in Network /\ ImageFilesIntact(db, i))
    => \E r \in CoverThreads : creq[r].pc \in {"embedded", "platform"} /\ creq[r].owner = t /\ creq[r].force]_coverVars

(* Pictures, their rows and their files agree, as said above                  *)
(* (cover_manager.go, image_repo.go).                                         *)
CoversSound == CoversTypeOK /\ NoRowIsLeft /\ CoverIsThere
===============================================================================
