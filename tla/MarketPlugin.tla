----------------------------- MODULE MarketPlugin ------------------------------
(* One plugin of the market on disk and in its row: internal/plugin/market.go  *)
(* (Install, UpdatePlugin, Reconcile, checkUpdates) with Start, Install,       *)
(* Uninstall and Delete of manager.go.  Install, update and recovery hold the  *)
(* plugin's lock; deleting, uninstalling, checking for updates and Reconcile's *)
(* first look at the directory do not.  The process is PluginManager's matter. *)
EXTENDS Integers

CONSTANTS
    Nowhere,      \* a directory, an archive or a row that does not exist
    Flat,         \* TRUE: the archives have no top-level directory
    MaxBackups,   \* bound: names for old versions
    MaxListed,    \* bound: versions that the repository lists
    MaxAccidents, \* bound: stops, failed writes, lost or rotten files
    MaxWishes     \* bound: requests of the administrator

(* The directories, in the order of their names: the one an archive is         *)
(* unpacked in, the plugin's own, and those that swaps move old versions to.   *)
Extracting == -1
Home == 0
Backups == 1 .. MaxBackups
Places == {Extracting, Home} \cup Backups
Versions == 1 .. MaxListed
Unpacked == [ver : Versions, bytes : {"half", "good", "bad"}]
PluginRows == [ver : Versions, dir : Places, installed : BOOLEAN, source : {"repo", "local"}, update : BOOLEAN]

ASSUME MarketPluginAssumption ==
    /\ Flat \in BOOLEAN /\ {MaxBackups, MaxAccidents, MaxWishes} \subseteq Nat /\ MaxListed \in Nat \ {0}
    /\ Nowhere \notin Unpacked /\ Nowhere \notin PluginRows

VARIABLES
    listed,   \* the version in the repository's cached catalog, 0: none
    repoRow,  \* whether the repository is still configured
    tar,      \* cached archives: "good" bytes or "bad" ones
    dirs,     \* what each directory holds: a version, "half" unpacked, "good" or "bad"
    inst,     \* row of plugin_instances
    op,       \* who holds the plugin's lock, and how far it is
    recon,    \* Reconcile: the row it read, and what it made of it
    del,      \* Delete
    check,    \* checkUpdates
    wishes, accidents,
    unsure,   \* history: a row was not written after its directory was swapped
    wiped,    \* history: someone else deleted the directory, Delete began, or a
              \* request without the lock installed a plugin whose lock was held
    bought,   \* history: Install of the market has answered for this row
    late      \* history: a version was written without its flag, or during a check

pluginVars == <<listed, repoRow, tar, dirs, inst, op, recon, del, check, wishes, accidents, unsure, wiped, bought, late>>

Idle == [kind |-> "none", pc |-> "none", ver |-> 0, dir |-> Home, old |-> Home]
Content(v, b) == [ver |-> v, bytes |-> b]
PluginRow(v, d, i, s, u) == [ver |-> v, dir |-> d, installed |-> i, source |-> s, update |-> u]
Served == op.pc # "down"

MarketTypeOK ==
    /\ listed \in 0 .. MaxListed /\ op.dir \in Places /\ recon.dir \in Places
    /\ \A v \in Versions : tar[v] \in {Nowhere, "good", "bad"}
    /\ \A d \in Places : dirs[d] \in Unpacked \cup {Nowhere}
    /\ inst \in PluginRows \cup {Nowhere}

MarketInit ==
    /\ listed = 1 /\ repoRow = TRUE /\ tar = [v \in Versions |-> Nowhere]
    /\ dirs = [d \in Places |-> Nowhere] /\ inst = Nowhere
    /\ op = Idle /\ recon = Idle /\ del = Idle /\ check = Idle
    /\ wishes = 0 /\ accidents = 0 /\ unsure = FALSE /\ wiped = FALSE /\ bought = FALSE /\ late = FALSE

Wish == Served /\ wishes < MaxWishes /\ wishes' = wishes + 1
Accident == accidents < MaxAccidents /\ accidents' = accidents + 1
OthersStay == UNCHANGED <<listed, repoRow, recon, del, check, wishes>>
HistoryStays == UNCHANGED <<unsure, wiped, bought, late>>
Release == op' = Idle /\ dirs' = [dirs EXCEPT ![Extracting] = Nowhere]

(* A newer version in the catalog; a repository that the administrator removed. *)
ListNewer ==
    /\ listed < MaxListed /\ listed' = listed + 1
    /\ UNCHANGED <<repoRow, tar, dirs, inst, op, recon, del, check, wishes, accidents>> /\ HistoryStays

DropTheRepo ==
    /\ repoRow /\ Wish /\ repoRow' = FALSE
    /\ UNCHANGED <<listed, tar, dirs, inst, op, recon, del, check, accidents>> /\ HistoryStays

(* Install: no row, or an uninstalled one of the same repository, whose left   *)
(* directory goes first; a directory without a row is refused.                 *)
BeginMarketInstall ==
    /\ op = Idle /\ repoRow /\ Wish
    /\ IF inst = Nowhere THEN dirs[Home] = Nowhere ELSE ~inst.installed /\ inst.source = "repo"
    /\ dirs' = [dirs EXCEPT ![Home] = Nowhere]
    /\ op' = [Idle EXCEPT !.kind = "install", !.pc = "archive", !.ver = listed]
    /\ UNCHANGED <<listed, repoRow, tar, inst, recon, del, check, accidents>> /\ HistoryStays

(* UpdatePlugin: the row's directory keeps its name. *)
BeginMarketUpdate ==
    /\ op = Idle /\ repoRow /\ inst # Nowhere /\ inst.installed /\ inst.source = "repo" /\ listed > inst.ver
    /\ Wish
    /\ op' = [Idle EXCEPT !.kind = "update", !.pc = "archive", !.ver = listed, !.dir = inst.dir]
    /\ UNCHANGED <<listed, repoRow, tar, dirs, inst, recon, del, check, accidents>> /\ HistoryStays

CacheHit(v) == tar[v] = "good"

(* ensureArchive: the cached archive if its checksum is right, else a download *)
(* that is kept under that name only if its checksum is right.                 *)
EnsureArchive ==
    /\ op.pc = "archive"
    /\ IF CacheHit(op.ver) THEN tar' = tar ELSE tar' = [tar EXCEPT ![op.ver] = "good"]
    /\ op' = [op EXCEPT !.pc = "extract"]
    /\ UNCHANGED <<dirs, inst, accidents>> /\ OthersStay /\ HistoryStays

(* A download that fails or has a wrong checksum; a broken archive. *)
FetchRefused ==
    /\ op.pc \in {"archive", "extract", "manifest"} /\ Accident /\ Release
    /\ IF op.pc = "archive" /\ ~CacheHit(op.ver) THEN tar' = [tar EXCEPT ![op.ver] = Nowhere] ELSE tar' = tar
    /\ UNCHANGED inst /\ OthersStay /\ HistoryStays

(* extractTarGz into a temporary directory, then the manifest. *)
Extract ==
    /\ op.pc = "extract" /\ dirs' = [dirs EXCEPT ![Extracting] = Content(op.ver, "half")]
    /\ op' = [op EXCEPT !.pc = "manifest"]
    /\ UNCHANGED <<tar, inst, accidents>> /\ OthersStay /\ HistoryStays

Extracted ==
    /\ op.pc = "manifest" /\ dirs' = [dirs EXCEPT ![Extracting] = Content(op.ver, tar[op.ver])]
    /\ op' = [op EXCEPT !.pc = IF op.kind = "update" THEN "out" ELSE "place"]
    /\ UNCHANGED <<tar, inst, accidents>> /\ OthersStay /\ HistoryStays

(* Rename into place; a directory that is there by now is not overwritten. *)
PlaceNew ==
    /\ op.pc \in {"place", "in"}
    /\ IF dirs[op.dir] # Nowhere THEN Release
       ELSE /\ dirs' = [dirs EXCEPT ![op.dir] = dirs[Extracting], ![Extracting] = Nowhere]
            /\ op' = [op EXCEPT !.pc = IF op.kind = "update" THEN "clean" ELSE "record"]
    /\ UNCHANGED <<tar, inst, accidents>> /\ OthersStay /\ HistoryStays

(* swapPluginDir: the old directory is renamed to a name of its own that sorts *)
(* after it, the new one takes its name, then the old one is removed; a        *)
(* failure of that is only logged.                                             *)
FreeNames(d) == {b \in Backups : b > d /\ dirs[b] = Nowhere}
MoveAway(d, b) == [dirs EXCEPT ![b] = dirs[d], ![d] = Nowhere]

SwapAway ==
    /\ op.pc = "out"
    /\ IF dirs[op.dir] = Nowhere THEN Release
       ELSE \E b \in FreeNames(op.dir) : dirs' = MoveAway(op.dir, b) /\ op' = [op EXCEPT !.pc = "in", !.old = b]
    /\ UNCHANGED <<tar, inst, accidents>> /\ OthersStay /\ HistoryStays

(* The second rename fails: the old directory takes its name again, or stays   *)
(* where it is, which the next start discovers.                                *)
SwapBack ==
    /\ op.pc = "in" /\ Accident /\ op' = Idle
    /\ \/ dirs' = [dirs EXCEPT ![op.dir] = dirs[op.old], ![op.old] = Nowhere, ![Extracting] = Nowhere]
       \/ dirs' = [dirs EXCEPT ![Extracting] = Nowhere]
    /\ UNCHANGED <<tar, inst>> /\ OthersStay /\ HistoryStays

CleanBackup ==
    /\ op.pc = "clean" /\ op' = [op EXCEPT !.pc = "version"]
    /\ \/ dirs' = [dirs EXCEPT ![op.old] = Nowhere] /\ UNCHANGED accidents
       \/ Accident /\ UNCHANGED dirs
    /\ UNCHANGED <<tar, inst>> /\ OthersStay /\ HistoryStays

(* Upsert: a row that exists keeps its source and whether it is installed. *)
Upserted(v, d, s) ==
    IF inst = Nowhere THEN PluginRow(v, d, FALSE, s, FALSE) ELSE [inst EXCEPT !.ver = v, !.dir = d]

(* Install and recovery record the version; SetUpdateAvailable, a statement    *)
(* more, is taken together with it.  When Install's writes fail, its directory *)
(* goes again; recovery leaves it.                                             *)
Record ==
    /\ op.pc = "record"
    /\ \/ /\ inst' = [Upserted(op.ver, op.dir, "repo") EXCEPT !.update = FALSE]
          /\ late' = (late \/ check # Idle) /\ op' = [op EXCEPT !.pc = "installed"] /\ UNCHANGED <<dirs, accidents, unsure>>
       \/ /\ Accident /\ inst' \in {inst, Upserted(op.ver, op.dir, "repo")} /\ op' = Idle
          /\ dirs' = IF op.kind = "install" THEN [dirs EXCEPT ![op.dir] = Nowhere] ELSE dirs
          /\ unsure' = (unsure \/ op.kind = "recover") /\ late' = TRUE
    /\ UNCHANGED <<tar, wiped, bought>> /\ OthersStay

(* Manager.Install, or SetInstalled of the recovery. *)
MarkInstalled ==
    /\ op.pc = "installed" /\ op' = Idle
    /\ IF inst = Nowhere \/ (op.kind = "install" /\ (inst.installed \/ dirs[inst.dir] = Nowhere))
       THEN UNCHANGED <<inst, bought>>
       ELSE inst' = [inst EXCEPT !.installed = TRUE] /\ bought' = (inst.source = "repo" \/ bought)
    /\ UNCHANGED <<tar, dirs, accidents, unsure, wiped, late>> /\ OthersStay

(* SetVersion and SetUpdateAvailable of the update, or their failure. *)
VersionOnly == IF inst = Nowhere THEN inst ELSE [inst EXCEPT !.ver = op.ver]

RecordVersion ==
    /\ op.pc = "version" /\ op' = Idle
    /\ \/ /\ inst' = IF inst = Nowhere THEN inst ELSE [VersionOnly EXCEPT !.update = FALSE]
          /\ late' = (late \/ check # Idle) /\ UNCHANGED <<accidents, unsure>>
       \/ Accident /\ unsure' = TRUE /\ late' = TRUE /\ inst' \in {inst, VersionOnly}
    /\ UNCHANGED <<tar, dirs, wiped, bought>> /\ OthersStay

(* Delete: the directory, then the row. *)
BeginDelete ==
    /\ del = Idle /\ inst # Nowhere /\ Wish
    /\ del' = [Idle EXCEPT !.pc = "files", !.dir = inst.dir] /\ wiped' = TRUE
    /\ UNCHANGED <<listed, repoRow, tar, dirs, inst, op, recon, check, accidents, unsure, bought, late>>

DeleteFiles ==
    /\ del.pc = "files" /\ dirs' = [dirs EXCEPT ![del.dir] = Nowhere] /\ del' = [del EXCEPT !.pc = "row"]
    /\ UNCHANGED <<listed, repoRow, tar, inst, op, recon, check, wishes, accidents>> /\ HistoryStays

DeleteRow ==
    /\ del.pc = "row" /\ inst' = Nowhere /\ del' = Idle /\ bought' = FALSE
    /\ UNCHANGED <<listed, repoRow, tar, dirs, op, recon, check, wishes, accidents, unsure, wiped, late>>

(* Uninstall keeps the files; a discovered plugin is installed as it lies there. *)
SetUninstalled ==
    /\ inst # Nowhere /\ inst.installed /\ Wish /\ inst' = [inst EXCEPT !.installed = FALSE]
    /\ UNCHANGED <<listed, repoRow, tar, dirs, op, recon, del, check, accidents>> /\ HistoryStays

InstallLocal ==
    /\ inst # Nowhere /\ ~inst.installed /\ dirs[inst.dir] # Nowhere /\ Wish
    /\ inst' = [inst EXCEPT !.installed = TRUE] /\ wiped' = (wiped \/ op # Idle)
    /\ UNCHANGED <<listed, repoRow, tar, dirs, op, recon, del, check, accidents, unsure, bought, late>>

(* Mutant: an equal version is offered as well. *)
OffersSame == repoRow /\ listed >= inst.ver

Offers == repoRow /\ listed > inst.ver

(* checkUpdates computes the flag from the row and the catalog, then stores it. *)
BeginCheck ==
    /\ Served /\ check = Idle /\ inst # Nowhere /\ inst.installed /\ inst.source = "repo"
    /\ check' = [Idle EXCEPT !.pc = IF Offers THEN "offer" ELSE "clear"]
    /\ UNCHANGED <<listed, repoRow, tar, dirs, inst, op, recon, del, wishes, accidents>> /\ HistoryStays

StoreCheck ==
    /\ check # Idle /\ check' = Idle
    /\ IF inst = Nowhere THEN UNCHANGED inst ELSE inst' = [inst EXCEPT !.update = (check.pc = "offer")]
    /\ UNCHANGED <<listed, repoRow, tar, dirs, op, recon, del, wishes, accidents>> /\ HistoryStays

(* Reconcile reads the rows, looks for the directory without the lock, and     *)
(* decides what to do with a plugin that has none.                             *)
BeginReconcile ==
    /\ recon.pc = "started"
    /\ recon' = IF inst = Nowhere \/ ~inst.installed THEN Idle
                ELSE [Idle EXCEPT !.kind = inst.source, !.pc = "stat", !.dir = inst.dir]
    /\ UNCHANGED <<listed, repoRow, tar, dirs, inst, op, del, check, wishes, accidents>> /\ HistoryStays

Reconcile ==
    /\ recon.pc = "stat"
    /\ recon' = IF dirs[recon.dir] # Nowhere THEN Idle
                ELSE [recon EXCEPT !.pc = IF recon.kind = "repo" /\ repoRow THEN "recover" ELSE "drop", !.ver = listed]
    /\ UNCHANGED <<listed, repoRow, tar, dirs, inst, op, del, check, wishes, accidents>> /\ HistoryStays

ReconcileDrops ==
    /\ recon.pc = "drop" /\ recon' = Idle /\ inst' = Nowhere /\ bought' = FALSE
    /\ UNCHANGED <<listed, repoRow, tar, dirs, op, del, check, wishes, accidents, unsure, wiped, late>>

(* The directory is looked for again under the lock. *)
StillGone == dirs[recon.dir] = Nowhere

RecoverPlugin ==
    /\ recon.pc = "recover" /\ op = Idle /\ recon' = Idle
    /\ IF StillGone THEN op' = [Idle EXCEPT !.kind = "recover", !.pc = "archive", !.ver = recon.ver, !.dir = recon.dir]
       ELSE op' = op
    /\ UNCHANGED <<listed, repoRow, tar, dirs, inst, del, check, wishes, accidents>> /\ HistoryStays

(* What others do to the files. *)
WipeDir ==
    /\ dirs[Home] # Nowhere /\ Accident /\ dirs' = [dirs EXCEPT ![Home] = Nowhere] /\ wiped' = TRUE
    /\ UNCHANGED <<listed, repoRow, tar, inst, op, recon, del, check, wishes, unsure, bought, late>>

RotArchive ==
    /\ Accident /\ op.pc = "none"
    /\ \E v \in Versions : tar[v] = "good" /\ tar' = [tar EXCEPT ![v] = "bad"]
    /\ UNCHANGED <<listed, repoRow, dirs, inst, op, recon, del, check, wishes>> /\ HistoryStays

(* A stop of the server, and Manager.Start: it upserts every directory that has *)
(* a manifest, in the order of their names; the last one stays in the row.      *)
ServerStops ==
    /\ Served /\ Accident /\ op' = [Idle EXCEPT !.pc = "down"]
    /\ recon' = Idle /\ del' = Idle /\ check' = Idle
    /\ UNCHANGED <<listed, repoRow, tar, dirs, inst, wishes>> /\ HistoryStays

Discovered == {d \in Places : dirs[d] # Nowhere /\ (d = Extracting => Flat)}
LastOf(D) == CHOOSE d \in D : \A e \in D : e <= d

Discover ==
    /\ op.pc = "down" /\ op' = Idle /\ recon' = [Idle EXCEPT !.pc = "started"]
    /\ IF Discovered = {} THEN UNCHANGED inst
       ELSE LET d == LastOf(Discovered) IN inst' = Upserted(dirs[d].ver, d, "local")
    /\ unsure' = FALSE /\ late' = TRUE
    /\ UNCHANGED <<listed, repoRow, tar, dirs, del, check, wishes, accidents, wiped, bought>>

MarketNext ==
    \/ ListNewer \/ DropTheRepo \/ BeginMarketInstall \/ BeginMarketUpdate
    \/ EnsureArchive \/ FetchRefused \/ Extract \/ Extracted \/ PlaceNew \/ SwapAway \/ SwapBack \/ CleanBackup
    \/ Record \/ MarkInstalled \/ RecordVersion
    \/ BeginDelete \/ DeleteFiles \/ DeleteRow \/ SetUninstalled \/ InstallLocal
    \/ BeginCheck \/ StoreCheck \/ BeginReconcile \/ Reconcile \/ ReconcileDrops \/ RecoverPlugin
    \/ WipeDir \/ RotArchive \/ ServerStops \/ Discover

MarketSpec == MarketInit /\ [][MarketNext]_pluginVars

\* The row of an installed plugin names the version that lies in its directory,
\* wherever a stop has fallen: what a swap left between the two is corrected by
\* the discovery of the next start.  Not after a failed write, until that start.
RowNamesWhatIsThere ==
    op.pc = "none" /\ ~unsure /\ inst # Nowhere /\ inst.installed /\ dirs[inst.dir] # Nowhere
        => dirs[inst.dir].ver = inst.ver

\* No step of an update, no failure and no stop leaves an installed plugin without
\* a whole version on disk, unless someone deleted it.
SwapLosesNothing ==
    ~wiped /\ inst # Nowhere /\ inst.installed
        => \E d \in Places \ {Extracting} : dirs[d] # Nowhere /\ dirs[d].bytes = "good"

\* No directory but the temporary one ever holds bytes that the catalog's checksum
\* does not vouch for, though the cached archive may have rotten.
OnlyVerifiedBytes == \A d \in Places \ {Extracting} : dirs[d] # Nowhere => dirs[d].bytes # "bad"

\* A plugin that the market installed keeps its repository through every
\* discovery, update and recovery, so that its updates are still offered.
SourceIsKept == bought /\ inst # Nowhere => inst.source = "repo"

\* An update is only offered for an older version than one the repository has
\* listed, unless a version was written while a check was under way or without
\* its flag (a failed write, the discovery of a start).
OfferIsNewer == ~late /\ inst # Nowhere /\ inst.update => listed > inst.ver

\* No row leads to a directory that was unpacked only in part.
NoHalfInstalled == inst # Nowhere /\ dirs[inst.dir] # Nowhere => dirs[inst.dir].bytes # "half"

\* The parts that hold, together; NoHalfInstalled for archives that have a
\* top-level directory (market.go).
MarketSound ==
    /\ MarketTypeOK
    /\ RowNamesWhatIsThere /\ SwapLosesNothing /\ OnlyVerifiedBytes
    /\ SourceIsKept /\ OfferIsNewer /\ NoHalfInstalled
===============================================================================
