------------------------------- MODULE MCLibrary -------------------------------
(* The parts of the server around the library.  In the model they share no     *)
(* state, so a behaviour is one of a single part while the others stay as they *)
(* began.                                                                      *)
EXTENDS UserData, Accounts, Settings, SettingsCache, Covers, Tracks, Downloads, RepoCache, MarketPlugin

VARIABLE part

Parts == {"user data", "accounts", "settings", "settings cache", "covers", "tracks", "downloads",
          "catalogs", "plugin files"}

(* A part that stays has one initial state.  A user begins with nothing or     *)
(* with favorites and a playlist, a library with files of one song, which      *)
(* others may replace.                                                         *)
LibraryInit ==
    /\ part \in Parts
    /\ UserInit
    /\ \A l \in Lists : playlist[l] = NoList <=> favorites = {}
    /\ part # "user data" => favorites = {}
    /\ AccountsInit
    /\ part # "accounts" => \A u \in Persons : users[u] = Nobody
    /\ SettingsInit
    /\ part # "settings" => off = {}
    /\ TracksInit
    /\ \A t \in TrackIds : files[t].song = 1
    /\ CacheInit /\ CoversInit /\ DownloadsInit /\ RepoInit /\ MarketInit

(* Every part's requests may change places. *)
RequestSymmetry == Permutations(UserThreads)

Stays(p, v) == part # p => UNCHANGED v

Alone(p) ==
    /\ part = p /\ part' = part
    /\ Stays("user data", userVars) /\ Stays("accounts", acctVars) /\ Stays("settings", setVars)
    /\ Stays("settings cache", cacheVars) /\ Stays("covers", coverVars) /\ Stays("tracks", trackVars)
    /\ Stays("downloads", jobVars) /\ Stays("catalogs", repoVars) /\ Stays("plugin files", pluginVars)

UserDataSteps == Alone("user data") /\ UserNext
AccountsSteps == Alone("accounts") /\ AccountsNext
SettingsSteps == Alone("settings") /\ SettingsNext
SettingsCacheSteps == Alone("settings cache") /\ CacheNext
CoversSteps == Alone("covers") /\ CoversNext
TracksSteps == Alone("tracks") /\ TracksNext
DownloadsSteps == Alone("downloads") /\ DownloadsNext
CatalogsSteps == Alone("catalogs") /\ RepoNext
PluginFilesSteps == Alone("plugin files") /\ MarketNext

LibraryNext ==
    \/ UserDataSteps \/ AccountsSteps \/ SettingsSteps \/ SettingsCacheSteps \/ CoversSteps
    \/ TracksSteps \/ DownloadsSteps \/ CatalogsSteps \/ PluginFilesSteps

LibrarySpec ==
    /\ LibraryInit
    /\ [][LibraryNext]_<<part, userVars, acctVars, setVars, cacheVars, coverVars, trackVars, jobVars, repoVars, pluginVars>>

-------------------------------------------------------------------------------
\* Only the part that runs can change what its promise is about.
Of(p, promise) == part = p => promise

(* Heat, favorites, playlists, history and the saved queue agree with one     *)
(* another (user_data.go and the Subsonic handlers).                          *)
UserDataHolds == Of("user data", UserSound)

\* What the administrator saved is what the server goes by: settings and
\* preferences have their effects (admin.go, notification_service.go), catalogs
\* and plugin directories are what the repository and plugin rows say (market.go).
AdminChangesApply ==
    /\ Of("settings", SettingsSound)
    /\ Of("catalogs", RepoCacheSound) /\ Of("plugin files", MarketSound)

(* Pictures, their rows and their files agree (cover_manager.go,              *)
(* image_repo.go).                                                            *)
CoversHold == Of("covers", CoversSound)

(* Identities, aliases and versions of a recording agree (scanner.go,         *)
(* merge.go, rest/metadata.go).                                               *)
TracksHold == Of("tracks", TracksSound)

\* No request takes a superadmin's role (admin.go, user.go), and no platform's
\* picture the place of one that is there (cover_manager.go).
NothingIsTakenAway == SuperAdminsStay /\ NetworkFillsGaps
===============================================================================
