------------------------------- MODULE RepoCache -------------------------------
(* The plugin market's catalogs: internal/plugin/market.go.  A repository is a *)
(* URL under a name; all that declare one name share one cached body and one   *)
(* meta file, which tells the URL and the validators of the body.  The startup *)
(* sync, the scheduled one and requests run at once, and no lock orders them.  *)
(* The model has the rows of one name.                                         *)
EXTENDS Integers, FiniteSets

CONSTANTS
    Urls, Syncers,
    NoFile,        \* a file that does not exist, an answer not there yet
    ByDate,        \* TRUE: the servers send Last-Modified only, FALSE: an ETag
    SyncsAlone,    \* TRUE: a sync or a load runs by itself
    MaxPublished,  \* bound: new contents of the repositories
    MaxRepoEdits,  \* bound: additions and removals
    MaxStops       \* bound: restarts of the server

ASSUME RepoCacheAssumption ==
    /\ ByDate \in BOOLEAN /\ SyncsAlone \in BOOLEAN
    /\ {MaxPublished, MaxRepoEdits, MaxStops} \subseteq Nat
    /\ NoFile \notin [url : Urls, at : Nat]

VARIABLES
    upstream,   \* when the repo.json behind each URL was published
    repos,      \* table plugin_repos: the URLs that have the name
    body, meta, \* the two cache files
    syncer,     \* who syncs, loads a catalog or adds a repository
    repoEdits, stops,
    halved      \* history: a stop fell between the two files

repoVars == <<upstream, repos, body, meta, syncer, repoEdits, stops, halved>>

NoSync == [pc |-> "rest", url |-> NoFile, asked |-> NoFile, got |-> NoFile, loads |-> FALSE]
Copy(u, t) == [url |-> u, at |-> t]
Copies == {Copy(u, t) : u \in Urls, t \in 0 .. MaxPublished}
Published == CHOOSE t \in {upstream[u] : u \in Urls} : \A u \in Urls : upstream[u] <= t

RepoTypeOK ==
    /\ upstream \in [Urls -> 0 .. MaxPublished] /\ repos \subseteq Urls
    /\ {body, meta} \subseteq Copies \cup {NoFile}
    /\ \A w \in Syncers : syncer[w].pc # "rest" => syncer[w].url \in Urls /\ syncer[w].got \in Copies \cup {NoFile}

RepoInit ==
    /\ upstream = [u \in Urls |-> 0] /\ repos = {} /\ body = NoFile /\ meta = NoFile
    /\ syncer = [w \in Syncers |-> NoSync] /\ repoEdits = 0 /\ stops = 0 /\ halved = FALSE

Publish(u) ==
    /\ Published < MaxPublished /\ upstream' = [upstream EXCEPT ![u] = Published + 1]
    /\ UNCHANGED <<repos, body, meta, syncer, repoEdits, stops, halved>>

Moves(w, pc) == syncer' = [syncer EXCEPT ![w].pc = pc]
Rests(w) == syncer' = [syncer EXCEPT ![w] = NoSync]
FilesStay == UNCHANGED <<upstream, body, meta, repoEdits, stops, halved>>

(* AddRepo fetches the file, looks for its name among the rows, then inserts. *)
BeginAdd(w, u) ==
    /\ syncer[w].pc = "rest" /\ repoEdits < MaxRepoEdits /\ repos = {}
    /\ repoEdits' = repoEdits + 1
    /\ syncer' = [syncer EXCEPT ![w] = [NoSync EXCEPT !.pc = "add", !.url = u]]
    /\ UNCHANGED <<upstream, repos, body, meta, stops, halved>>

InsertRepo(w) ==
    /\ syncer[w].pc = "add" /\ repos' = repos \cup {syncer[w].url}
    /\ Rests(w) /\ FilesStay

(* RemoveRepo leaves the cache files. *)
DropRepo(u) ==
    /\ u \in repos /\ repoEdits < MaxRepoEdits
    /\ repoEdits' = repoEdits + 1 /\ repos' = repos \ {u}
    /\ UNCHANGED <<upstream, body, meta, syncer, stops, halved>>

MayBegin == SyncsAlone => \A w \in Syncers : syncer[w].pc \in {"rest", "add"}

(* Sync goes through the rows it read, loadRepoCatalog takes one by its name. *)
BeginSync(w, u) ==
    /\ syncer[w].pc = "rest" /\ u \in repos /\ MayBegin
    /\ syncer' = [syncer EXCEPT ![w] = [NoSync EXCEPT !.pc = "meta", !.url = u]]
    /\ UNCHANGED repos /\ FilesStay

BeginLoad(w, u) ==
    /\ syncer[w].pc = "rest" /\ u \in repos /\ MayBegin
    /\ syncer' = [syncer EXCEPT ![w] = [NoSync EXCEPT !.pc = "match", !.url = u, !.loads = TRUE]]
    /\ UNCHANGED repos /\ FilesStay

(* cacheMatchesURL: without a meta file there is nothing to compare with. *)
CacheMatchesURL(u) == meta = NoFile \/ meta.url = u

Match(w) ==
    /\ syncer[w].pc = "match" /\ Moves(w, IF CacheMatchesURL(syncer[w].url) THEN "cached" ELSE "meta")
    /\ UNCHANGED repos /\ FilesStay

ReadCached(w) ==
    /\ syncer[w].pc = "cached"
    /\ IF body = NoFile THEN Moves(w, "meta")
       ELSE syncer' = [syncer EXCEPT ![w].pc = "served", ![w].got = body]
    /\ UNCHANGED repos /\ FilesStay

(* syncRepo sends the validators of whatever meta file there is. *)
LoadMeta(w) ==
    /\ syncer[w].pc = "meta" /\ syncer' = [syncer EXCEPT ![w].pc = "ask", ![w].asked = meta]
    /\ UNCHANGED repos /\ FilesStay

(* The server's answer: unchanged since that date, or the same ETag. *)
NotModified(u, asked) ==
    asked # NoFile /\ IF ByDate THEN upstream[u] <= asked.at ELSE asked = Copy(u, upstream[u])

AskServer(w) ==
    /\ syncer[w].pc = "ask"
    /\ LET u == syncer[w].url IN
       syncer' = [syncer EXCEPT ![w].pc = IF NotModified(u, syncer[w].asked) THEN "same" ELSE "body",
                                ![w].got = Copy(u, upstream[u])]
    /\ UNCHANGED repos /\ FilesStay

SyncFails(w) ==
    /\ syncer[w].pc = "ask" \/ (syncer[w].pc = "same" /\ body = NoFile)
    /\ Rests(w) /\ UNCHANGED repos /\ FilesStay

(* A 304: the body must be there, the meta file is written again as it was read. *)
Renew(w) ==
    /\ syncer[w].pc = "same" /\ body # NoFile
    /\ meta' = syncer[w].asked /\ Moves(w, "current")
    /\ UNCHANGED <<upstream, repos, body, repoEdits, stops, halved>>

WriteCache(w) == IF syncer[w].pc = "body" THEN body' = syncer[w].got /\ meta' = meta
                 ELSE meta' = syncer[w].got /\ body' = body

Store(w) ==
    /\ syncer[w].pc \in {"body", "newmeta"} /\ WriteCache(w)
    /\ Moves(w, IF syncer[w].pc = "body" THEN "newmeta" ELSE "current")
    /\ UNCHANGED <<upstream, repos, repoEdits, stops, halved>>

(* A load reads the file that its sync has written. *)
SyncReturns(w) ==
    /\ syncer[w].pc = "current"
    /\ IF syncer[w].loads THEN syncer' = [syncer EXCEPT ![w].pc = "served", ![w].got = body] ELSE Rests(w)
    /\ UNCHANGED repos /\ FilesStay

CatalogUsed(w) == syncer[w].pc = "served" /\ Rests(w) /\ UNCHANGED repos /\ FilesStay

MarketStops ==
    /\ stops < MaxStops /\ stops' = stops + 1
    /\ halved' = (halved \/ \E w \in Syncers : syncer[w].pc = "newmeta")
    /\ syncer' = [w \in Syncers |-> NoSync]
    /\ UNCHANGED <<upstream, repos, body, meta, repoEdits>>

RepoNext ==
    \/ \E w \in Syncers : \/ InsertRepo(w) \/ Match(w) \/ ReadCached(w) \/ LoadMeta(w) \/ AskServer(w) \/ SyncFails(w)
                          \/ Renew(w) \/ Store(w) \/ SyncReturns(w) \/ CatalogUsed(w)
                          \/ \E u \in Urls : BeginAdd(w, u) \/ BeginSync(w, u) \/ BeginLoad(w, u)
    \/ \E u \in Urls : Publish(u) \/ DropRepo(u)
    \/ MarketStops

RepoSpec == RepoInit /\ [][RepoNext]_repoVars

\* A catalog that an install, an update or a check reads is the one of the
\* repository it was asked for, also when two additions of one name overlapped or
\* the name was added again with another URL.  A stop between the two files may
\* leave a body that no meta file names.
CatalogIsOfItsRepo ==
    \A w \in Syncers : syncer[w].pc = "served" /\ ~halved => syncer[w].got.url = syncer[w].url

\* When the server said "not modified" the cached body is the one it means: the
\* body is written before the meta file that vouches for it, so a stop between the
\* two leaves nothing that hides a publication of that repository.  Otherwise an
\* old catalog would stay until the next one.
NotModifiedMeansCurrent ==
    \A w \in Syncers : syncer[w].pc = "current" /\ (halved => body.url = syncer[w].url)
                         => body.at >= syncer[w].got.at

\* The parts that hold when syncs do not overlap and the servers send an ETag
\* (market.go, syncRepo).
RepoCacheSound == RepoTypeOK /\ CatalogIsOfItsRepo /\ NotModifiedMeansCurrent
===============================================================================
