----------------------------- MODULE SettingsCache ----------------------------
(* The cache through which the server reads its settings table on hot paths: *)
(* cachedSettings of internal/server/server.go.  A value is the number of the *)
(* save that wrote it, 0 the empty value.                                     *)
EXTENDS Integers

CONSTANTS
    CacheKeys,
    ReadThreads, \* goroutines that read through the cache
    NoEntry,
    TTL,         \* settingsCacheTTL
    QueryTime,   \* bound the code sets: the timeout of a refresh
    MaxWrites,   \* bound: saves
    MaxClock     \* bound

ASSUME CacheConstants == TTL \in Nat \ {0} /\ {QueryTime, MaxWrites, MaxClock} \subseteq Nat

VARIABLES
    setting,    \* table server_settings
    cached,     \* cachedSettings.vals
    refreshing, \* cachedSettings.refreshing
    reader,     \* the goroutines
    time,
    written,    \* history: saves made
    changed,    \* history: when a key was last written
    failed      \* history: keys whose last read failed, and not with what is in the table

cacheVars == <<setting, cached, refreshing, reader, time, written, changed, failed>>

Idling == [pc |-> "idle", keys |-> {}, stale |-> {}, since |-> 0]

CacheTypeOK ==
    /\ setting \in [CacheKeys -> 0..MaxWrites] /\ refreshing \subseteq CacheKeys
    /\ \A k \in CacheKeys : cached[k] = NoEntry \/ cached[k] \in [value : 0..MaxWrites, at : 0..MaxClock]
    /\ \A r \in ReadThreads : reader[r].pc \in {"idle", "lock", "query", "store"} /\ reader[r].keys \subseteq CacheKeys
    /\ time \in 0..MaxClock /\ written \in 0..MaxWrites

CacheInit ==
    /\ setting = [k \in CacheKeys |-> 0]
    /\ cached = [k \in CacheKeys |-> NoEntry] /\ refreshing = {}
    /\ reader = [r \in ReadThreads |-> Idling]
    /\ time = 0 /\ written = 0 /\ changed = [k \in CacheKeys |-> 0] /\ failed = {}

(* UpdateSourceSettings and UpdateNetworkSettings save in one transaction and *)
(* leave the cache alone.                                                     *)
SaveSettings(keys) ==
    /\ written < MaxWrites /\ written' = written + 1
    /\ setting' = [k \in CacheKeys |-> IF k \in keys THEN written + 1 ELSE setting[k]]
    /\ changed' = [k \in CacheKeys |-> IF k \in keys THEN time ELSE changed[k]]
    /\ UNCHANGED <<cached, refreshing, reader, time, failed>>

(* The cache: get, for one key, and getMany.                                  *)

FreshEntry(k) == cached[k] # NoEntry /\ time - cached[k].at < TTL
unchangedByReads == UNCHANGED <<setting, changed, failed, written, time>>

GetMany(r, keys) ==
    LET stale == {k \in keys : ~FreshEntry(k)} IN
    /\ reader[r].pc = "idle" /\ stale # {}
    /\ reader' = [reader EXCEPT ![r] = [Idling EXCEPT !.pc = "lock", !.stale = stale]]
    /\ UNCHANGED <<cached, refreshing>> /\ unchangedByReads

(* Mutant: whoever finds a key stale reads it. *)
AllStale(stale) == {k \in stale : ~FreshEntry(k)}

ToQuery(stale) == {k \in stale : ~FreshEntry(k) /\ k \notin refreshing}

(* The check is made again under the lock; a key that another goroutine       *)
(* refreshes is served as it is in the cache, empty when it is not there.     *)
TakeKeys(r) ==
    LET keys == ToQuery(reader[r].stale) IN
    /\ reader[r].pc = "lock"
    /\ refreshing' = refreshing \cup keys
    /\ reader' = [reader EXCEPT ![r] = IF keys = {} THEN Idling
                                       ELSE [Idling EXCEPT !.pc = "query", !.keys = keys, !.since = time]]
    /\ UNCHANGED cached /\ unchangedByReads

Query(r) ==
    /\ reader[r].pc = "query"
    /\ reader' = [reader EXCEPT ![r].pc = "store", ![r].stale = {<<k, setting[k]>> : k \in reader[r].keys}]
    /\ UNCHANGED <<cached, refreshing>> /\ unchangedByReads

Entry(v) == [value |-> v, at |-> time]

StoreKeys(r) ==
    LET q == reader[r] IN
    /\ q.pc = "store"
    /\ refreshing' = refreshing \ q.keys
    /\ cached' = [k \in CacheKeys |-> IF k \in q.keys THEN Entry((CHOOSE kv \in q.stale : kv[1] = k)[2]) ELSE cached[k]]
    /\ reader' = [reader EXCEPT ![r] = Idling]
    /\ failed' = failed \ q.keys
    /\ UNCHANGED <<setting, changed, written, time>>

(* A read that fails keeps the old value, or an empty one, for another TTL. *)
QueryFails(r) ==
    LET q == reader[r] IN
    /\ q.pc = "query"
    /\ refreshing' = refreshing \ q.keys
    /\ cached' = [k \in CacheKeys |-> IF k \in q.keys THEN Entry(IF cached[k] = NoEntry THEN 0 ELSE cached[k].value) ELSE cached[k]]
    /\ failed' = failed \cup {k \in q.keys : cached'[k].value # setting[k]}
    /\ reader' = [reader EXCEPT ![r] = Idling]
    /\ UNCHANGED <<setting, changed, written, time>>

(* Every refresh ends by its timeout. *)
PassTime ==
    /\ time < MaxClock /\ time' = time + 1
    /\ \A r \in ReadThreads : reader[r].pc \in {"query", "store"} => time < reader[r].since + QueryTime
    /\ UNCHANGED <<setting, changed, failed, written, cached, refreshing, reader>>

CacheNext ==
    \/ \E keys \in SUBSET CacheKeys \ {{}} : SaveSettings(keys)
    \/ \E r \in ReadThreads :
          \/ \E keys \in SUBSET CacheKeys : GetMany(r, keys)
          \/ TakeKeys(r) \/ Query(r) \/ StoreKeys(r) \/ QueryFails(r)
    \/ PassTime

CacheSpec == CacheInit /\ [][CacheNext]_cacheVars
-------------------------------------------------------------------------------

(* One goroutine at a time refreshes a key, and the mark of a refresh does    *)
(* not outlive it: a key that stayed marked would never be read again.        *)
RefreshIsShared ==
    /\ \A r, s \in ReadThreads : r # s => reader[r].keys \cap reader[s].keys = {}
    /\ refreshing = UNION {reader[r].keys : r \in ReadThreads}

(* A change is seen within the TTL and one query by whoever is served from a  *)
(* fresh entry, unless the read behind the entry failed ("Runtime admin       *)
(* changes apply within this window", server.go:709).                         *)
ChangesApplyInTime == \A k \in CacheKeys \ failed :
    FreshEntry(k) /\ time - changed[k] >= TTL + QueryTime => cached[k].value = setting[k]

(* Refreshes are shared and changes apply in time, as said above (server.go,  *)
(* cachedSettings).                                                           *)
CacheSound == CacheTypeOK /\ RefreshIsShared /\ ChangesApplyInTime
===============================================================================
