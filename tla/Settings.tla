------------------------------- MODULE Settings -------------------------------
(* What administrators set and who goes by it: the settings handlers          *)
(* (internal/api/rest/admin.go) and their table, the log level, and the       *)
(* notification service with its sender, preferences and messages.  A value   *)
(* is the number of the save that wrote it, 0 the empty value.                *)
EXTENDS Integers, FiniteSets

CONSTANTS
    SetThreads,  \* requests of administrators, and notifications
    People,      \* users with an address
    Never,       \* no entry
    MaxSaves     \* bound: saves

ASSUME SettingsConstants == MaxSaves \in Nat /\ Never \notin Nat

VARIABLES
    row,        \* table server_settings
    level,      \* the logger's level
    sender,     \* the e-mail sender's configuration
    prefTable,  \* table notification_category_prefs
    prefs,      \* NotificationService.categoryPrefs
    off,        \* table user_notification_prefs: who does not want the messages
    sreq,       \* the requests of SetThreads
    saves,      \* history: saves made
    batches,    \* history: the e-mail configurations that were in the table
    crossed     \* history: what two requests changed at once, or could not be read again

setVars == <<row, level, sender, prefTable, prefs, off, sreq, saves, batches, crossed>>

Categories == [system |-> {"level"}, notification |-> {"enabled", "host"}]
SettingKeys == UNION {Categories[c] : c \in DOMAIN Categories}
Topics == {"scan", "system"}
Email(t) == [k \in Categories["notification"] |-> t[k]]
Values == 0..MaxSaves
SetPcs == {"idle", "level", "load", "install", "prefs", "putprefs", "overrides", "deliver"}
Calm == [pc |-> "idle", val |-> 0, got |-> {}, topics |-> {}, email |-> Never, prefs |-> Never, out |-> {}, knew |-> TRUE]

SettingsTypeOK ==
    /\ row \in [SettingKeys -> Values] /\ level \in Values /\ sender \in [Categories["notification"] -> Values]
    /\ prefTable \in [Topics -> Values] /\ prefs \in [Topics -> Values \cup {Never}]
    /\ off \subseteq People
    /\ \A r \in SetThreads : sreq[r].pc \in SetPcs /\ sreq[r].got \subseteq People
    /\ saves \in Values

SettingsInit ==
    /\ row = [k \in SettingKeys |-> 0] /\ level = 0 /\ sender = Email(row)
    /\ prefTable = [c \in Topics |-> 0] /\ prefs = prefTable /\ off \in SUBSET People
    /\ sreq = [r \in SetThreads |-> Calm]
    /\ saves = 0 /\ batches = {sender} /\ crossed = {}

Turn(r, q) == sreq' = [sreq EXCEPT ![r] = q]
Pcs(r) == {sreq[t].pc : t \in SetThreads \ {r}}
Cross(r, what, pcs) == crossed' = IF pcs \cap Pcs(r) # {} THEN crossed \cup {what} ELSE crossed
unchangedEffects == UNCHANGED <<level, sender, prefs>>

-------------------------------------------------------------------------------
(* Saving.  A body that is refused writes nothing; the others are one         *)
(* transaction (SettingsRepo.SetMany), after which the handler brings its     *)
(* effect about and answers with what it reads back.                          *)

Written(keys, v) == [k \in SettingKeys |-> IF k \in keys THEN v ELSE row[k]]

SetMany(keys, v) == row' = Written(keys, v)

Saving(r, keys) ==
    /\ sreq[r].pc = "idle" /\ saves < MaxSaves /\ saves' = saves + 1
    /\ SetMany(keys, saves + 1)
    /\ batches' = batches \cup {Email(Written(keys, saves + 1))}
    /\ UNCHANGED <<prefTable, off>> /\ unchangedEffects

UpdateSystemSettings(r) ==
    /\ Saving(r, {"level"})
    /\ Turn(r, [Calm EXCEPT !.pc = "level", !.val = saves + 1])
    /\ Cross(r, "level", {"level"})

(* UpdateNotificationSettings, and SetChannelEnabled for the e-mail channel *)
UpdateNotificationSettings(r, keys) ==
    /\ keys \subseteq Categories["notification"] /\ keys # {}
    /\ Saving(r, keys)
    /\ Turn(r, [Calm EXCEPT !.pc = "load"])
    /\ Cross(r, "sender", {"load", "install"})

SetLevel(r) ==
    /\ sreq[r].pc = "level"
    /\ level' = sreq[r].val
    /\ Turn(r, Calm)
    /\ UNCHANGED <<row, sender, prefTable, prefs, off, saves, batches, crossed>>

(* ReloadEmailConfig: one query; when it fails, the configuration file. *)
LoadEmailConfig(r, works) ==
    /\ sreq[r].pc = "load"
    /\ Turn(r, [sreq[r] EXCEPT !.pc = "install", !.email = IF works THEN Email(row) ELSE [k \in Categories["notification"] |-> 0]])
    /\ crossed' = IF works THEN crossed ELSE crossed \cup {"sender"}
    /\ UNCHANGED <<row, prefTable, off, saves, batches>> /\ unchangedEffects

InstallSender(r) ==
    /\ sreq[r].pc = "install"
    /\ sender' = sreq[r].email
    /\ Turn(r, [Calm EXCEPT !.pc = "prefs"])
    /\ Cross(r, "prefs", {"prefs", "putprefs"})
    /\ UNCHANGED <<row, level, prefTable, prefs, off, saves, batches>>

-------------------------------------------------------------------------------
(* Category preferences: saved in one transaction, then read back.            *)

UpdateCategoryPrefs(r, topics) ==
    /\ sreq[r].pc = "idle" /\ saves < MaxSaves /\ saves' = saves + 1 /\ topics # {}
    /\ prefTable' = [c \in Topics |-> IF c \in topics THEN saves + 1 ELSE prefTable[c]]
    /\ Turn(r, [Calm EXCEPT !.pc = "prefs", !.val = saves + 1, !.topics = topics])
    /\ Cross(r, "prefs", {"prefs", "putprefs"})
    /\ UNCHANGED <<row, off, batches>> /\ unchangedEffects

LoadCategoryPrefs(r) ==
    /\ sreq[r].pc = "prefs"
    /\ Turn(r, [sreq[r] EXCEPT !.pc = "putprefs", !.prefs = prefTable])
    /\ UNCHANGED <<row, prefTable, off, saves, batches, crossed>> /\ unchangedEffects

(* Mutant: the preferences are not read back. *)
LeavePrefs(r) ==
    /\ sreq[r].pc = "prefs"
    /\ Turn(r, Calm)
    /\ UNCHANGED <<row, prefTable, off, saves, batches, crossed>> /\ unchangedEffects

(* The read fails: what was saved replaces the whole map; a reload alone      *)
(* keeps the map.                                                             *)
KeepSavedPrefs(r) ==
    LET q == sreq[r] IN
    /\ q.pc = "prefs"
    /\ prefs' = IF q.topics = {} THEN prefs ELSE [c \in Topics |-> IF c \in q.topics THEN q.val ELSE Never]
    /\ Turn(r, Calm)
    /\ crossed' = IF q.topics = Topics \/ prefs = prefTable THEN crossed ELSE crossed \cup {"prefs"}
    /\ UNCHANGED <<row, level, sender, prefTable, off, saves, batches>>

PutCategoryPrefs(r) ==
    /\ sreq[r].pc = "putprefs"
    /\ prefs' = sreq[r].prefs
    /\ Turn(r, Calm)
    /\ UNCHANGED <<row, level, sender, prefTable, off, saves, batches, crossed>>

-------------------------------------------------------------------------------
(* Notify, for a category whose recipients are all users. *)

UpdateUserPref(p, wants) ==
    /\ off' = IF wants THEN off \ {p} ELSE off \cup {p}
    /\ off' # off
    /\ sreq' = [r \in SetThreads |-> [sreq[r] EXCEPT !.out = IF wants THEN @ \ {p} ELSE @]]
    /\ UNCHANGED <<row, prefTable, saves, batches, crossed>> /\ unchangedEffects

ResolveRecipients(r) ==
    /\ sreq[r].pc = "idle" /\ prefs["scan"] # Never
    /\ Turn(r, [Calm EXCEPT !.pc = "overrides", !.got = People, !.out = off])
    /\ UNCHANGED <<row, prefTable, off, saves, batches, crossed>> /\ unchangedEffects

Wanting(ps) == ps \ off

(* When the overrides cannot be read the message goes to all. *)
ApplyOverrides(r, works) ==
    LET q == sreq[r] IN
    /\ q.pc = "overrides"
    /\ Turn(r, [q EXCEPT !.pc = "deliver", !.got = IF works THEN Wanting(@) ELSE @, !.knew = works])
    /\ UNCHANGED <<row, prefTable, off, saves, batches, crossed>> /\ unchangedEffects

(* The sender is the one registered now; a disabled one is passed over. *)
Deliver(r) ==
    /\ sreq[r].pc = "deliver"
    /\ Turn(r, Calm)
    /\ UNCHANGED <<row, prefTable, off, saves, batches, crossed>> /\ unchangedEffects

SettingsNext ==
    \/ \E r \in SetThreads :
          \/ UpdateSystemSettings(r) \/ SetLevel(r) \/ InstallSender(r)
          \/ \E keys \in SUBSET SettingKeys : UpdateNotificationSettings(r, keys)
          \/ \E works \in BOOLEAN : LoadEmailConfig(r, works) \/ ApplyOverrides(r, works)
          \/ \E topics \in SUBSET Topics : UpdateCategoryPrefs(r, topics)
          \/ LoadCategoryPrefs(r) \/ KeepSavedPrefs(r) \/ PutCategoryPrefs(r)
          \/ ResolveRecipients(r) \/ Deliver(r)
    \/ \E p \in People, wants \in BOOLEAN : UpdateUserPref(p, wants)

SettingsSpec == SettingsInit /\ [][SettingsNext]_setVars
-------------------------------------------------------------------------------

(* Each batch is saved whole: the sender works with a configuration that was  *)
(* in the table, never half of one (settings_repo.go, SetMany).               *)
SenderIsOneBatch == sender \in batches \cup {[k \in Categories["notification"] |-> 0]}

(* Once a save is answered its effect is there: the level, the sender and the *)
(* preferences are those of the table, unless two requests overlapped or a    *)
(* read failed.                                                               *)
EffectsFollowTable ==
    LET busy == {sreq[r].pc : r \in SetThreads} IN
    /\ "level" \in busy \cup crossed \/ level = row["level"]
    /\ {"load", "install"} \cap busy # {} \/ "sender" \in crossed \/ sender = Email(row)
    /\ {"prefs", "putprefs"} \cap busy # {} \/ "prefs" \in crossed \/ prefs = prefTable

(* Who does not want the messages of a category when one is sent, and has not *)
(* asked for them since, is not among its recipients, provided his setting    *)
(* could be read (notification_service.go, Notify).                           *)
OptedOutGetNothing == \A r \in SetThreads : sreq[r].pc = "deliver" /\ sreq[r].knew => sreq[r].got \cap sreq[r].out = {}

(* Saved settings take effect as a whole, as said above (admin.go,            *)
(* notification_service.go).                                                  *)
SettingsSound == SettingsTypeOK /\ SenderIsOneBatch /\ EffectsFollowTable /\ OptedOutGetNothing
===============================================================================
