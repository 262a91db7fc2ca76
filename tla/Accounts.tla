------------------------------- MODULE Accounts -------------------------------
(* Users, their refresh tokens and the membership of libraries:               *)
(* internal/api/rest/auth.go, user.go, library.go, the role handler of        *)
(* admin.go, and the stores below them.  A request is a thread; every action  *)
(* is one statement of PostgreSQL or one command of Valkey.                   *)
EXTENDS Integers, FiniteSets

CONSTANTS
    Persons,
    Libraries,
    Tokens,
    AcctThreads,
    Nobody,
    MaxAcctRequests  \* bound: requests made

GlobalRoles == {"superadmin", "admin", "user"}
LibRoles == {"owner", "admin", "contributor", "viewer"}
Passwords == {"old", "new"}
Rows == [pw : Passwords, role : GlobalRoles]

ASSUME AccountConstants ==
    /\ Nobody \notin Persons \cup Libraries \cup Tokens \cup LibRoles \cup Rows
    /\ MaxAcctRequests \in Nat

VARIABLES
    users,     \* table users: the row of a person, or Nobody
    owner,     \* table libraries: owner_id, or Nobody
    members,   \* table library_members: the role in a library
    rt,        \* Valkey rt:<token>: whose it is
    userRt,    \* Valkey user_rt:<user>: the tokens of a user
    areq,      \* the requests
    acctAsked, \* history: requests made
    acked,     \* history: the row as the answered requests asked for it
    mixed,     \* history: users whose row two requests wrote at once
    bare,      \* history: libraries whose owner could not be made a member
    slipped,   \* history: tokens stored while all tokens of their user were being revoked
    ended      \* history: tokens that a logout had to end

acctVars == <<users, owner, members, rt, userRt, areq, acctAsked, acked, mixed, bare, slipped, ended>>

AcctPcs == {"idle", "count", "insert", "store", "index", "revoke", "unindex", "find",
            "smembers", "delkeys", "delset", "write", "member"}
Free0 == [pc |-> "idle", who |-> Nobody, row |-> Nobody, asked |-> "nothing", tok |-> Nobody, toks |-> {}, owed |-> {}, lib |-> Nobody]

AccountsTypeOK ==
    /\ users \in [Persons -> Rows \cup {Nobody}]
    /\ owner \in [Libraries -> Persons \cup {Nobody}]
    /\ \A l \in Libraries, u \in Persons :
          members[l][u] \in LibRoles \cup {Nobody} /\ (owner[l] = Nobody => members[l][u] = Nobody)
    /\ rt \in [Tokens -> Persons \cup {Nobody}] /\ userRt \in [Persons -> SUBSET Tokens]
    /\ \A r \in AcctThreads : areq[r].pc \in AcctPcs /\ areq[r].toks \subseteq Tokens
    /\ acctAsked \in 0..MaxAcctRequests

AccountsInit ==
    /\ users \in {[u \in Persons |-> Nobody],
                  [u \in Persons |-> [pw |-> "old", role |-> IF u = CHOOSE p \in Persons : TRUE THEN "superadmin" ELSE "user"]]}
    /\ owner = [l \in Libraries |-> Nobody] /\ members = [l \in Libraries |-> [u \in Persons |-> Nobody]]
    /\ rt = [k \in Tokens |-> Nobody] /\ userRt = [u \in Persons |-> {}]
    /\ areq = [r \in AcctThreads |-> Free0]
    /\ acctAsked = 0 /\ acked = users /\ mixed = {} /\ bare = {} /\ slipped = {} /\ ended = {}

Now(r, q) == areq' = [areq EXCEPT ![r] = q]
At0(r, pc) == areq[r].pc = pc
Leaves(r) == Now(r, Free0)
Ask(r, q) ==
    /\ At0(r, "idle") /\ acctAsked < MaxAcctRequests /\ acctAsked' = acctAsked + 1
    /\ Now(r, q)
unchangedTables == UNCHANGED <<users, owner, members>>
unchangedTokens == UNCHANGED <<rt, userRt, slipped, ended>>
unchangedHistory == UNCHANGED <<acked, mixed, bare>>

-------------------------------------------------------------------------------
(* Register: the account does not exist, then the users are counted, then the *)
(* row is inserted; each is a statement of its own.                           *)

AskRegister(r, u) ==
    /\ users[u] = Nobody
    /\ Ask(r, [Free0 EXCEPT !.pc = "count", !.who = u])
    /\ unchangedTables /\ unchangedTokens /\ unchangedHistory

FirstRole == IF \A u \in Persons : users[u] = Nobody THEN "superadmin" ELSE "user"

CountUsers(r) ==
    /\ At0(r, "count")
    /\ Now(r, [areq[r] EXCEPT !.pc = "insert", !.row = [pw |-> "old", role |-> FirstRole]])
    /\ UNCHANGED acctAsked /\ unchangedTables /\ unchangedTokens /\ unchangedHistory

(* username and email are unique: the second insert fails. *)
InsertUser(r) ==
    LET q == areq[r] IN
    /\ At0(r, "insert")
    /\ IF users[q.who] # Nobody
       THEN Leaves(r) /\ UNCHANGED <<users, acked>>
       ELSE /\ users' = [users EXCEPT ![q.who] = q.row] /\ acked' = [acked EXCEPT ![q.who] = q.row]
            /\ Now(r, [q EXCEPT !.pc = "store"])
    /\ UNCHANGED <<acctAsked, owner, members, mixed, bare>> /\ unchangedTokens

-------------------------------------------------------------------------------
(* Tokens.  writeAuthResponse stores a new one for Register, Login, Refresh.  *)

AskLogin(r, u) ==
    /\ users[u] # Nobody
    /\ Ask(r, [Free0 EXCEPT !.pc = "store", !.who = u])
    /\ unchangedTables /\ unchangedTokens /\ unchangedHistory

Revoking(u) == \E r \in AcctThreads : areq[r].who = u /\ areq[r].pc \in {"smembers", "delkeys", "delset"}

StoreToken(r) ==
    LET q == areq[r] IN
    /\ At0(r, "store")
    /\ \E k \in Tokens :
          /\ rt[k] = Nobody /\ k \notin ended \cup slipped
          /\ \A t \in AcctThreads : k \notin areq[t].toks \cup areq[t].owed /\ areq[t].tok # k
          /\ \A u \in Persons : k \notin userRt[u]
          /\ rt' = [rt EXCEPT ![k] = q.who]
          /\ slipped' = IF Revoking(q.who) THEN slipped \cup {k} ELSE slipped
          /\ Now(r, [q EXCEPT !.pc = "index", !.tok = k])
    /\ UNCHANGED <<acctAsked, userRt, ended>> /\ unchangedTables /\ unchangedHistory

IndexToken(r) ==
    LET q == areq[r] IN
    /\ At0(r, "index")
    /\ userRt' = [userRt EXCEPT ![q.who] = @ \cup {q.tok}]
    /\ slipped' = IF Revoking(q.who) THEN slipped \cup {q.tok} ELSE slipped
    /\ Leaves(r)
    /\ UNCHANGED <<acctAsked, rt, ended>> /\ unchangedTables /\ unchangedHistory

AskRefresh(r, k) ==
    /\ rt[k] # Nobody
    /\ Ask(r, [Free0 EXCEPT !.pc = "revoke", !.who = rt[k], !.tok = k])
    /\ unchangedTables /\ unchangedTokens /\ unchangedHistory

RevokeToken(r) ==
    LET q == areq[r] IN
    /\ At0(r, "revoke")
    /\ rt' = [rt EXCEPT ![q.tok] = Nobody]
    /\ Now(r, [q EXCEPT !.pc = IF rt[q.tok] # Nobody THEN "unindex" ELSE "find"])
    /\ UNCHANGED <<acctAsked, userRt, slipped, ended>> /\ unchangedTables /\ unchangedHistory

UnindexToken(r) ==
    LET q == areq[r] IN
    /\ At0(r, "unindex")
    /\ userRt' = [userRt EXCEPT ![q.who] = @ \ {q.tok}]
    /\ Now(r, [q EXCEPT !.pc = "find"])
    /\ UNCHANGED <<acctAsked, rt, slipped, ended>> /\ unchangedTables /\ unchangedHistory

FindUser(r) ==
    /\ At0(r, "find")
    /\ Now(r, [areq[r] EXCEPT !.pc = IF users[areq[r].who] = Nobody THEN "idle" ELSE "store", !.tok = Nobody])
    /\ UNCHANGED acctAsked /\ unchangedTables /\ unchangedTokens /\ unchangedHistory

(* Logout, and MeRenew for a session that another client began: RevokeAll is  *)
(* three commands.                                                            *)
AskLogout(r, u) ==
    /\ users[u] # Nobody
    /\ Ask(r, [Free0 EXCEPT !.pc = "smembers", !.who = u,
               !.owed = {k \in Tokens : rt[k] = u /\ k \notin slipped
                                        /\ \A t \in AcctThreads : areq[t].tok # k}])
    /\ slipped' = slipped \cup {areq[t].tok : t \in {t \in AcctThreads : areq[t].who = u /\ areq[t].pc = "index"}}
    /\ unchangedTables /\ UNCHANGED <<rt, userRt, ended>> /\ unchangedHistory

SMembers(r) ==
    LET q == areq[r] IN
    /\ At0(r, "smembers")
    /\ Now(r, [q EXCEPT !.toks = userRt[q.who], !.pc = IF userRt[q.who] = {} THEN "delset" ELSE "delkeys"])
    /\ UNCHANGED acctAsked /\ unchangedTables /\ unchangedTokens /\ unchangedHistory

DelKeys(r) ==
    LET q == areq[r] IN
    /\ At0(r, "delkeys")
    /\ rt' = [k \in Tokens |-> IF k \in q.toks THEN Nobody ELSE rt[k]]
    /\ Now(r, [q EXCEPT !.pc = "delset"])
    /\ UNCHANGED <<acctAsked, userRt, slipped, ended>> /\ unchangedTables /\ unchangedHistory

DelSet(r) ==
    LET q == areq[r] IN
    /\ At0(r, "delset")
    /\ userRt' = [userRt EXCEPT ![q.who] = {}]
    /\ ended' = ended \cup q.owed
    /\ Leaves(r)
    /\ UNCHANGED <<acctAsked, rt, slipped>> /\ unchangedTables /\ unchangedHistory

-------------------------------------------------------------------------------
(* ChangePassword and UpdateUserRole read the row and write all of it back.   *)

Writing(u) == \E r \in AcctThreads : areq[r].who = u /\ At0(r, "write")
Reads(r, u, value, field) ==
    /\ Ask(r, [Free0 EXCEPT !.pc = "write", !.who = u, !.row = value, !.asked = field])
    /\ mixed' = IF Writing(u) THEN mixed \cup {u} ELSE mixed
    /\ UNCHANGED <<acked, bare>> /\ unchangedTables /\ unchangedTokens

ChangePassword(r, u, new) ==
    /\ users[u] # Nobody
    /\ Reads(r, u, [users[u] EXCEPT !.pw = new], "pw")

MayChange(actor, target) ==
    /\ target.role # "superadmin"
    /\ ~(actor.role = "admin" /\ target.role = "admin")

UpdateUserRole(r, actor, target, new) ==
    /\ users[actor] # Nobody /\ users[target] # Nobody /\ users[actor].role \in {"superadmin", "admin"}
    /\ new \in {"admin", "user"}
    /\ MayChange(users[actor], users[target])
    /\ Reads(r, target, [users[target] EXCEPT !.role = new], "role")

(* Mutant: the row is put back with the password it was created with. *)
FreshRow(row) == [row EXCEPT !.pw = "old"]

WholeRow(row) == row

WriteUser(r) ==
    LET q == areq[r] IN
    /\ At0(r, "write")
    /\ users' = [users EXCEPT ![q.who] = WholeRow(q.row)]
    /\ acked' = IF q.asked = "pw" THEN [acked EXCEPT ![q.who].pw = q.row.pw]
                ELSE [acked EXCEPT ![q.who].role = q.row.role]
    /\ Leaves(r)
    /\ UNCHANGED <<acctAsked, owner, members, mixed, bare>> /\ unchangedTokens

-------------------------------------------------------------------------------
(* Libraries and their members. *)

CreateLibrary(r, l, u) ==
    /\ users[u] # Nobody /\ owner[l] = Nobody /\ \A t \in AcctThreads : areq[t].lib # l
    /\ Ask(r, [Free0 EXCEPT !.pc = "member", !.who = u, !.lib = l])
    /\ owner' = [owner EXCEPT ![l] = u]
    /\ UNCHANGED <<users, members>> /\ unchangedTokens /\ unchangedHistory

(* The error of the second insert is dropped. *)
OwnerJoins(r, works) ==
    LET q == areq[r] IN
    /\ At0(r, "member")
    /\ IF works /\ owner[q.lib] = q.who /\ members[q.lib][q.who] = Nobody
       THEN members' = [members EXCEPT ![q.lib][q.who] = "owner"] /\ UNCHANGED bare
       ELSE bare' = bare \cup {q.lib} /\ UNCHANGED members
    /\ Leaves(r)
    /\ UNCHANGED <<acctAsked, users, owner, acked, mixed>> /\ unchangedTokens

IsOwner(l, u) == owner[l] = u
HasRole(l, u, roles) == IsOwner(l, u) \/ members[l][u] \in roles
IsMember(l, u) == HasRole(l, u, LibRoles)

Manages(l, u) ==
    /\ users[u] # Nobody /\ IsOwner(l, u)
    /\ UNCHANGED <<areq, acctAsked, users, owner>> /\ unchangedTokens /\ unchangedHistory

(* The key of library_members refuses a second row, the references a user or *)
(* a library that does not exist.                                            *)
AddMember(l, by, u, role) ==
    /\ Manages(l, by) /\ users[u] # Nobody /\ members[l][u] = Nobody
    /\ ~ \E r \in AcctThreads : areq[r].lib = l \* the id is answered to no one yet
    /\ members' = [members EXCEPT ![l][u] = role]

IsTarget(l, u) == u # owner[l]

RemoveMember(l, by, u) ==
    /\ Manages(l, by) /\ IsTarget(l, u)
    /\ members' = [members EXCEPT ![l][u] = Nobody]

UpdateMemberRole(l, by, u, role) ==
    /\ Manages(l, by) /\ IsTarget(l, u) /\ members[l][u] # Nobody
    /\ members' = [members EXCEPT ![l][u] = role]

(* Delete (module ScanService has the steps): the members go with the row. *)
LibraryGone(l) ==
    /\ owner[l] # Nobody
    /\ owner' = [owner EXCEPT ![l] = Nobody]
    /\ members' = [members EXCEPT ![l] = [u \in Persons |-> Nobody]]
    /\ bare' = bare \ {l}
    /\ UNCHANGED <<users, areq, acctAsked, acked, mixed>> /\ unchangedTokens

(* List joins the members, Get asks the permission checker. *)
FindByUserID(u) == {l \in Libraries : owner[l] # Nobody /\ members[l][u] # Nobody}
Gettable(u) == {l \in Libraries : owner[l] # Nobody /\ IsMember(l, u)}
-------------------------------------------------------------------------------

AcctStep(r) ==
    \/ \E u \in Persons : AskRegister(r, u) \/ AskLogin(r, u) \/ AskLogout(r, u)
    \/ \E k \in Tokens : AskRefresh(r, k)
    \/ CountUsers(r) \/ InsertUser(r) \/ StoreToken(r) \/ IndexToken(r)
    \/ RevokeToken(r) \/ UnindexToken(r) \/ FindUser(r)
    \/ SMembers(r) \/ DelKeys(r) \/ DelSet(r) \/ WriteUser(r)
    \/ \E u \in Persons : ChangePassword(r, u, "new")
    \/ \E u, v \in Persons, role \in GlobalRoles : UpdateUserRole(r, u, v, role)
    \/ \E l \in Libraries, u \in Persons : CreateLibrary(r, l, u)
    \/ \E works \in BOOLEAN : OwnerJoins(r, works)

AccountsNext ==
    \/ \E r \in AcctThreads : AcctStep(r)
    \/ \E l \in Libraries, u, v \in Persons :
          \/ RemoveMember(l, u, v)
          \/ \E role \in LibRoles \ {"owner"} : AddMember(l, u, v, role) \/ UpdateMemberRole(l, u, v, role)
    \/ \E l \in Libraries : LibraryGone(l)

AccountsSpec == AccountsInit /\ [][AccountsNext]_acctVars
-------------------------------------------------------------------------------

(* Whoever registers first can administer, so once there are users one of     *)
(* them is a superadmin, whatever registrations overlap (auth.go, Register).  *)
SomeoneAdministers == (\E u \in Persons : users[u] # Nobody) => \E u \in Persons : users[u] # Nobody /\ users[u].role = "superadmin"

(* No request takes a superadmin's role away, not even one that read the row  *)
(* before it was written by another (admin.go, UpdateUserRole; user.go,       *)
(* ChangePassword).                                                           *)
SuperAdminsStay == [][\A u \in Persons : users[u] # Nobody /\ users[u].role = "superadmin"
                                            => users'[u].role = "superadmin"]_acctVars

(* A changed password and a changed role stay changed: each request writes    *)
(* the whole row, and only two that overlap undo each other.                  *)
UserRowsAreCurrent == \A u \in Persons \ mixed : users[u] = acked[u]

(* A logout ends every token issued to the user before it began: each is in   *)
(* the user's set, unless it was stored while another logout was emptying it. *)
LogoutEndsEarlier == \A k \in ended : rt[k] = Nobody

(* An owner finds the library in his list: his member row cannot be removed   *)
(* or changed; only a failed insert, whose error Create drops, leaves him     *)
(* without, and then Get still serves what List does not show.                *)
OwnersSeeTheirs ==
    /\ \A u \in Persons : FindByUserID(u) \subseteq Gettable(u)
    /\ \A l \in Libraries : owner[l] # Nobody /\ l \notin bare /\ (\A r \in AcctThreads : areq[r].lib # l)
                               => l \in FindByUserID(owner[l]) /\ members[l][owner[l]] = "owner"

(* Roles, passwords, tokens and memberships are those of the last request     *)
(* that was answered, as said above (auth.go, user.go, admin.go, library.go). *)
AccountsSound ==
    /\ AccountsTypeOK
    /\ SomeoneAdministers /\ UserRowsAreCurrent /\ LogoutEndsEarlier /\ OwnersSeeTheirs
===============================================================================
