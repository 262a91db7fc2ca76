------------------------------ MODULE TablesProofs ------------------------------
(***************************************************************************)
(* Proofs about the tables around the library: Accounts, for any users,    *)
(* libraries, tokens and overlapping requests; SettingsCache, for any      *)
(* keys, readers, TTL and timeout; Settings, for any threads, keys and     *)
(* people; Covers, for any tracks, pictures, requests, failures and losses *)
(* of files.                                                               *)
(***************************************************************************)
EXTENDS Accounts, SettingsCache, Settings, Covers, TLAPS

-----------------------------------------------------------------------------
(* Accounts.                                                               *)
Records == [pc : AcctPcs, who : Persons \cup {Nobody}, row : Rows \cup {Nobody}, asked : {"nothing", "pw", "role"},
            tok : Tokens \cup {Nobody}, toks : SUBSET Tokens, owed : SUBSET Tokens, lib : Libraries \cup {Nobody}]

(* A request carries what its next step needs.                             *)
Carries(q) ==
    /\ q.pc # "idle" => q.who \in Persons
    /\ q.pc \in {"insert", "write"} => q.row \in Rows
    /\ q.pc \in {"index", "revoke", "unindex"} => q.tok \in Tokens
    /\ q.pc = "member" => q.lib \in Libraries
    /\ q.pc # "member" => q.lib = Nobody
    /\ q.pc = "write" => q.asked \in {"pw", "role"}

RequestTypes == areq \in [AcctThreads -> Records] /\ \A r \in AcctThreads : Carries(areq[r])
AccountTypes ==
    /\ users \in [Persons -> Rows \cup {Nobody}] /\ acked \in [Persons -> Rows \cup {Nobody}]
    /\ \A u \in Persons : users[u] # Nobody => acked[u] # Nobody
    /\ owner \in [Libraries -> Persons \cup {Nobody}]
    /\ members \in [Libraries -> [Persons -> LibRoles \cup {Nobody}]]
    /\ \A l \in Libraries, u \in Persons : owner[l] = Nobody => members[l][u] = Nobody
    /\ acctAsked \in 0..MaxAcctRequests
TokenTypes == rt \in [Tokens -> Persons \cup {Nobody}] /\ userRt \in [Persons -> SUBSET Tokens] /\ ended \subseteq Tokens
Types == RequestTypes /\ AccountTypes /\ TokenTypes

(* Who counted the users and found some, or found a role, still does.      *)
HasSuperadmin == \E u \in Persons : users[u] # Nobody /\ users[u].role = "superadmin"
InsertsRightly == \A r \in AcctThreads :
    areq[r].pc = "insert" => areq[r].row.role = "superadmin" \/ \E u \in Persons : users[u] # Nobody
WritesRightly == \A r \in AcctThreads : areq[r].pc = "write" =>
    /\ users[areq[r].who] # Nobody
    /\ areq[r].row.role = "superadmin" <=> users[areq[r].who].role = "superadmin"
RoleInv == SomeoneAdministers /\ InsertsRightly /\ WritesRightly

(* The copy in hand is current but for what is asked, unless rows mix.     *)
CopiesAreCurrent == \A r \in AcctThreads : areq[r].pc = "write" /\ areq[r].who \notin mixed =>
    /\ areq[r].asked = "pw" => areq[r].row.role = users[areq[r].who].role
    /\ areq[r].asked = "role" => areq[r].row.pw = users[areq[r].who].pw
OneWriter == \A r, s \in AcctThreads :
    areq[r].pc = "write" /\ areq[s].pc = "write" /\ areq[r].who = areq[s].who /\ areq[r].who \notin mixed => r = s
UserRowInv == UserRowsAreCurrent /\ CopiesAreCurrent /\ OneWriter

(* A token is in its user's index, about to be put there, or slipped; an   *)
(* index that is about to be emptied holds no other live token.            *)
Indexing(k) == \E s \in AcctThreads : areq[s].pc = "index" /\ areq[s].tok = k
IndexedBy(k, u) == \E s \in AcctThreads : areq[s].pc = "index" /\ areq[s].tok = k /\ areq[s].who = u
TokensAreIndexed == \A k \in Tokens, u \in Persons :
    rt[k] = u => k \in slipped \/ k \in userRt[u] \/ IndexedBy(k, u)
RevokedIsGone == \A r \in AcctThreads : areq[r].pc = "unindex" => rt[areq[r].tok] = Nobody
NoneIsMissed == \A r \in AcctThreads, k \in Tokens : rt[k] = areq[r].who =>
    /\ areq[r].pc = "delkeys" => k \in slipped \/ Indexing(k) \/ k \in areq[r].toks
    /\ areq[r].pc = "delset" => k \in slipped \/ Indexing(k)
OwedAreCovered == \A r \in AcctThreads : \A k \in areq[r].owed :
    rt[k] = Nobody \/ (rt[k] = areq[r].who /\ k \notin slipped /\ ~Indexing(k))
IndexesItsOwn == \A r \in AcctThreads : areq[r].pc = "index" => rt[areq[r].tok] \in {areq[r].who, Nobody}
TokenInv == TokensAreIndexed /\ IndexesItsOwn /\ RevokedIsGone /\ NoneIsMissed /\ OwedAreCovered
            /\ LogoutEndsEarlier

OwnersJoined == \A l \in Libraries :
    owner[l] # Nobody /\ l \notin bare /\ (\A r \in AcctThreads : areq[r].lib # l) => members[l][owner[l]] = "owner"

AccountsInv == Types /\ RoleInv /\ UserRowInv /\ TokenInv /\ OwnersJoined

LEMMA InvImpliesSound == AccountsInv => AccountsSound
<1> SUFFICES ASSUME AccountsInv PROVE AccountsSound OBVIOUS
<1> USE DEF AccountsInv
<1>1. AccountsTypeOK BY DEF Types, RequestTypes, AccountTypes, TokenTypes, Records, AccountsTypeOK
<1>2. \A u \in Persons : FindByUserID(u) \subseteq Gettable(u)
  BY DEF FindByUserID, Gettable, IsMember, HasRole, IsOwner, Types, AccountTypes
<1>3. ASSUME NEW l \in Libraries, owner[l] # Nobody, l \notin bare, \A r \in AcctThreads : areq[r].lib # l
      PROVE  l \in FindByUserID(owner[l]) /\ members[l][owner[l]] = "owner"
  <2>1. members[l][owner[l]] = "owner" BY <1>3 DEF OwnersJoined
  <2>2. "owner" # Nobody BY AccountConstants DEF LibRoles
  <2> QED BY <1>3, <2>1, <2>2 DEF FindByUserID
<1>4. OwnersSeeTheirs BY <1>2, <1>3 DEF OwnersSeeTheirs
<1> QED BY <1>1, <1>4 DEF AccountsSound, RoleInv, UserRowInv, TokenInv

LEMMA FreeTyped == Free0 \in Records /\ Free0.pc = "idle" /\ Free0.owed = {} /\ Free0.lib = Nobody /\ Free0.tok = Nobody
BY DEF Free0, Records, AcctPcs

LEMMA InitAccounts == AccountsInit => AccountsInv
<1> SUFFICES ASSUME AccountsInit PROVE AccountsInv OBVIOUS
<1> USE DEF AccountsInit
<1>1. \A r \in AcctThreads : areq[r] = Free0 OBVIOUS
<1>2. RequestTypes BY FreeTyped DEF RequestTypes, Carries
<1>3. users \in [Persons -> Rows \cup {Nobody}] /\ acked = users /\ SomeoneAdministers
  <2>1. CASE users = [u \in Persons |-> Nobody] BY <2>1 DEF SomeoneAdministers
  <2>2. CASE users = [u \in Persons |-> [pw |-> "old", role |-> IF u = CHOOSE p \in Persons : TRUE THEN "superadmin" ELSE "user"]]
    <3>1. \A u \in Persons : users[u] \in Rows BY <2>2 DEF Rows, Passwords, GlobalRoles
    <3>2. ASSUME NEW u \in Persons PROVE HasSuperadmin
      <4>1. (CHOOSE p \in Persons : TRUE) \in Persons OBVIOUS
      <4>2. users[CHOOSE p \in Persons : TRUE].role = "superadmin" BY <2>2, <4>1
      <4> QED BY <3>1, <4>1, <4>2, AccountConstants DEF HasSuperadmin
    <3> QED BY <2>2, <3>1, <3>2 DEF SomeoneAdministers, HasSuperadmin
  <2> QED BY <2>1, <2>2
<1>4. AccountTypes /\ TokenTypes BY <1>3, AccountConstants DEF AccountTypes, TokenTypes
<1>5. RoleInv /\ UserRowInv
  BY <1>1, <1>3, FreeTyped DEF RoleInv, InsertsRightly, WritesRightly, UserRowInv, UserRowsAreCurrent, CopiesAreCurrent, OneWriter
<1>6. \A k \in Tokens, u \in Persons : rt[k] # u BY AccountConstants
<1>7. TokenInv
  BY <1>1, <1>6, FreeTyped DEF TokenInv, TokensAreIndexed, IndexesItsOwn, RevokedIsGone, NoneIsMissed, OwedAreCovered, LogoutEndsEarlier
<1>8. OwnersJoined BY DEF OwnersJoined
<1> QED BY <1>2, <1>4, <1>5, <1>7, <1>8 DEF AccountsInv, Types

(* What a step of one request does to the requests.                        *)
RequestIs(r, q) == areq'[r] = q /\ \A s \in AcctThreads \ {r} : areq'[s] = areq[s]

LEMMA NowTyped ==
  ASSUME RequestTypes, NEW r \in AcctThreads, NEW q \in Records, Carries(q), Now(r, q)
  PROVE  RequestTypes' /\ RequestIs(r, q)
<1>1. areq' = [areq EXCEPT ![r] = q] BY DEF Now
<1>2. RequestIs(r, q) BY <1>1 DEF RequestTypes, RequestIs
<1>3. areq' \in [AcctThreads -> Records] BY <1>1 DEF RequestTypes
<1>4. \A s \in AcctThreads : Carries(areq'[s]) BY <1>2 DEF RequestTypes, RequestIs
<1>5. \A s \in AcctThreads : Carries(areq[s])' BY <1>4 DEF Carries
<1> QED BY <1>2, <1>3, <1>5 DEF RequestTypes

(* Roles and rows hold on where no row is in hand that was not before,     *)
(* memberships where no request drops its library, tokens where a step     *)
(* neither indexes nor revokes.                                            *)
LEMMA RolesKept ==
  ASSUME RoleInv, UserRowInv, UNCHANGED <<users, acked, mixed>>,
         \A s \in AcctThreads : areq'[s] = areq[s] \/ areq'[s].pc \notin {"insert", "write"}
  PROVE  RoleInv' /\ UserRowInv'
<1> USE DEF RoleInv, UserRowInv
<1>1. SomeoneAdministers' /\ UserRowsAreCurrent' BY DEF SomeoneAdministers, UserRowsAreCurrent
<1>2. InsertsRightly' BY DEF InsertsRightly
<1>3. WritesRightly' BY DEF WritesRightly
<1>4. CopiesAreCurrent' BY DEF CopiesAreCurrent
<1>5. OneWriter' BY DEF OneWriter
<1> QED BY <1>1, <1>2, <1>3, <1>4, <1>5

LEMMA OwnersKept ==
  ASSUME OwnersJoined, UNCHANGED <<owner, members, bare>>, \A s \in AcctThreads : areq'[s].lib = areq[s].lib
  PROVE  OwnersJoined'
BY DEF OwnersJoined

TokenSteps == {"index", "unindex", "delkeys", "delset"}

LEMMA TokensKept ==
  ASSUME TokenInv, UNCHANGED <<rt, userRt, slipped, ended>>,
         \A s \in AcctThreads : \/ areq'[s] = areq[s]
                                \/ /\ areq[s].pc # "index" /\ areq'[s].pc \notin TokenSteps
                                   /\ \/ areq'[s].owed = {}
                                      \/ areq'[s].owed = areq[s].owed /\ areq'[s].who = areq[s].who
  PROVE  TokenInv'
<1> USE DEF TokenInv, TokenSteps
<1>1. \A k : Indexing(k)' <=> Indexing(k) BY DEF Indexing
<1>2. \A k, u : IndexedBy(k, u)' <=> IndexedBy(k, u) BY DEF IndexedBy
<1>3. TokensAreIndexed' BY <1>2 DEF TokensAreIndexed
<1>4. RevokedIsGone' BY DEF RevokedIsGone
<1>5. NoneIsMissed' BY <1>1 DEF NoneIsMissed
<1>6. OwedAreCovered' BY <1>1 DEF OwedAreCovered
<1>7. LogoutEndsEarlier' BY DEF LogoutEndsEarlier
<1>8. IndexesItsOwn' BY DEF IndexesItsOwn
<1> QED BY <1>3, <1>4, <1>5, <1>6, <1>7, <1>8

(* A step on tokens, or on no table, has only the tokens to answer for.    *)
LEMMA TokensSuffice ==
  ASSUME AccountsInv, NEW r \in AcctThreads, NEW q \in Records, Carries(q), Now(r, q),
         unchangedTables, unchangedHistory, acctAsked' \in 0..MaxAcctRequests,
         q.pc \notin {"insert", "write"}, q.lib = areq[r].lib, TokenTypes', TokenInv'
  PROVE  AccountsInv'
<1> USE DEF AccountsInv, Types, unchangedTables, unchangedHistory
<1>1. RequestTypes' /\ RequestIs(r, q) BY NowTyped
<1>2. AccountTypes' BY DEF AccountTypes
<1>3. RoleInv' /\ UserRowInv' BY <1>1, RolesKept DEF RequestIs
<1>4. OwnersJoined' BY <1>1, OwnersKept DEF RequestIs
<1> QED BY <1>1, <1>2, <1>3, <1>4

LEMMA HarmlessKeepsInv ==
  ASSUME AccountsInv, NEW r \in AcctThreads, NEW q \in Records, Carries(q), Now(r, q),
         unchangedTables, unchangedHistory, unchangedTokens, acctAsked' \in 0..MaxAcctRequests,
         q.pc \notin {"insert", "write"} \cup TokenSteps, q.lib = areq[r].lib, areq[r].pc # "index",
         q.owed = {} \/ (q.owed = areq[r].owed /\ q.who = areq[r].who)
  PROVE  AccountsInv'
<1>1. RequestTypes' /\ RequestIs(r, q) BY NowTyped DEF AccountsInv, Types
<1>2. TokenTypes' BY DEF AccountsInv, Types, TokenTypes, unchangedTokens
<1>3. TokenInv' BY <1>1, TokensKept DEF AccountsInv, unchangedTokens, RequestIs
<1> QED BY <1>2, <1>3, TokensSuffice

(* A request that begins.                                                  *)
LEMMA AskedTyped ==
  ASSUME AccountsInv, NEW r \in AcctThreads, NEW q, Ask(r, q)
  PROVE  /\ Now(r, q) /\ acctAsked' \in 0..MaxAcctRequests
         /\ areq[r].pc = "idle" /\ areq[r].lib = Nobody
BY AccountConstants DEF AccountsInv, Types, RequestTypes, Carries, AccountTypes, Ask, At0

LEMMA AskKeepsInv ==
  ASSUME AccountsInv, NEW r \in AcctThreads, NEW q \in Records, Carries(q), Ask(r, q),
         unchangedTables, unchangedTokens, unchangedHistory,
         q.pc \in {"count", "store", "revoke"}, q.owed = {}, q.lib = Nobody
  PROVE  AccountsInv'
<1>1. /\ Now(r, q) /\ acctAsked' \in 0..MaxAcctRequests
      /\ areq[r].pc = "idle" /\ areq[r].lib = Nobody
  BY AskedTyped
<1>2. q.pc \notin {"insert", "write"} \cup TokenSteps BY DEF TokenSteps
<1>3. /\ q.lib = areq[r].lib /\ areq[r].pc # "index"
      /\ q.owed = {} \/ (q.owed = areq[r].owed /\ q.who = areq[r].who)
  BY <1>1
<1> QED BY <1>1, <1>2, <1>3, HarmlessKeepsInv

LEMMA AskRegisterKeepsInv ==
  ASSUME AccountsInv, NEW r \in AcctThreads, NEW u \in Persons, AskRegister(r, u)
  PROVE  AccountsInv'
<1> DEFINE q == [Free0 EXCEPT !.pc = "count", !.who = u]
<1>1. Ask(r, q) BY DEF AskRegister
<1>2. q \in Records /\ Carries(q) /\ q.pc = "count" /\ q.owed = {} /\ q.lib = Nobody
  BY DEF Free0, Records, AcctPcs, Carries
<1> HIDE DEF q
<1>3. unchangedTables /\ unchangedTokens /\ unchangedHistory BY DEF AskRegister
<1> QED BY <1>1, <1>2, <1>3, AskKeepsInv

LEMMA AskLoginKeepsInv ==
  ASSUME AccountsInv, NEW r \in AcctThreads, NEW u \in Persons, AskLogin(r, u)
  PROVE  AccountsInv'
<1> DEFINE q == [Free0 EXCEPT !.pc = "store", !.who = u]
<1>1. Ask(r, q) BY DEF AskLogin
<1>2. q \in Records /\ Carries(q) /\ q.pc = "store" /\ q.owed = {} /\ q.lib = Nobody
  BY DEF Free0, Records, AcctPcs, Carries
<1> HIDE DEF q
<1>3. unchangedTables /\ unchangedTokens /\ unchangedHistory BY DEF AskLogin
<1> QED BY <1>1, <1>2, <1>3, AskKeepsInv

LEMMA AskRefreshKeepsInv ==
  ASSUME AccountsInv, NEW r \in AcctThreads, NEW k \in Tokens, AskRefresh(r, k)
  PROVE  AccountsInv'
<1> DEFINE q == [Free0 EXCEPT !.pc = "revoke", !.who = rt[k], !.tok = k]
<1>1. Ask(r, q) /\ rt[k] # Nobody BY DEF AskRefresh
<1>2. q \in Records /\ Carries(q) /\ q.pc = "revoke" /\ q.owed = {} /\ q.lib = Nobody
  <2>1. rt[k] \in Persons BY <1>1 DEF AccountsInv, Types, TokenTypes
  <2> QED BY <2>1 DEF Free0, Records, AcctPcs, Carries
<1> HIDE DEF q
<1>3. unchangedTables /\ unchangedTokens /\ unchangedHistory BY DEF AskRefresh
<1> QED BY <1>1, <1>2, <1>3, AskKeepsInv

(* A request goes on: what it keeps of itself.                             *)
LEMMA InHand ==
  ASSUME AccountsInv, NEW r \in AcctThreads, areq[r].pc # "idle"
  PROVE  /\ areq[r] \in Records /\ areq[r].who \in Persons /\ Carries(areq[r])
         /\ areq[r].pc # "member" => areq[r].lib = Nobody
         /\ acctAsked \in 0..MaxAcctRequests
BY DEF AccountsInv, Types, RequestTypes, AccountTypes, Carries

LEMMA FindUserKeepsInv ==
  ASSUME AccountsInv, NEW r \in AcctThreads, FindUser(r)
  PROVE  AccountsInv'
<1> DEFINE q == [areq[r] EXCEPT !.pc = IF users[areq[r].who] = Nobody THEN "idle" ELSE "store", !.tok = Nobody]
<1>1. /\ Now(r, q) /\ UNCHANGED acctAsked /\ unchangedTables /\ unchangedTokens /\ unchangedHistory
      /\ areq[r].pc = "find"
  BY DEF FindUser, At0
<1>2. /\ q \in Records /\ Carries(q) /\ q.pc \in {"idle", "store"} /\ q.owed = areq[r].owed
      /\ q.who = areq[r].who /\ q.lib = areq[r].lib
  BY <1>1, InHand DEF Records, AcctPcs, Carries
<1> HIDE DEF q
<1> QED BY <1>1, <1>2, InHand, HarmlessKeepsInv DEF TokenSteps

(* A step on rows has only roles and rows to answer for.                   *)
LEMMA RolesSuffice ==
  ASSUME AccountsInv, NEW r \in AcctThreads, NEW q \in Records, Carries(q), Now(r, q),
         UNCHANGED <<owner, members, bare>>, unchangedTokens, AccountTypes', RoleInv', UserRowInv',
         q.pc \notin TokenSteps, q.lib = areq[r].lib, areq[r].pc # "index",
         q.owed = {} \/ (q.owed = areq[r].owed /\ q.who = areq[r].who)
  PROVE  AccountsInv'
<1> USE DEF AccountsInv, Types
<1>1. RequestTypes' /\ RequestIs(r, q) BY NowTyped
<1>2. TokenTypes' BY DEF TokenTypes, unchangedTokens
<1>3. TokenInv' BY <1>1, TokensKept DEF unchangedTokens, RequestIs
<1>4. OwnersJoined' BY <1>1, OwnersKept DEF RequestIs
<1> QED BY <1>1, <1>2, <1>3, <1>4

LEMMA CountUsersKeepsInv ==
  ASSUME AccountsInv, NEW r \in AcctThreads, CountUsers(r)
  PROVE  AccountsInv'
<1> DEFINE q == [areq[r] EXCEPT !.pc = "insert", !.row = [pw |-> "old", role |-> FirstRole]]
<1>1. /\ Now(r, q) /\ UNCHANGED acctAsked /\ unchangedTables /\ unchangedTokens /\ unchangedHistory
      /\ areq[r].pc = "count"
  BY DEF CountUsers, At0
<1>2. /\ q \in Records /\ Carries(q) /\ q.pc = "insert" /\ q.owed = areq[r].owed
      /\ q.who = areq[r].who /\ q.lib = areq[r].lib /\ q.row.role = FirstRole
  <2>1. [pw |-> "old", role |-> FirstRole] \in Rows BY DEF FirstRole, Rows, Passwords, GlobalRoles
  <2> QED BY <1>1, <2>1, InHand DEF Records, AcctPcs, Carries
<1> HIDE DEF q
<1>3. RequestIs(r, q) BY <1>1, <1>2, NowTyped DEF AccountsInv, Types
<1>4. AccountTypes' BY <1>1 DEF AccountsInv, Types, AccountTypes, unchangedTables, unchangedHistory
<1>5. RoleInv'
  <2>1. users' = users BY <1>1 DEF unchangedTables
  <2>2. SomeoneAdministers' BY <2>1 DEF AccountsInv, RoleInv, SomeoneAdministers
  <2>3. InsertsRightly'
    <3>1. q.row.role = "superadmin" \/ \E u \in Persons : users[u] # Nobody BY <1>2 DEF FirstRole
    <3> QED BY <1>3, <2>1, <3>1 DEF AccountsInv, RoleInv, InsertsRightly, RequestIs
  <2>4. WritesRightly' BY <1>2, <1>3, <2>1 DEF AccountsInv, RoleInv, WritesRightly, RequestIs
  <2> QED BY <2>2, <2>3, <2>4 DEF RoleInv
<1>6. UserRowInv'
  <2>1. UNCHANGED <<users, acked, mixed>> BY <1>1 DEF unchangedTables, unchangedHistory
  <2>2. \A s \in AcctThreads : areq'[s].pc = "write" => areq'[s] = areq[s] BY <1>2, <1>3 DEF RequestIs
  <2> QED BY <2>1, <2>2 DEF AccountsInv, UserRowInv, UserRowsAreCurrent, CopiesAreCurrent, OneWriter
<1>7. q.pc \notin TokenSteps /\ areq[r].pc # "index" BY <1>1, <1>2 DEF TokenSteps
<1>8. UNCHANGED <<owner, members, bare>> BY <1>1 DEF unchangedTables, unchangedHistory
<1> QED BY <1>1, <1>2, <1>4, <1>5, <1>6, <1>7, <1>8, RolesSuffice

LEMMA InsertUserKeepsInv ==
  ASSUME AccountsInv, NEW r \in AcctThreads, InsertUser(r)
  PROVE  AccountsInv'
<1>1. areq[r].pc = "insert" BY DEF InsertUser, At0
<1>2. UNCHANGED <<acctAsked, owner, members, mixed, bare>> /\ unchangedTokens BY DEF InsertUser
<1>3. areq[r] \in Records /\ areq[r].who \in Persons /\ areq[r].row \in Rows /\ areq[r].lib = Nobody
      /\ acctAsked \in 0..MaxAcctRequests
  BY <1>1, InHand DEF Carries
<1> DEFINE u == areq[r].who
<1>4. CASE users[u] # Nobody
  <2>1. Now(r, Free0) /\ UNCHANGED <<users, acked>> BY <1>4 DEF InsertUser, Leaves
  <2>2. Carries(Free0) /\ Free0.pc \notin {"insert", "write"} \cup TokenSteps /\ Free0.lib = areq[r].lib
    BY <1>3, FreeTyped DEF Carries, TokenSteps
  <2>3. unchangedTables /\ unchangedHistory BY <1>2, <2>1 DEF unchangedTables, unchangedHistory
  <2> QED BY <1>1, <1>2, <1>3, <2>1, <2>2, <2>3, FreeTyped, HarmlessKeepsInv
<1>5. CASE users[u] = Nobody
  <2> DEFINE q == [areq[r] EXCEPT !.pc = "store"]
  <2>1. /\ users' = [users EXCEPT ![u] = areq[r].row] /\ acked' = [acked EXCEPT ![u] = areq[r].row]
        /\ Now(r, q)
    BY <1>5 DEF InsertUser
  <2>2. /\ q \in Records /\ Carries(q) /\ q.pc = "store" /\ q.owed = areq[r].owed
        /\ q.who = areq[r].who /\ q.lib = areq[r].lib
    BY <1>1, <1>3, InHand DEF Records, AcctPcs, Carries
  <2> HIDE DEF q
  <2>3. RequestIs(r, q) BY <2>1, <2>2, NowTyped DEF AccountsInv, Types
  <2>4. /\ users'[u] = areq[r].row /\ acked'[u] = areq[r].row /\ areq[r].row # Nobody
        /\ \A v \in Persons \ {u} : users'[v] = users[v] /\ acked'[v] = acked[v]
    BY <1>3, <2>1, AccountConstants DEF AccountsInv, Types, AccountTypes
  <2>5. AccountTypes' BY <1>2, <1>3, <2>1 DEF AccountsInv, Types, AccountTypes
  <2>6. \A s \in AcctThreads : areq'[s].pc = "write" =>
            areq'[s] = areq[s] /\ areq[s].who # u /\ areq[s].who \in Persons
    BY <1>5, <2>2, <2>3 DEF AccountsInv, RoleInv, WritesRightly, RequestIs, Types, RequestTypes, Carries
  <2>7. SomeoneAdministers'
    <3>1. CASE areq[r].row.role = "superadmin" BY <1>3, <2>4, <3>1 DEF SomeoneAdministers
    <3>2. CASE areq[r].row.role # "superadmin"
      <4>1. PICK v \in Persons : users[v] # Nobody /\ users[v].role = "superadmin"
        BY <1>1, <3>2 DEF AccountsInv, RoleInv, InsertsRightly, SomeoneAdministers
      <4> QED BY <1>5, <2>4, <4>1 DEF SomeoneAdministers
    <3> QED BY <3>1, <3>2
  <2>8. InsertsRightly' BY <1>3, <2>4 DEF InsertsRightly
  <2>9. WritesRightly' BY <2>4, <2>6 DEF AccountsInv, RoleInv, WritesRightly
  <2>10. UserRowInv'
    <3>1. UserRowsAreCurrent' BY <1>2, <1>3, <2>4 DEF AccountsInv, UserRowInv, UserRowsAreCurrent
    <3>2. CopiesAreCurrent' BY <1>2, <2>4, <2>6 DEF AccountsInv, UserRowInv, CopiesAreCurrent
    <3>3. OneWriter' BY <1>2, <2>6 DEF AccountsInv, UserRowInv, OneWriter
    <3> QED BY <3>1, <3>2, <3>3 DEF UserRowInv
  <2>11. q.pc \notin TokenSteps /\ areq[r].pc # "index" BY <1>1, <2>2 DEF TokenSteps
  <2>12. RoleInv' BY <2>7, <2>8, <2>9 DEF RoleInv
  <2> QED BY <1>2, <2>1, <2>2, <2>5, <2>10, <2>11, <2>12, RolesSuffice
<1> QED BY <1>4, <1>5

(* A copy of a row is taken: its role is that of the row, or the row is no *)
(* superadmin's and neither is the copy.                                   *)
LEMMA ReadKeepsInv ==
  ASSUME AccountsInv, NEW r \in AcctThreads, NEW u \in Persons, NEW value \in Rows, NEW field \in {"pw", "role"},
         users[u] # Nobody, Reads(r, u, value, field),
         value.role = "superadmin" <=> users[u].role = "superadmin",
         field = "pw" => value.role = users[u].role,
         field = "role" => value.pw = users[u].pw
  PROVE  AccountsInv'
<1> DEFINE q == [Free0 EXCEPT !.pc = "write", !.who = u, !.row = value, !.asked = field]
<1>1. /\ Ask(r, q) /\ UNCHANGED <<acked, bare>> /\ unchangedTables /\ unchangedTokens
      /\ mixed' = IF Writing(u) THEN mixed \cup {u} ELSE mixed
  BY DEF Reads
<1>2. /\ q \in Records /\ Carries(q) /\ q.pc = "write" /\ q.owed = {} /\ q.lib = Nobody
      /\ q.who = u /\ q.row = value /\ q.asked = field
  BY DEF Free0, Records, AcctPcs, Carries
<1> HIDE DEF q
<1>3. Now(r, q) /\ acctAsked' \in 0..MaxAcctRequests /\ areq[r].pc = "idle" /\ areq[r].lib = Nobody
  BY <1>1, AskedTyped
<1>4. RequestIs(r, q) BY <1>2, <1>3, NowTyped DEF AccountsInv, Types
<1>5. UNCHANGED <<users, acked, owner, members>> BY <1>1 DEF unchangedTables
<1>6. AccountTypes' BY <1>3, <1>5 DEF AccountsInv, Types, AccountTypes
<1>7. RoleInv'
  <2>1. SomeoneAdministers' BY <1>5 DEF AccountsInv, RoleInv, SomeoneAdministers
  <2>2. InsertsRightly' BY <1>2, <1>4, <1>5 DEF AccountsInv, RoleInv, InsertsRightly, RequestIs
  <2>3. WritesRightly' BY <1>2, <1>4, <1>5 DEF AccountsInv, RoleInv, WritesRightly, RequestIs
  <2> QED BY <2>1, <2>2, <2>3 DEF RoleInv
<1>8. UserRowInv'
  <2>0. mixed \subseteq mixed' /\ (u \notin mixed' => ~Writing(u)) BY <1>1
  <2>1. UserRowsAreCurrent' BY <1>5, <2>0 DEF AccountsInv, UserRowInv, UserRowsAreCurrent
  <2>2. CopiesAreCurrent' BY <1>2, <1>4, <1>5, <2>0 DEF AccountsInv, UserRowInv, CopiesAreCurrent, RequestIs
  <2>3. ASSUME NEW s \in AcctThreads, NEW t \in AcctThreads, areq'[s].pc = "write", areq'[t].pc = "write",
               areq'[s].who = areq'[t].who, areq'[s].who \notin mixed', s # t
        PROVE  FALSE
    <3>1. CASE s # r /\ t # r BY <1>4, <2>0, <2>3, <3>1 DEF AccountsInv, UserRowInv, OneWriter, RequestIs
    <3>2. CASE s = r \/ t = r
      BY <1>2, <1>4, <2>0, <2>3, <3>2 DEF RequestIs, Writing, At0
    <3> QED BY <3>1, <3>2
  <2>4. OneWriter' BY <2>3 DEF OneWriter
  <2> QED BY <2>1, <2>2, <2>4 DEF UserRowInv
<1>9. q.pc \notin TokenSteps /\ areq[r].pc # "index" /\ q.lib = areq[r].lib BY <1>2, <1>3 DEF TokenSteps
<1> QED BY <1>1, <1>2, <1>3, <1>5, <1>6, <1>7, <1>8, <1>9, RolesSuffice

LEMMA ChangePasswordKeepsInv ==
  ASSUME AccountsInv, NEW r \in AcctThreads, NEW u \in Persons, ChangePassword(r, u, "new")
  PROVE  AccountsInv'
<1> DEFINE value == [users[u] EXCEPT !.pw = "new"]
<1>1. users[u] # Nobody /\ Reads(r, u, value, "pw") BY DEF ChangePassword
<1>2. users[u] \in Rows BY <1>1 DEF AccountsInv, Types, AccountTypes
<1>3. value \in Rows /\ value.role = users[u].role BY <1>2 DEF Rows, Passwords
<1> QED BY <1>1, <1>3, ReadKeepsInv

LEMMA UpdateUserRoleKeepsInv ==
  ASSUME AccountsInv, NEW r \in AcctThreads, NEW u \in Persons, NEW v \in Persons, NEW role \in GlobalRoles,
         UpdateUserRole(r, u, v, role)
  PROVE  AccountsInv'
<1> DEFINE value == [users[v] EXCEPT !.role = role]
<1>1. users[v] # Nobody /\ Reads(r, v, value, "role") /\ role # "superadmin" /\ users[v].role # "superadmin"
  BY DEF UpdateUserRole, MayChange
<1>2. users[v] \in Rows BY <1>1 DEF AccountsInv, Types, AccountTypes
<1>3. value \in Rows /\ value.role = role /\ value.pw = users[v].pw BY <1>2 DEF Rows
<1> QED BY <1>1, <1>3, ReadKeepsInv

LEMMA WriteUserKeepsInv ==
  ASSUME AccountsInv, NEW r \in AcctThreads, WriteUser(r)
  PROVE  AccountsInv'
<1> DEFINE u == areq[r].who
           given == areq[r].row
<1>1. /\ areq[r].pc = "write" /\ Now(r, Free0) /\ UNCHANGED <<acctAsked, owner, members, mixed, bare>> /\ unchangedTokens
      /\ users' = [users EXCEPT ![u] = given]
      /\ acked' = IF areq[r].asked = "pw" THEN [acked EXCEPT ![u].pw = given.pw] ELSE [acked EXCEPT ![u].role = given.role]
  BY DEF WriteUser, At0, Leaves, WholeRow
<1>2. /\ u \in Persons /\ given \in Rows /\ areq[r].asked \in {"pw", "role"} /\ areq[r].lib = Nobody
      /\ acctAsked \in 0..MaxAcctRequests /\ given # Nobody
  BY <1>1, InHand, AccountConstants DEF Carries
<1>3. users[u] \in Rows /\ users[u] # Nobody /\ (given.role = "superadmin" <=> users[u].role = "superadmin")
  BY <1>1, <1>2 DEF AccountsInv, Types, AccountTypes, RoleInv, WritesRightly
<1>4. Carries(Free0) /\ Free0.pc = "idle" /\ Free0.lib = areq[r].lib /\ Free0 \in Records /\ Free0.owed = {}
  BY <1>2, FreeTyped DEF Carries
<1>5. RequestIs(r, Free0) BY <1>1, <1>4, NowTyped DEF AccountsInv, Types
<1>6. /\ users'[u] = given
      /\ \A v \in Persons \ {u} : users'[v] = users[v] /\ acked'[v] = acked[v]
  BY <1>1, <1>2 DEF AccountsInv, Types, AccountTypes
<1>7. \A s \in AcctThreads : areq'[s].pc \in {"write", "insert"} => s # r /\ areq'[s] = areq[s]
  BY <1>4, <1>5 DEF RequestIs
<1>8. \A s \in AcctThreads : areq[s].pc = "write" => areq[s].who \in Persons
  BY DEF AccountsInv, Types, RequestTypes, Carries
<1>9. RoleInv'
  <2>1. SomeoneAdministers'
    <3>1. PICK v \in Persons : users[v] # Nobody /\ users[v].role = "superadmin"
      BY <1>2, <1>3 DEF AccountsInv, RoleInv, SomeoneAdministers
    <3> QED BY <1>2, <1>3, <1>6, <3>1 DEF SomeoneAdministers
  <2>2. InsertsRightly' BY <1>2, <1>6 DEF InsertsRightly
  <2>3. WritesRightly' BY <1>2, <1>3, <1>6, <1>7, <1>8 DEF AccountsInv, RoleInv, WritesRightly
  <2> QED BY <2>1, <2>2, <2>3 DEF RoleInv
<1>10. u \notin mixed => acked'[u] = given
  <2> SUFFICES ASSUME u \notin mixed PROVE acked'[u] = given OBVIOUS
  <2>1. acked[u] = users[u] BY <1>2 DEF AccountsInv, UserRowInv, UserRowsAreCurrent
  <2>2. CASE areq[r].asked = "pw"
    <3>1. acked'[u] = [users[u] EXCEPT !.pw = given.pw] BY <1>1, <1>2, <2>1, <2>2 DEF AccountsInv, Types, AccountTypes
    <3>2. given.role = users[u].role BY <1>1, <2>2 DEF AccountsInv, UserRowInv, CopiesAreCurrent
    <3> QED BY <1>2, <1>3, <3>1, <3>2 DEF Rows
  <2>3. CASE areq[r].asked = "role"
    <3>1. acked'[u] = [users[u] EXCEPT !.role = given.role] BY <1>1, <1>2, <2>1, <2>3 DEF AccountsInv, Types, AccountTypes
    <3>2. given.pw = users[u].pw BY <1>1, <2>3 DEF AccountsInv, UserRowInv, CopiesAreCurrent
    <3> QED BY <1>2, <1>3, <3>1, <3>2 DEF Rows
  <2> QED BY <1>2, <2>2, <2>3
<1>11. UserRowInv'
  <2>1. UserRowsAreCurrent' BY <1>1, <1>6, <1>10 DEF AccountsInv, UserRowInv, UserRowsAreCurrent
  <2>2. CopiesAreCurrent'
    <3> SUFFICES ASSUME NEW s \in AcctThreads, areq'[s].pc = "write", areq'[s].who \notin mixed'
                 PROVE  /\ areq'[s].asked = "pw" => areq'[s].row.role = users'[areq'[s].who].role
                        /\ areq'[s].asked = "role" => areq'[s].row.pw = users'[areq'[s].who].pw
      BY DEF CopiesAreCurrent
    <3>1. areq'[s] = areq[s] /\ s # r /\ areq[s].who \in Persons BY <1>7, <1>8
    <3>2. areq[s].who # u BY <1>1, <3>1 DEF AccountsInv, UserRowInv, OneWriter
    <3> QED BY <1>1, <1>6, <3>1, <3>2 DEF AccountsInv, UserRowInv, CopiesAreCurrent
  <2>3. OneWriter' BY <1>1, <1>7 DEF AccountsInv, UserRowInv, OneWriter
  <2> QED BY <2>1, <2>2, <2>3 DEF UserRowInv
<1>12. AccountTypes'
  <2>1. users' \in [Persons -> Rows \cup {Nobody}] BY <1>1, <1>2 DEF AccountsInv, Types, AccountTypes
  <2>2. acked[u] \in Rows /\ acked \in [Persons -> Rows \cup {Nobody}]
    BY <1>2, <1>3 DEF AccountsInv, Types, AccountTypes
  <2>3. [acked[u] EXCEPT !.pw = given.pw] \in Rows /\ [acked[u] EXCEPT !.role = given.role] \in Rows
    BY <1>2, <2>2 DEF Rows
  <2>4. acked' \in [Persons -> Rows \cup {Nobody}] /\ acked'[u] \in Rows BY <1>1, <1>2, <2>2, <2>3
  <2>5. \A v \in Persons : users'[v] # Nobody => acked'[v] # Nobody
    BY <1>6, <2>4, AccountConstants DEF AccountsInv, Types, AccountTypes
  <2> QED BY <1>1, <2>1, <2>4, <2>5 DEF AccountsInv, Types, AccountTypes
<1>13. Free0.pc \notin TokenSteps /\ areq[r].pc # "index" BY <1>1, <1>4 DEF TokenSteps
<1> QED BY <1>1, <1>4, <1>9, <1>11, <1>12, <1>13, RolesSuffice

(* Tokens.  What a step on them starts from.                               *)
LEMMA TokenFacts ==
  ASSUME AccountsInv
  PROVE  /\ TokensAreIndexed /\ IndexesItsOwn /\ RevokedIsGone /\ NoneIsMissed /\ OwedAreCovered /\ LogoutEndsEarlier
         /\ rt \in [Tokens -> Persons \cup {Nobody}] /\ userRt \in [Persons -> SUBSET Tokens]
         /\ ended \subseteq Tokens /\ Nobody \notin Persons
         /\ \A s \in AcctThreads : areq[s].pc # "idle" => areq[s].who \in Persons
         /\ \A s \in AcctThreads : areq[s].pc = "index" => areq[s].tok \in Tokens
BY AccountConstants DEF AccountsInv, TokenInv, Types, TokenTypes, RequestTypes, Carries

LEMMA StoreTokenKeepsInv ==
  ASSUME AccountsInv, NEW r \in AcctThreads, StoreToken(r)
  PROVE  AccountsInv'
<1> DEFINE w == areq[r].who
<1>1. areq[r].pc = "store" /\ UNCHANGED <<acctAsked, userRt, ended>> /\ unchangedTables /\ unchangedHistory
  BY DEF StoreToken, At0
<1>2. PICK k \in Tokens :
          /\ rt[k] = Nobody /\ k \notin ended \cup slipped
          /\ \A t \in AcctThreads : k \notin areq[t].toks \cup areq[t].owed /\ areq[t].tok # k
          /\ rt' = [rt EXCEPT ![k] = w]
          /\ slipped' = IF Revoking(w) THEN slipped \cup {k} ELSE slipped
          /\ Now(r, [areq[r] EXCEPT !.pc = "index", !.tok = k])
  BY DEF StoreToken
<1> DEFINE q == [areq[r] EXCEPT !.pc = "index", !.tok = k]
<1>3. w \in Persons /\ acctAsked \in 0..MaxAcctRequests BY <1>1, InHand
<1>4. /\ q \in Records /\ Carries(q) /\ q.pc = "index" /\ q.tok = k /\ q.who = w
      /\ q.owed = areq[r].owed /\ q.lib = areq[r].lib
  BY <1>1, InHand DEF Records, AcctPcs, Carries
<1>5. Now(r, q) BY <1>2
<1> HIDE DEF q
<1>6. RequestIs(r, q) BY <1>4, <1>5, NowTyped DEF AccountsInv, Types
<1>7. \A x : Indexing(x)' <=> Indexing(x) \/ x = k BY <1>1, <1>4, <1>6 DEF Indexing, RequestIs
<1>8. \A x, u : IndexedBy(x, u) \/ (x = k /\ u = w) => IndexedBy(x, u)'
  BY <1>1, <1>4, <1>6 DEF IndexedBy, RequestIs
<1>9. rt'[k] = w /\ (\A x \in Tokens \ {k} : rt'[x] = rt[x]) /\ slipped \subseteq slipped' /\ slipped' \subseteq slipped \cup {k}
  BY <1>2, TokenFacts
<1>10. TokenTypes' BY <1>1, <1>2, <1>3, TokenFacts DEF TokenTypes
<1>11. TokensAreIndexed' BY <1>1, <1>8, <1>9, TokenFacts DEF TokensAreIndexed
<1>12. IndexesItsOwn' BY <1>2, <1>4, <1>6, <1>9, TokenFacts DEF IndexesItsOwn, RequestIs
<1>13. RevokedIsGone'
  <2>1. \A s \in AcctThreads : areq[s].pc = "unindex" => areq[s].tok \in Tokens \ {k}
    BY <1>2 DEF AccountsInv, Types, RequestTypes, Carries
  <2> QED BY <1>4, <1>6, <1>9, <2>1, TokenFacts DEF RevokedIsGone, RequestIs
<1>14. NoneIsMissed' BY <1>4, <1>6, <1>7, <1>9, TokenFacts DEF NoneIsMissed, RequestIs
<1>15. OwedAreCovered'
  <2>1. \A s \in AcctThreads : areq'[s].owed = areq[s].owed /\ areq'[s].who = areq[s].who BY <1>4, <1>6 DEF RequestIs
  <2>2. \A s \in AcctThreads : areq[s].owed \subseteq Tokens \ {k}
    BY <1>2 DEF AccountsInv, Types, RequestTypes, Records
  <2> QED BY <1>7, <1>9, <2>1, <2>2, TokenFacts DEF OwedAreCovered
<1>16. LogoutEndsEarlier' BY <1>1, <1>2, TokenFacts DEF LogoutEndsEarlier
<1>17. TokenInv' BY <1>11, <1>12, <1>13, <1>14, <1>15, <1>16 DEF TokenInv
<1> QED BY <1>1, <1>3, <1>4, <1>5, <1>10, <1>17, TokensSuffice

LEMMA IndexTokenKeepsInv ==
  ASSUME AccountsInv, NEW r \in AcctThreads, IndexToken(r)
  PROVE  AccountsInv'
<1> DEFINE w == areq[r].who
           k == areq[r].tok
<1>1. /\ areq[r].pc = "index" /\ Now(r, Free0) /\ UNCHANGED <<acctAsked, rt, ended>> /\ unchangedTables /\ unchangedHistory
      /\ userRt' = [userRt EXCEPT ![w] = @ \cup {k}]
      /\ slipped' = IF Revoking(w) THEN slipped \cup {k} ELSE slipped
  BY DEF IndexToken, At0, Leaves
<1>2. w \in Persons /\ k \in Tokens /\ areq[r].lib = Nobody /\ acctAsked \in 0..MaxAcctRequests
  BY <1>1, InHand DEF Carries
<1>3. Carries(Free0) /\ Free0 \in Records /\ Free0.pc = "idle" /\ Free0.lib = areq[r].lib /\ Free0.owed = {}
  BY <1>2, FreeTyped DEF Carries
<1>4. RequestIs(r, Free0) BY <1>1, <1>3, NowTyped DEF AccountsInv, Types
<1>5. \A x : Indexing(x)' => Indexing(x) BY <1>3, <1>4 DEF Indexing, RequestIs
<1>6. \A x : Indexing(x) /\ x # k => Indexing(x)' BY <1>4 DEF Indexing, RequestIs
<1>7. \A x, u : IndexedBy(x, u) => IndexedBy(x, u)' \/ (x = k /\ u = w) BY <1>4 DEF IndexedBy, RequestIs
<1>8. /\ userRt'[w] = userRt[w] \cup {k} /\ \A u \in Persons \ {w} : userRt'[u] = userRt[u]
  BY <1>1, <1>2, TokenFacts
<1>9. TokenTypes' BY <1>1, <1>2, TokenFacts DEF TokenTypes
<1>10. TokensAreIndexed' BY <1>1, <1>7, <1>8, TokenFacts DEF TokensAreIndexed
<1>11. IndexesItsOwn' /\ RevokedIsGone'
  BY <1>1, <1>3, <1>4, TokenFacts DEF IndexesItsOwn, RevokedIsGone, RequestIs
<1>12. NoneIsMissed'
  <2> SUFFICES ASSUME NEW s \in AcctThreads, NEW x \in Tokens, rt[x] = areq'[s].who,
                      areq'[s].pc \in {"delkeys", "delset"}
               PROVE  x \in slipped' \/ Indexing(x)' \/ (areq'[s].pc = "delkeys" /\ x \in areq'[s].toks)
    BY <1>1 DEF NoneIsMissed
  <2>1. areq'[s] = areq[s] /\ s # r BY <1>3, <1>4 DEF RequestIs
  <2>2. x \in slipped \/ Indexing(x) \/ (areq[s].pc = "delkeys" /\ x \in areq[s].toks)
    BY <2>1, TokenFacts DEF NoneIsMissed
  <2>3. CASE x = k
    <3>1. areq[s].who = w BY <1>1, <2>1, <2>3, TokenFacts DEF IndexesItsOwn
    <3>2. Revoking(w) BY <2>1, <3>1 DEF Revoking
    <3> QED BY <1>1, <2>3, <3>2
  <2> QED BY <1>1, <1>6, <2>1, <2>2, <2>3
<1>13. OwedAreCovered'
  <2>1. Indexing(k) BY <1>1 DEF Indexing
  <2>2. \A s \in AcctThreads : areq'[s].owed = {} \/ areq'[s] = areq[s] BY <1>3, <1>4 DEF RequestIs
  <2> QED BY <1>1, <1>5, <2>1, <2>2, TokenFacts DEF OwedAreCovered
<1>14. LogoutEndsEarlier' BY <1>1, TokenFacts DEF LogoutEndsEarlier
<1>15. TokenInv' BY <1>10, <1>11, <1>12, <1>13, <1>14 DEF TokenInv
<1> QED BY <1>1, <1>2, <1>3, <1>9, <1>15, TokensSuffice

LEMMA RevokeTokenKeepsInv ==
  ASSUME AccountsInv, NEW r \in AcctThreads, RevokeToken(r)
  PROVE  AccountsInv'
<1> DEFINE k == areq[r].tok
           q == [areq[r] EXCEPT !.pc = IF rt[k] # Nobody THEN "unindex" ELSE "find"]
<1>1. /\ areq[r].pc = "revoke" /\ Now(r, q) /\ rt' = [rt EXCEPT ![k] = Nobody]
      /\ UNCHANGED <<acctAsked, userRt, slipped, ended>> /\ unchangedTables /\ unchangedHistory
  BY DEF RevokeToken, At0
<1>2. k \in Tokens /\ acctAsked \in 0..MaxAcctRequests BY <1>1, InHand DEF Carries
<1>3. /\ q \in Records /\ Carries(q) /\ q.pc \in {"unindex", "find"} /\ q.tok = k /\ q.who = areq[r].who
      /\ q.owed = areq[r].owed /\ q.lib = areq[r].lib
  BY <1>1, InHand DEF Records, AcctPcs, Carries
<1> HIDE DEF q
<1>4. RequestIs(r, q) BY <1>1, <1>3, NowTyped DEF AccountsInv, Types
<1>5. rt'[k] = Nobody /\ \A x \in Tokens \ {k} : rt'[x] = rt[x] BY <1>1, <1>2, TokenFacts
<1>6. \A x : Indexing(x)' <=> Indexing(x) BY <1>1, <1>3, <1>4 DEF Indexing, RequestIs
<1>7. \A x, u : IndexedBy(x, u)' <=> IndexedBy(x, u) BY <1>1, <1>3, <1>4 DEF IndexedBy, RequestIs
<1>8. TokenTypes' BY <1>1, <1>2, TokenFacts DEF TokenTypes
<1>9. TokensAreIndexed' BY <1>1, <1>5, <1>7, TokenFacts DEF TokensAreIndexed
<1>10. IndexesItsOwn' BY <1>3, <1>4, <1>5, TokenFacts DEF IndexesItsOwn, RequestIs
<1>11. RevokedIsGone'
  <2>1. \A s \in AcctThreads : areq[s].pc = "unindex" => areq[s].tok \in Tokens
    BY DEF AccountsInv, Types, RequestTypes, Carries
  <2> QED BY <1>3, <1>4, <1>5, <2>1, TokenFacts DEF RevokedIsGone, RequestIs
<1>12. NoneIsMissed' BY <1>1, <1>3, <1>4, <1>5, <1>6, TokenFacts DEF NoneIsMissed, RequestIs
<1>13. OwedAreCovered'
  <2>1. \A s \in AcctThreads : areq'[s].owed = areq[s].owed /\ areq'[s].who = areq[s].who BY <1>3, <1>4 DEF RequestIs
  <2>2. \A s \in AcctThreads : areq[s].owed \subseteq Tokens BY DEF AccountsInv, Types, RequestTypes, Records
  <2> QED BY <1>1, <1>5, <1>6, <2>1, <2>2, TokenFacts DEF OwedAreCovered
<1>14. LogoutEndsEarlier'
  <2>1. \A x \in ended : rt[x] = Nobody => rt'[x] = Nobody BY <1>1
  <2> QED BY <1>1, <2>1, TokenFacts DEF LogoutEndsEarlier
<1>15. TokenInv' BY <1>9, <1>10, <1>11, <1>12, <1>13, <1>14 DEF TokenInv
<1> QED BY <1>1, <1>2, <1>3, <1>8, <1>15, TokensSuffice

LEMMA UnindexTokenKeepsInv ==
  ASSUME AccountsInv, NEW r \in AcctThreads, UnindexToken(r)
  PROVE  AccountsInv'
<1> DEFINE w == areq[r].who
           k == areq[r].tok
           q == [areq[r] EXCEPT !.pc = "find"]
<1>1. /\ areq[r].pc = "unindex" /\ Now(r, q) /\ userRt' = [userRt EXCEPT ![w] = @ \ {k}]
      /\ UNCHANGED <<acctAsked, rt, slipped, ended>> /\ unchangedTables /\ unchangedHistory
  BY DEF UnindexToken, At0
<1>2. w \in Persons /\ k \in Tokens /\ acctAsked \in 0..MaxAcctRequests BY <1>1, InHand DEF Carries
<1>3. /\ q \in Records /\ Carries(q) /\ q.pc = "find" /\ q.who = w
      /\ q.owed = areq[r].owed /\ q.lib = areq[r].lib
  BY <1>1, InHand DEF Records, AcctPcs, Carries
<1> HIDE DEF q
<1>4. RequestIs(r, q) BY <1>1, <1>3, NowTyped DEF AccountsInv, Types
<1>5. rt[k] = Nobody BY <1>1, TokenFacts DEF RevokedIsGone
<1>6. \A x : Indexing(x)' <=> Indexing(x) BY <1>1, <1>3, <1>4 DEF Indexing, RequestIs
<1>7. \A x, u : IndexedBy(x, u)' <=> IndexedBy(x, u) BY <1>1, <1>3, <1>4 DEF IndexedBy, RequestIs
<1>8. TokenTypes' BY <1>1, <1>2, TokenFacts DEF TokenTypes
<1>9. TokensAreIndexed'
  <2>1. \A u \in Persons : userRt[u] \ {k} \subseteq userRt'[u] BY <1>1, <1>2, TokenFacts
  <2> QED BY <1>1, <1>5, <1>7, <2>1, TokenFacts DEF TokensAreIndexed
<1>10. IndexesItsOwn' BY <1>1, <1>3, <1>4, TokenFacts DEF IndexesItsOwn, RequestIs
<1>11. RevokedIsGone' BY <1>1, <1>3, <1>4, TokenFacts DEF RevokedIsGone, RequestIs
<1>12. NoneIsMissed' BY <1>1, <1>3, <1>4, <1>6, TokenFacts DEF NoneIsMissed, RequestIs
<1>13. OwedAreCovered'
  <2>1. \A s \in AcctThreads : areq'[s].owed = areq[s].owed /\ areq'[s].who = areq[s].who BY <1>3, <1>4 DEF RequestIs
  <2> QED BY <1>1, <1>6, <2>1, TokenFacts DEF OwedAreCovered
<1>14. LogoutEndsEarlier' BY <1>1, TokenFacts DEF LogoutEndsEarlier
<1>15. TokenInv' BY <1>9, <1>10, <1>11, <1>12, <1>13, <1>14 DEF TokenInv
<1> QED BY <1>1, <1>2, <1>3, <1>8, <1>15, TokensSuffice

LEMMA AskLogoutKeepsInv ==
  ASSUME AccountsInv, NEW r \in AcctThreads, NEW u \in Persons, AskLogout(r, u)
  PROVE  AccountsInv'
<1> DEFINE owed == {k \in Tokens : rt[k] = u /\ k \notin slipped /\ \A t \in AcctThreads : areq[t].tok # k}
           q == [Free0 EXCEPT !.pc = "smembers", !.who = u, !.owed = owed]
           missed == {areq[t].tok : t \in {t \in AcctThreads : areq[t].who = u /\ areq[t].pc = "index"}}
<1>1. /\ Ask(r, q) /\ slipped' = slipped \cup missed
      /\ UNCHANGED <<rt, userRt, ended>> /\ unchangedTables /\ unchangedHistory
  BY DEF AskLogout
<1>2. q \in Records /\ Carries(q) /\ q.pc = "smembers" /\ q.who = u /\ q.owed = owed /\ q.lib = Nobody
  BY DEF Free0, Records, AcctPcs, Carries
<1>3. \A k \in owed : k \in Tokens /\ rt[k] = u /\ k \notin slipped /\ ~Indexing(k) BY DEF Indexing
<1>4. \A k \in missed : Indexing(k) BY DEF Indexing
<1> HIDE DEF q, owed, missed
<1>5. Now(r, q) /\ acctAsked' \in 0..MaxAcctRequests /\ areq[r].pc = "idle" /\ areq[r].lib = Nobody
  BY <1>1, AskedTyped
<1>6. RequestIs(r, q) BY <1>2, <1>5, NowTyped DEF AccountsInv, Types
<1>7. \A x : Indexing(x)' <=> Indexing(x) BY <1>2, <1>5, <1>6 DEF Indexing, RequestIs
<1>8. \A x, v : IndexedBy(x, v)' <=> IndexedBy(x, v) BY <1>2, <1>5, <1>6 DEF IndexedBy, RequestIs
<1>9. TokenTypes' BY <1>1, TokenFacts DEF TokenTypes
<1>10. TokensAreIndexed' BY <1>1, <1>8, TokenFacts DEF TokensAreIndexed
<1>11. IndexesItsOwn' /\ RevokedIsGone'
  BY <1>1, <1>2, <1>6, TokenFacts DEF IndexesItsOwn, RevokedIsGone, RequestIs
<1>12. NoneIsMissed' BY <1>1, <1>2, <1>6, <1>7, TokenFacts DEF NoneIsMissed, RequestIs
<1>13. OwedAreCovered'
  <2> SUFFICES ASSUME NEW s \in AcctThreads, NEW k \in areq'[s].owed
               PROVE  rt[k] = Nobody \/ (rt[k] = areq'[s].who /\ k \notin slipped' /\ ~Indexing(k))
    BY <1>1, <1>7 DEF OwedAreCovered
  <2>1. CASE s = r BY <1>1, <1>2, <1>3, <1>4, <1>6, <2>1 DEF RequestIs
  <2>2. CASE s # r BY <1>1, <1>4, <1>6, <2>2, TokenFacts DEF RequestIs, OwedAreCovered
  <2> QED BY <2>1, <2>2
<1>14. LogoutEndsEarlier' BY <1>1, TokenFacts DEF LogoutEndsEarlier
<1>15. TokenInv' BY <1>10, <1>11, <1>12, <1>13, <1>14 DEF TokenInv
<1> QED BY <1>1, <1>2, <1>5, <1>9, <1>15, TokensSuffice

LEMMA SMembersKeepsInv ==
  ASSUME AccountsInv, NEW r \in AcctThreads, SMembers(r)
  PROVE  AccountsInv'
<1> DEFINE w == areq[r].who
           q == [areq[r] EXCEPT !.toks = userRt[w], !.pc = IF userRt[w] = {} THEN "delset" ELSE "delkeys"]
<1>1. /\ areq[r].pc = "smembers" /\ Now(r, q)
      /\ UNCHANGED acctAsked /\ unchangedTables /\ unchangedTokens /\ unchangedHistory
  BY DEF SMembers, At0
<1>2. w \in Persons /\ acctAsked \in 0..MaxAcctRequests BY <1>1, InHand
<1>3. /\ q \in Records /\ Carries(q) /\ q.who = w /\ q.owed = areq[r].owed /\ q.lib = areq[r].lib
      /\ q.toks = userRt[w] /\ (q.pc = "delkeys" \/ (q.pc = "delset" /\ userRt[w] = {}))
  BY <1>1, <1>2, InHand, TokenFacts DEF Records, AcctPcs, Carries
<1> HIDE DEF q
<1>4. RequestIs(r, q) BY <1>1, <1>3, NowTyped DEF AccountsInv, Types
<1>5. UNCHANGED <<rt, userRt, slipped, ended>> BY <1>1 DEF unchangedTokens
<1>6. \A x : Indexing(x)' <=> Indexing(x) BY <1>1, <1>3, <1>4 DEF Indexing, RequestIs
<1>7. \A x, u : IndexedBy(x, u)' <=> IndexedBy(x, u) BY <1>1, <1>3, <1>4 DEF IndexedBy, RequestIs
<1>8. TokenTypes' BY <1>5, TokenFacts DEF TokenTypes
<1>9. TokensAreIndexed' BY <1>5, <1>7, TokenFacts DEF TokensAreIndexed
<1>10. IndexesItsOwn' /\ RevokedIsGone'
  BY <1>3, <1>4, <1>5, TokenFacts DEF IndexesItsOwn, RevokedIsGone, RequestIs
<1>11. NoneIsMissed'
  <2>1. \A x \in Tokens : rt[x] = w => x \in slipped \/ Indexing(x) \/ x \in userRt[w]
    BY <1>2, TokenFacts DEF TokensAreIndexed, IndexedBy, Indexing
  <2> QED BY <1>3, <1>4, <1>5, <1>6, <2>1, TokenFacts DEF NoneIsMissed, RequestIs
<1>12. OwedAreCovered'
  <2>1. \A s \in AcctThreads : areq'[s].owed = areq[s].owed /\ areq'[s].who = areq[s].who BY <1>3, <1>4 DEF RequestIs
  <2> QED BY <1>5, <1>6, <2>1, TokenFacts DEF OwedAreCovered
<1>13. LogoutEndsEarlier' BY <1>5, TokenFacts DEF LogoutEndsEarlier
<1>14. TokenInv' BY <1>9, <1>10, <1>11, <1>12, <1>13 DEF TokenInv
<1>15. q.pc \notin {"insert", "write"} BY <1>3
<1> QED BY <1>1, <1>2, <1>3, <1>8, <1>14, <1>15, TokensSuffice

LEMMA DelKeysKeepsInv ==
  ASSUME AccountsInv, NEW r \in AcctThreads, DelKeys(r)
  PROVE  AccountsInv'
<1> DEFINE q == [areq[r] EXCEPT !.pc = "delset"]
<1>1. /\ areq[r].pc = "delkeys" /\ Now(r, q)
      /\ rt' = [k \in Tokens |-> IF k \in areq[r].toks THEN Nobody ELSE rt[k]]
      /\ UNCHANGED <<acctAsked, userRt, slipped, ended>> /\ unchangedTables /\ unchangedHistory
  BY DEF DelKeys, At0
<1>2. areq[r].who \in Persons /\ acctAsked \in 0..MaxAcctRequests BY <1>1, InHand
<1>3. /\ q \in Records /\ Carries(q) /\ q.pc = "delset" /\ q.who = areq[r].who /\ q.toks = areq[r].toks
      /\ q.owed = areq[r].owed /\ q.lib = areq[r].lib
  BY <1>1, InHand DEF Records, AcctPcs, Carries
<1> HIDE DEF q
<1>4. RequestIs(r, q) BY <1>1, <1>3, NowTyped DEF AccountsInv, Types
<1>5. \A k \in Tokens : rt'[k] = Nobody \/ (rt'[k] = rt[k] /\ k \notin areq[r].toks) BY <1>1
<1>6. \A x : Indexing(x)' <=> Indexing(x) BY <1>1, <1>3, <1>4 DEF Indexing, RequestIs
<1>7. \A x, u : IndexedBy(x, u)' <=> IndexedBy(x, u) BY <1>1, <1>3, <1>4 DEF IndexedBy, RequestIs
<1>8. TokenTypes' BY <1>1, TokenFacts DEF TokenTypes
<1>9. TokensAreIndexed' BY <1>1, <1>5, <1>7, TokenFacts DEF TokensAreIndexed
<1>10. IndexesItsOwn' BY <1>3, <1>4, <1>5, TokenFacts DEF IndexesItsOwn, RequestIs
<1>11. RevokedIsGone'
  <2>1. \A s \in AcctThreads : areq[s].pc = "unindex" => areq[s].tok \in Tokens
    BY DEF AccountsInv, Types, RequestTypes, Carries
  <2> QED BY <1>3, <1>4, <1>5, <2>1, TokenFacts DEF RevokedIsGone, RequestIs
<1>12. NoneIsMissed'
  <2> SUFFICES ASSUME NEW s \in AcctThreads, NEW x \in Tokens, rt'[x] = areq'[s].who
               PROVE  /\ areq'[s].pc = "delkeys" => x \in slipped \/ Indexing(x) \/ x \in areq'[s].toks
                      /\ areq'[s].pc = "delset" => x \in slipped \/ Indexing(x)
    BY <1>1, <1>6 DEF NoneIsMissed
  <2>1. CASE s = r BY <1>1, <1>2, <1>3, <1>4, <1>5, <2>1, TokenFacts DEF NoneIsMissed, RequestIs
  <2>2. CASE s # r BY <1>4, <1>5, <2>2, TokenFacts DEF NoneIsMissed, RequestIs
  <2> QED BY <2>1, <2>2
<1>13. OwedAreCovered'
  <2>1. \A s \in AcctThreads : areq'[s].owed = areq[s].owed /\ areq'[s].who = areq[s].who BY <1>3, <1>4 DEF RequestIs
  <2>2. \A s \in AcctThreads : areq[s].owed \subseteq Tokens BY DEF AccountsInv, Types, RequestTypes, Records
  <2> QED BY <1>1, <1>5, <1>6, <2>1, <2>2, TokenFacts DEF OwedAreCovered
<1>14. LogoutEndsEarlier' BY <1>1, <1>5, TokenFacts DEF LogoutEndsEarlier
<1>15. TokenInv' BY <1>9, <1>10, <1>11, <1>12, <1>13, <1>14 DEF TokenInv
<1> QED BY <1>1, <1>2, <1>3, <1>8, <1>15, TokensSuffice

LEMMA DelSetKeepsInv ==
  ASSUME AccountsInv, NEW r \in AcctThreads, DelSet(r)
  PROVE  AccountsInv'
<1> DEFINE w == areq[r].who
<1>1. /\ areq[r].pc = "delset" /\ Now(r, Free0) /\ userRt' = [userRt EXCEPT ![w] = {}] /\ ended' = ended \cup areq[r].owed
      /\ UNCHANGED <<acctAsked, rt, slipped>> /\ unchangedTables /\ unchangedHistory
  BY DEF DelSet, At0, Leaves
<1>2. w \in Persons /\ areq[r].lib = Nobody /\ acctAsked \in 0..MaxAcctRequests /\ areq[r].owed \subseteq Tokens
  BY <1>1, InHand DEF Records
<1>3. Carries(Free0) /\ Free0 \in Records /\ Free0.pc = "idle" /\ Free0.lib = areq[r].lib /\ Free0.owed = {}
  BY <1>2, FreeTyped DEF Carries
<1>4. RequestIs(r, Free0) BY <1>1, <1>3, NowTyped DEF AccountsInv, Types
<1>5. userRt'[w] = {} /\ \A u \in Persons \ {w} : userRt'[u] = userRt[u] BY <1>1, <1>2, TokenFacts
<1>6. \A x : Indexing(x)' <=> Indexing(x) BY <1>1, <1>3, <1>4 DEF Indexing, RequestIs
<1>7. \A x, u : IndexedBy(x, u)' <=> IndexedBy(x, u) BY <1>1, <1>3, <1>4 DEF IndexedBy, RequestIs
<1>8. TokenTypes' BY <1>1, <1>2, TokenFacts DEF TokenTypes
<1>9. \A x \in Tokens : rt[x] = w => x \in slipped \/ Indexing(x)
  BY <1>1, TokenFacts DEF NoneIsMissed
<1>10. TokensAreIndexed'
  <2> SUFFICES ASSUME NEW x \in Tokens, NEW u \in Persons, rt[x] = u
               PROVE  x \in slipped \/ x \in userRt'[u] \/ IndexedBy(x, u)
    BY <1>1, <1>7 DEF TokensAreIndexed
  <2>1. CASE u # w BY <1>5, <2>1, TokenFacts DEF TokensAreIndexed
  <2>2. CASE u = w /\ Indexing(x)
    BY <2>2, TokenFacts DEF Indexing, IndexedBy, IndexesItsOwn
  <2> QED BY <1>9, <2>1, <2>2
<1>11. IndexesItsOwn' /\ RevokedIsGone'
  BY <1>1, <1>3, <1>4, TokenFacts DEF IndexesItsOwn, RevokedIsGone, RequestIs
<1>12. NoneIsMissed' BY <1>1, <1>3, <1>4, <1>6, TokenFacts DEF NoneIsMissed, RequestIs
<1>13. OwedAreCovered'
  <2>1. \A s \in AcctThreads : areq'[s].owed = {} \/ areq'[s] = areq[s] BY <1>3, <1>4 DEF RequestIs
  <2> QED BY <1>1, <1>6, <2>1, TokenFacts DEF OwedAreCovered
<1>14. LogoutEndsEarlier'
  <2>1. \A k \in areq[r].owed : rt[k] = Nobody BY <1>2, <1>9, TokenFacts DEF OwedAreCovered
  <2> QED BY <1>1, <2>1, TokenFacts DEF LogoutEndsEarlier
<1>15. TokenInv' BY <1>10, <1>11, <1>12, <1>13, <1>14 DEF TokenInv
<1> QED BY <1>1, <1>2, <1>3, <1>8, <1>15, TokensSuffice

(* Libraries.                                                              *)
LEMMA OwnersSuffice ==
  ASSUME AccountsInv, UNCHANGED <<users, acked, mixed>>, unchangedTokens, RequestTypes', AccountTypes', OwnersJoined',
         \A s \in AcctThreads : \/ areq'[s] = areq[s]
                                \/ {areq[s].pc, areq'[s].pc} = {"idle", "member"} /\ areq'[s].owed = {}
  PROVE  AccountsInv'
<1>1. TokenTypes' BY DEF AccountsInv, Types, TokenTypes, unchangedTokens
<1>2. RoleInv' /\ UserRowInv' BY RolesKept DEF AccountsInv
<1>3. TokenInv' BY TokensKept DEF AccountsInv, unchangedTokens, TokenSteps
<1> QED BY <1>1, <1>2, <1>3 DEF AccountsInv, Types

LEMMA CreateLibraryKeepsInv ==
  ASSUME AccountsInv, NEW r \in AcctThreads, NEW l \in Libraries, NEW u \in Persons, CreateLibrary(r, l, u)
  PROVE  AccountsInv'
<1> DEFINE q == [Free0 EXCEPT !.pc = "member", !.who = u, !.lib = l]
<1>1. /\ Ask(r, q) /\ owner' = [owner EXCEPT ![l] = u]
      /\ UNCHANGED <<users, members>> /\ unchangedTokens /\ unchangedHistory
  BY DEF CreateLibrary
<1>2. q \in Records /\ Carries(q) /\ q.pc = "member" /\ q.owed = {} /\ q.lib = l
  BY DEF Free0, Records, AcctPcs, Carries
<1> HIDE DEF q
<1>3. Now(r, q) /\ acctAsked' \in 0..MaxAcctRequests /\ areq[r].pc = "idle" /\ areq[r].lib = Nobody
  BY <1>1, AskedTyped
<1>4. RequestTypes' /\ RequestIs(r, q) BY <1>2, <1>3, NowTyped DEF AccountsInv, Types
<1>5. UNCHANGED <<users, acked, mixed, members, bare>> BY <1>1 DEF unchangedHistory
<1>6. AccountTypes' BY <1>1, <1>3, <1>5, AccountConstants DEF AccountsInv, Types, AccountTypes
<1>7. OwnersJoined'
  <2> SUFFICES ASSUME NEW m \in Libraries, owner'[m] # Nobody, m \notin bare, \A s \in AcctThreads : areq'[s].lib # m
               PROVE  members[m][owner'[m]] = "owner"
    BY <1>5 DEF OwnersJoined
  <2>1. m # l BY <1>2, <1>4 DEF RequestIs
  <2>2. owner'[m] = owner[m] BY <1>1, <2>1 DEF AccountsInv, Types, AccountTypes
  <2>3. \A s \in AcctThreads : areq[s].lib # m BY <1>3, <1>4, AccountConstants DEF RequestIs
  <2> QED BY <2>2, <2>3 DEF AccountsInv, OwnersJoined
<1>8. \A s \in AcctThreads : \/ areq'[s] = areq[s]
                             \/ {areq[s].pc, areq'[s].pc} = {"idle", "member"} /\ areq'[s].owed = {}
  BY <1>2, <1>3, <1>4 DEF RequestIs
<1> QED BY <1>1, <1>4, <1>5, <1>6, <1>7, <1>8, OwnersSuffice

LEMMA OwnerJoinsKeepsInv ==
  ASSUME AccountsInv, NEW r \in AcctThreads, NEW works \in BOOLEAN, OwnerJoins(r, works)
  PROVE  AccountsInv'
<1> DEFINE l == areq[r].lib
           u == areq[r].who
<1>1. /\ areq[r].pc = "member" /\ Now(r, Free0)
      /\ UNCHANGED <<acctAsked, users, owner, acked, mixed>> /\ unchangedTokens
      /\ \/ /\ owner[l] = u /\ members' = [members EXCEPT ![l][u] = "owner"] /\ bare' = bare
         \/ bare' = bare \cup {l} /\ members' = members
  BY DEF OwnerJoins, At0, Leaves
<1>2. l \in Libraries /\ u \in Persons BY <1>1, InHand DEF Carries
<1>3. Carries(Free0) /\ Free0 \in Records /\ Free0.pc = "idle" /\ Free0.owed = {} /\ Free0.lib = Nobody
  BY FreeTyped DEF Carries
<1>4. RequestTypes' /\ RequestIs(r, Free0) BY <1>1, <1>3, NowTyped DEF AccountsInv, Types
<1>5. AccountTypes'
  <2>0. members \in [Libraries -> [Persons -> LibRoles \cup {Nobody}]] /\ "owner" \in LibRoles
    BY DEF AccountsInv, Types, AccountTypes, LibRoles
  <2>1. members' \in [Libraries -> [Persons -> LibRoles \cup {Nobody}]] BY <1>1, <1>2, <2>0
  <2>2. \A m \in Libraries, v \in Persons : members'[m][v] = members[m][v] \/ owner[m] # Nobody
    BY <1>1, <1>2, <2>0, AccountConstants
  <2> QED BY <1>1, <2>1, <2>2 DEF AccountsInv, Types, AccountTypes
<1>6. OwnersJoined'
  <2> SUFFICES ASSUME NEW m \in Libraries, owner[m] # Nobody, m \notin bare', \A s \in AcctThreads : areq'[s].lib # m
               PROVE  members'[m][owner[m]] = "owner"
    BY <1>1 DEF OwnersJoined
  <2>1. CASE m = l BY <1>1, <1>2, <2>1 DEF AccountsInv, Types, AccountTypes
  <2>2. CASE m # l
    <3>1. \A s \in AcctThreads : areq[s].lib # m BY <1>4, <2>2 DEF RequestIs
    <3>2. m \notin bare /\ members'[m] = members[m] BY <1>1, <2>2 DEF AccountsInv, Types, AccountTypes
    <3> QED BY <3>1, <3>2 DEF AccountsInv, OwnersJoined
  <2> QED BY <2>1, <2>2
<1>7. \A s \in AcctThreads : \/ areq'[s] = areq[s]
                             \/ {areq[s].pc, areq'[s].pc} = {"idle", "member"} /\ areq'[s].owed = {}
  BY <1>1, <1>3, <1>4 DEF RequestIs
<1> QED BY <1>1, <1>4, <1>5, <1>6, <1>7, OwnersSuffice

(* The owner's own row is out of reach of the member requests.             *)
LEMMA MemberRowKeepsInv ==
  ASSUME AccountsInv, NEW l \in Libraries, NEW by \in Persons, NEW u \in Persons, Manages(l, by),
         NEW role \in LibRoles \cup {Nobody}, members' = [members EXCEPT ![l][u] = role],
         u # owner[l] \/ members[l][u] = Nobody, (\A r \in AcctThreads : areq[r].lib # l) \/ u # owner[l]
  PROVE  AccountsInv'
<1>1. /\ UNCHANGED <<areq, acctAsked, users, owner>> /\ unchangedTokens /\ unchangedHistory
      /\ owner[l] = by
  BY DEF Manages, IsOwner
<1>2. UNCHANGED <<acked, mixed, bare>> BY <1>1 DEF unchangedHistory
<1>3. RequestTypes' BY <1>1 DEF AccountsInv, Types, RequestTypes, Carries
<1>4. AccountTypes'
  <2>1. members' \in [Libraries -> [Persons -> LibRoles \cup {Nobody}]]
    BY DEF AccountsInv, Types, AccountTypes
  <2>2. \A m \in Libraries, v \in Persons : members'[m][v] = members[m][v] \/ owner[m] # Nobody
    BY <1>1, AccountConstants DEF AccountsInv, Types, AccountTypes
  <2> QED BY <1>1, <1>2, <2>1, <2>2 DEF AccountsInv, Types, AccountTypes
<1>5. OwnersJoined'
  <2> SUFFICES ASSUME NEW m \in Libraries, owner[m] # Nobody, m \notin bare, \A s \in AcctThreads : areq[s].lib # m
               PROVE  members'[m][owner[m]] = "owner"
    BY <1>1, <1>2 DEF OwnersJoined
  <2>1. members[m][owner[m]] = "owner" /\ owner[m] \in Persons
    BY DEF AccountsInv, OwnersJoined, Types, AccountTypes
  <2>2. "owner" # Nobody BY AccountConstants DEF LibRoles
  <2> QED BY <2>1, <2>2 DEF AccountsInv, Types, AccountTypes
<1>6. \A s \in AcctThreads : areq'[s] = areq[s] BY <1>1
<1> QED BY <1>1, <1>2, <1>3, <1>4, <1>5, <1>6, OwnersSuffice

LEMMA MembersKeepInv ==
  ASSUME AccountsInv, NEW l \in Libraries, NEW u \in Persons, NEW v \in Persons,
         \/ RemoveMember(l, u, v)
         \/ \E role \in LibRoles \ {"owner"} : AddMember(l, u, v, role) \/ UpdateMemberRole(l, u, v, role)
  PROVE  AccountsInv'
<1>1. CASE RemoveMember(l, u, v) BY <1>1, MemberRowKeepsInv DEF RemoveMember, IsTarget
<1>2. ASSUME NEW role \in LibRoles \ {"owner"}, AddMember(l, u, v, role) PROVE AccountsInv'
  BY <1>2, MemberRowKeepsInv DEF AddMember
<1>3. ASSUME NEW role \in LibRoles \ {"owner"}, UpdateMemberRole(l, u, v, role) PROVE AccountsInv'
  BY <1>3, MemberRowKeepsInv DEF UpdateMemberRole, IsTarget
<1> QED BY <1>1, <1>2, <1>3

LEMMA LibraryGoneKeepsInv ==
  ASSUME AccountsInv, NEW l \in Libraries, LibraryGone(l)
  PROVE  AccountsInv'
<1>1. /\ owner' = [owner EXCEPT ![l] = Nobody]
      /\ members' = [members EXCEPT ![l] = [u \in Persons |-> Nobody]] /\ bare' = bare \ {l}
      /\ UNCHANGED <<users, areq, acctAsked, acked, mixed>> /\ unchangedTokens
  BY DEF LibraryGone
<1>2. RequestTypes' BY <1>1 DEF AccountsInv, Types, RequestTypes, Carries
<1>3. AccountTypes' BY <1>1 DEF AccountsInv, Types, AccountTypes
<1>4. OwnersJoined'
  <2> SUFFICES ASSUME NEW m \in Libraries, owner'[m] # Nobody, m \notin bare', \A s \in AcctThreads : areq[s].lib # m
               PROVE  members'[m][owner'[m]] = "owner"
    BY <1>1 DEF OwnersJoined
  <2>1. m # l BY <1>1 DEF AccountsInv, Types, AccountTypes
  <2>2. owner'[m] = owner[m] /\ members'[m] = members[m] /\ m \notin bare
    BY <1>1, <2>1 DEF AccountsInv, Types, AccountTypes
  <2> QED BY <2>2 DEF AccountsInv, OwnersJoined
<1>5. \A s \in AcctThreads : areq'[s] = areq[s] BY <1>1
<1> QED BY <1>1, <1>2, <1>3, <1>4, <1>5, OwnersSuffice

LEMMA StutterKeepsInv == AccountsInv /\ UNCHANGED acctVars => AccountsInv'
<1> SUFFICES ASSUME AccountsInv, UNCHANGED acctVars PROVE AccountsInv' OBVIOUS
<1> USE DEF AccountsInv, Types, acctVars
<1>1. RequestTypes' BY DEF RequestTypes, Carries
<1>2. AccountTypes' /\ TokenTypes' BY DEF AccountTypes, TokenTypes
<1>3. RoleInv' /\ UserRowInv' BY RolesKept
<1>4. TokenInv' BY TokensKept
<1>5. OwnersJoined' BY OwnersKept
<1> QED BY <1>1, <1>2, <1>3, <1>4, <1>5

LEMMA AccountsStep == AccountsInv /\ [AccountsNext]_acctVars => AccountsInv'
<1> SUFFICES ASSUME AccountsInv, [AccountsNext]_acctVars PROVE AccountsInv' OBVIOUS
<1>1. ASSUME NEW r \in AcctThreads, AcctStep(r) PROVE AccountsInv'
  <2>1. ASSUME NEW u \in Persons, AskRegister(r, u) \/ AskLogin(r, u) \/ AskLogout(r, u) PROVE AccountsInv'
    BY <2>1, AskRegisterKeepsInv, AskLoginKeepsInv, AskLogoutKeepsInv
  <2>2. ASSUME NEW k \in Tokens, AskRefresh(r, k) PROVE AccountsInv' BY <2>2, AskRefreshKeepsInv
  <2>3. CASE CountUsers(r) \/ InsertUser(r) BY <2>3, CountUsersKeepsInv, InsertUserKeepsInv
  <2>4. CASE StoreToken(r) \/ IndexToken(r) BY <2>4, StoreTokenKeepsInv, IndexTokenKeepsInv
  <2>5. CASE RevokeToken(r) \/ UnindexToken(r) \/ FindUser(r)
    BY <2>5, RevokeTokenKeepsInv, UnindexTokenKeepsInv, FindUserKeepsInv
  <2>6. CASE SMembers(r) \/ DelKeys(r) \/ DelSet(r)
    BY <2>6, SMembersKeepsInv, DelKeysKeepsInv, DelSetKeepsInv
  <2>7. CASE WriteUser(r) BY <2>7, WriteUserKeepsInv
  <2>8. ASSUME NEW u \in Persons, ChangePassword(r, u, "new") PROVE AccountsInv'
    BY <2>8, ChangePasswordKeepsInv
  <2>9. ASSUME NEW u \in Persons, NEW v \in Persons, NEW role \in GlobalRoles, UpdateUserRole(r, u, v, role)
        PROVE  AccountsInv'
    BY <2>9, UpdateUserRoleKeepsInv
  <2>10. ASSUME NEW l \in Libraries, NEW u \in Persons, CreateLibrary(r, l, u) PROVE AccountsInv'
    BY <2>10, CreateLibraryKeepsInv
  <2>11. ASSUME NEW works \in BOOLEAN, OwnerJoins(r, works) PROVE AccountsInv' BY <2>11, OwnerJoinsKeepsInv
  <2> QED BY <1>1, <2>1, <2>2, <2>3, <2>4, <2>5, <2>6, <2>7, <2>8, <2>9, <2>10, <2>11 DEF AcctStep
<1>2. ASSUME NEW l \in Libraries, NEW u \in Persons, NEW v \in Persons,
             \/ RemoveMember(l, u, v)
             \/ \E role \in LibRoles \ {"owner"} : AddMember(l, u, v, role) \/ UpdateMemberRole(l, u, v, role)
      PROVE  AccountsInv'
  BY <1>2, MembersKeepInv
<1>3. ASSUME NEW l \in Libraries, LibraryGone(l) PROVE AccountsInv' BY <1>3, LibraryGoneKeepsInv
<1> QED BY <1>1, <1>2, <1>3, StutterKeepsInv DEF AccountsNext

(* Once there are users somebody administers; changed passwords and roles  *)
(* stay changed unless two changes overlapped; a logout ends every token   *)
(* issued before it; owners see their libraries (auth.go, user.go,         *)
(* admin.go, library.go).                                                  *)
THEOREM AccountsAreSound == AccountsSpec => []AccountsSound
BY InitAccounts, AccountsStep, InvImpliesSound, PTL DEF AccountsSpec

LEMMA SuperAdminsStep ==
  AccountsInv /\ [AccountsNext]_acctVars =>
    [\A u \in Persons : users[u] # Nobody /\ users[u].role = "superadmin" => users'[u].role = "superadmin"]_acctVars
<1>1. ASSUME AccountsInv, AccountsNext, NEW v \in Persons, users[v] # Nobody, users[v].role = "superadmin"
      PROVE  users'[v].role = "superadmin"
  <2>0. \/ users' = users
        \/ \E r \in AcctThreads : InsertUser(r) \/ WriteUser(r)
    BY <1>1 DEF AccountsNext, AcctStep, AskRegister, AskLogin, AskLogout, AskRefresh, CountUsers, StoreToken, IndexToken,
                RevokeToken, UnindexToken, FindUser, SMembers, DelKeys, DelSet, ChangePassword, UpdateUserRole, Reads,
                CreateLibrary, OwnerJoins, RemoveMember, AddMember, UpdateMemberRole, Manages, LibraryGone, unchangedTables
  <2>1. ASSUME NEW r \in AcctThreads, InsertUser(r) PROVE users'[v].role = "superadmin"
    BY <1>1, <2>1 DEF InsertUser, AccountsInv, Types, AccountTypes
  <2>2. ASSUME NEW r \in AcctThreads, WriteUser(r) PROVE users'[v].role = "superadmin"
    BY <1>1, <2>2 DEF WriteUser, WholeRow, At0, AccountsInv, RoleInv, WritesRightly, Types, AccountTypes
  <2> QED BY <1>1, <2>0, <2>1, <2>2
<1> QED BY <1>1

(* No request takes a superadmin's role, not even one whose copy of the    *)
(* row is older than the role's last change (admin.go, UpdateUserRole;     *)
(* user.go, ChangePassword).                                               *)
THEOREM SuperAdminsAreSafe == AccountsSpec => SuperAdminsStay
BY SuperAdminsStep, InitAccounts, AccountsStep, PTL DEF AccountsSpec, SuperAdminsStay

-----------------------------------------------------------------------------
(* The values in memory.                                                   *)

Entries == [value : 0..MaxWrites, at : 0..MaxClock]
Replies == CacheKeys \X (0..MaxWrites)
Readers == [pc : {"idle", "lock", "query", "store"}, keys : SUBSET CacheKeys,
            stale : SUBSET (CacheKeys \cup Replies), since : 0..MaxClock]
TableTypes  == /\ setting \in [CacheKeys -> 0..MaxWrites] /\ changed \in [CacheKeys -> 0..MaxClock]
               /\ time \in 0..MaxClock /\ written \in 0..MaxWrites
MemoryTypes == /\ cached \in [CacheKeys -> Entries \cup {NoEntry}]
               /\ refreshing \subseteq CacheKeys /\ failed \subseteq CacheKeys
               /\ reader \in [ReadThreads -> Readers]

(* A goroutine holds keys from when it marked them until it stores them,   *)
(* which is no later than its timeout.                                     *)
Refreshing(r) == reader[r].pc \in {"query", "store"}
RefreshesEnd == \A r \in ReadThreads :
    /\ ~Refreshing(r) => reader[r].keys = {}
    /\ reader[r].pc = "lock" => reader[r].stale \subseteq CacheKeys
    /\ Refreshing(r) => reader[r].since <= time /\ time <= reader[r].since + QueryTime

(* What a query brought is what the table says, or was overtaken since.    *)
Current(r) == \A k \in reader[r].keys :
    /\ \E kv \in reader[r].stale : kv[1] = k
    /\ \A kv \in reader[r].stale : kv[1] = k =>
          kv \in Replies /\ (kv[2] = setting[k] \/ reader[r].since <= changed[k])
AnswersAreCurrent == \A r \in ReadThreads : reader[r].pc = "store" => Current(r)

(* So is an entry: it is the table's, or not much younger than the change. *)
EntryCurrent(k) == cached[k] # NoEntry =>
    /\ cached[k].at <= time
    /\ k \notin failed => cached[k].value = setting[k] \/ cached[k].at <= changed[k] + QueryTime
EntriesAreCurrent == \A k \in CacheKeys : EntryCurrent(k) /\ changed[k] <= time

CacheInv == /\ TableTypes /\ MemoryTypes /\ RefreshIsShared /\ RefreshesEnd
            /\ AnswersAreCurrent /\ EntriesAreCurrent

LEMMA InvImpliesCacheSound == CacheInv => CacheSound
<1> SUFFICES ASSUME CacheInv PROVE CacheSound OBVIOUS
<1> USE DEF CacheInv
<1>1. CacheTypeOK BY DEF TableTypes, MemoryTypes, Entries, Readers, CacheTypeOK
<1>2. ChangesApplyInTime
  <2> SUFFICES ASSUME NEW k \in CacheKeys \ failed, FreshEntry(k),
                      time - changed[k] >= TTL + QueryTime
               PROVE  cached[k].value = setting[k]
    BY DEF ChangesApplyInTime
  <2>1. /\ cached[k] # NoEntry /\ time - cached[k].at < TTL BY DEF FreshEntry
  <2>2. /\ cached[k].at \in Nat /\ time \in Nat /\ changed[k] \in Nat /\ TTL \in Nat /\ QueryTime \in Nat
    BY <2>1, CacheConstants DEF TableTypes, MemoryTypes, Entries
  <2>3. ~(cached[k].at <= changed[k] + QueryTime) BY <2>1, <2>2
  <2> QED BY <2>1, <2>3 DEF EntriesAreCurrent, EntryCurrent
<1> QED BY <1>1, <1>2 DEF CacheSound

LEMMA IdlingTyped == Idling \in Readers /\ Idling.pc = "idle" /\ Idling.keys = {}
BY CacheConstants DEF Idling, Readers

LEMMA InitCache == CacheInit => CacheInv
<1> SUFFICES ASSUME CacheInit PROVE CacheInv OBVIOUS
<1> USE CacheConstants DEF CacheInit
<1>1. TableTypes /\ MemoryTypes BY IdlingTyped DEF TableTypes, MemoryTypes
<1>2. RefreshIsShared BY IdlingTyped DEF RefreshIsShared
<1>3. RefreshesEnd /\ AnswersAreCurrent BY IdlingTyped DEF RefreshesEnd, AnswersAreCurrent, Refreshing
<1>4. EntriesAreCurrent
  <2>1. \A k \in CacheKeys : cached[k] = NoEntry /\ changed[k] = 0 /\ time = 0 OBVIOUS
  <2>2. 0 <= 0 OBVIOUS
  <2> QED BY <2>1, <2>2 DEF EntriesAreCurrent, EntryCurrent
<1> QED BY <1>1, <1>2, <1>3, <1>4 DEF CacheInv

LEMMA SaveKeepsInv ==
  ASSUME CacheInv, NEW keys \in SUBSET CacheKeys, SaveSettings(keys)
  PROVE  CacheInv'
<1> USE CacheConstants DEF CacheInv
<1>0. /\ UNCHANGED <<cached, refreshing, reader, time, failed>> /\ written < MaxWrites /\ written' = written + 1
      /\ setting' = [k \in CacheKeys |-> IF k \in keys THEN written + 1 ELSE setting[k]]
      /\ changed' = [k \in CacheKeys |-> IF k \in keys THEN time ELSE changed[k]]
  BY DEF SaveSettings
<1>1. \A k \in CacheKeys : \/ setting'[k] = setting[k] /\ changed'[k] = changed[k]
                           \/ changed'[k] = time
  BY <1>0
<1>2. TableTypes' BY <1>0 DEF TableTypes
<1>3. MemoryTypes' /\ RefreshIsShared' /\ RefreshesEnd'
  BY <1>0 DEF MemoryTypes, RefreshIsShared, RefreshesEnd, Refreshing
<1>4. AnswersAreCurrent'
  <2> SUFFICES ASSUME NEW r \in ReadThreads, reader[r].pc = "store" PROVE Current(r)'
    BY <1>0 DEF AnswersAreCurrent
  <2>1. Current(r) /\ reader[r].since <= time /\ reader[r].keys \subseteq CacheKeys
    BY DEF AnswersAreCurrent, RefreshesEnd, Refreshing, MemoryTypes, Readers
  <2> QED BY <1>0, <1>1, <2>1 DEF Current
<1>5. EntriesAreCurrent'
  <2> SUFFICES ASSUME NEW k \in CacheKeys PROVE EntryCurrent(k)' /\ changed'[k] <= time'
    BY DEF EntriesAreCurrent
  <2>1. EntryCurrent(k) /\ changed[k] <= time BY DEF EntriesAreCurrent
  <2>2. cached[k] # NoEntry => cached[k].at \in Nat BY DEF MemoryTypes, Entries
  <2>3. time \in Nat BY DEF TableTypes
  <2> QED BY <1>0, <1>1, <2>1, <2>2, <2>3 DEF EntryCurrent
<1> QED BY <1>2, <1>3, <1>4, <1>5

(* A step of reader r leaves the table and the other readers alone.        *)
TableKept == setting' = setting /\ changed' = changed /\ written' = written /\ time' = time
OthersKept(r) == \A s \in ReadThreads \ {r} : reader'[s] = reader[s]

LEMMA ReaderSuffices ==
  ASSUME CacheInv, NEW r \in ReadThreads, TableKept, OthersKept(r),
         ~Refreshing(r)' => reader'[r].keys = {},
         reader'[r].pc = "lock" => reader'[r].stale \subseteq CacheKeys,
         Refreshing(r)' => reader'[r].since <= time /\ time <= reader'[r].since + QueryTime,
         reader'[r].pc = "store" => Current(r)'
  PROVE  TableTypes' /\ RefreshesEnd' /\ AnswersAreCurrent'
<1> USE DEF CacheInv, TableKept, OthersKept
<1>1. TableTypes' BY DEF TableTypes
<1>2. RefreshesEnd' BY DEF RefreshesEnd, Refreshing
<1>3. AnswersAreCurrent'
  <2> SUFFICES ASSUME NEW s \in ReadThreads \ {r}, reader'[s].pc = "store" PROVE Current(s)'
    BY DEF AnswersAreCurrent
  <2>1. reader'[s] = reader[s] /\ Current(s) BY DEF AnswersAreCurrent
  <2> QED BY <2>1 DEF Current
<1> QED BY <1>1, <1>2, <1>3

(* Refreshes stay shared when r marks keys nobody refreshes, and when it   *)
(* gives up the ones it holds.                                             *)
LEMMA MarkingShares ==
  ASSUME CacheInv, NEW r \in ReadThreads, OthersKept(r), reader[r].keys = {},
         NEW keys, keys \cap refreshing = {}, reader'[r].keys = keys, refreshing' = refreshing \cup keys
  PROVE  RefreshIsShared'
<1> USE DEF CacheInv, OthersKept
<1>1. \A s \in ReadThreads \ {r} : reader'[s].keys = reader[s].keys /\ reader[s].keys \cap keys = {}
  BY DEF RefreshIsShared
<1>2. ASSUME NEW s \in ReadThreads, NEW t \in ReadThreads, s # t
      PROVE  reader'[s].keys \cap reader'[t].keys = {}
  <2>1. s # r /\ t # r => reader[s].keys \cap reader[t].keys = {} BY <1>2 DEF RefreshIsShared
  <2> QED BY <1>1, <1>2, <2>1
<1>3. UNION {reader'[s].keys : s \in ReadThreads} = (UNION {reader[s].keys : s \in ReadThreads}) \cup keys
  BY <1>1
<1> QED BY <1>2, <1>3 DEF RefreshIsShared

LEMMA ReleasingShares ==
  ASSUME CacheInv, NEW r \in ReadThreads, OthersKept(r), reader'[r].keys = {},
         refreshing' = refreshing \ reader[r].keys
  PROVE  RefreshIsShared'
<1> USE DEF CacheInv, OthersKept
<1>1. \A s \in ReadThreads \ {r} : reader'[s].keys = reader[s].keys /\ reader[s].keys \cap reader[r].keys = {}
  BY DEF RefreshIsShared
<1>2. ASSUME NEW s \in ReadThreads, NEW t \in ReadThreads, s # t
      PROVE  reader'[s].keys \cap reader'[t].keys = {}
  <2>1. s # r /\ t # r => reader[s].keys \cap reader[t].keys = {} BY <1>2 DEF RefreshIsShared
  <2> QED BY <1>1, <1>2, <2>1
<1>3. UNION {reader'[s].keys : s \in ReadThreads} = (UNION {reader[s].keys : s \in ReadThreads}) \ reader[r].keys
  BY <1>1
<1> QED BY <1>2, <1>3 DEF RefreshIsShared

LEMMA LookKeepsInv ==
  ASSUME CacheInv, NEW r \in ReadThreads, NEW keys \in SUBSET CacheKeys, GetMany(r, keys)
  PROVE  CacheInv'
<1> USE DEF CacheInv
<1>0. /\ UNCHANGED <<cached, refreshing, failed>> /\ TableKept /\ reader[r].pc = "idle"
  BY DEF GetMany, unchangedByReads, TableKept
<1>1. PICK stale \in SUBSET CacheKeys : reader' = [reader EXCEPT ![r] = [Idling EXCEPT !.pc = "lock", !.stale = stale]]
  BY DEF GetMany
<1>2. [Idling EXCEPT !.pc = "lock", !.stale = stale] \in Readers
  BY IdlingTyped DEF Readers
<1>3. /\ reader'[r].pc = "lock" /\ reader'[r].keys = {} /\ OthersKept(r) /\ reader'[r].stale \subseteq CacheKeys
  BY <1>1 DEF MemoryTypes, OthersKept, Idling
<1>4. MemoryTypes' BY <1>0, <1>1, <1>2 DEF MemoryTypes
<1>5. TableTypes' /\ RefreshesEnd' /\ AnswersAreCurrent'
  BY <1>0, <1>3, ReaderSuffices DEF Refreshing
<1>6. RefreshIsShared'
  <2>1. reader[r].keys = {} BY <1>0 DEF RefreshesEnd, Refreshing
  <2>2. \A s \in ReadThreads : reader'[s].keys = reader[s].keys BY <1>3, <2>1 DEF OthersKept
  <2> QED BY <1>0, <2>2 DEF RefreshIsShared
<1>7. EntriesAreCurrent' BY <1>0 DEF EntriesAreCurrent, EntryCurrent, TableKept
<1> QED BY <1>4, <1>5, <1>6, <1>7

LEMMA TakeKeepsInv ==
  ASSUME CacheInv, NEW r \in ReadThreads, TakeKeys(r)
  PROVE  CacheInv'
<1> USE DEF CacheInv
<1> DEFINE keys == ToQuery(reader[r].stale)
<1>0. /\ UNCHANGED <<cached, failed>> /\ TableKept /\ reader[r].pc = "lock"
      /\ refreshing' = refreshing \cup keys
      /\ reader' = [reader EXCEPT ![r] = IF keys = {} THEN Idling
                                         ELSE [Idling EXCEPT !.pc = "query", !.keys = keys, !.since = time]]
  BY DEF TakeKeys, unchangedByReads, TableKept
<1>1. keys \cap refreshing = {} BY DEF ToQuery
<1>2. keys \subseteq CacheKeys BY <1>0 DEF ToQuery, RefreshesEnd
<1> HIDE DEF keys
<1>3. OthersKept(r) BY <1>0 DEF MemoryTypes, OthersKept
<1>4. reader'[r] = IF keys = {} THEN Idling ELSE [Idling EXCEPT !.pc = "query", !.keys = keys, !.since = time]
  BY <1>0 DEF MemoryTypes
<1>5. /\ reader'[r].keys = keys /\ reader'[r] \in Readers
      /\ \/ reader'[r].pc = "idle" /\ keys = {}
         \/ reader'[r].pc = "query" /\ reader'[r].since = time
  <2>1. CASE keys = {} BY <1>4, <2>1, IdlingTyped
  <2>2. CASE keys # {}
    <3>1. reader'[r] = [pc |-> "query", keys |-> keys, stale |-> {}, since |-> time]
      BY <1>4, <2>2 DEF Idling
    <3> QED BY <3>1, <1>2 DEF TableTypes, Readers
  <2> QED BY <2>1, <2>2
<1>6. MemoryTypes' BY <1>0, <1>2, <1>5 DEF MemoryTypes
<1>7. TableTypes' /\ RefreshesEnd' /\ AnswersAreCurrent'
  <2>1. time \in Nat /\ time <= time + QueryTime BY CacheConstants DEF TableTypes
  <2> QED BY <1>0, <1>3, <1>5, <2>1, ReaderSuffices DEF Refreshing
<1>8. RefreshIsShared'
  <2>1. reader[r].keys = {} BY <1>0 DEF RefreshesEnd, Refreshing
  <2> QED BY <1>0, <1>1, <1>3, <1>5, <2>1, MarkingShares
<1>9. EntriesAreCurrent' BY <1>0 DEF EntriesAreCurrent, EntryCurrent, TableKept
<1> QED BY <1>6, <1>7, <1>8, <1>9

LEMMA QueryKeepsInv ==
  ASSUME CacheInv, NEW r \in ReadThreads, Query(r)
  PROVE  CacheInv'
<1> USE DEF CacheInv
<1> DEFINE answers == {<<k, setting[k]>> : k \in reader[r].keys}
<1>0. /\ UNCHANGED <<cached, refreshing, failed>> /\ TableKept /\ reader[r].pc = "query"
      /\ reader' = [reader EXCEPT ![r].pc = "store", ![r].stale = answers]
  BY DEF Query, unchangedByReads, TableKept
<1>1. reader[r].keys \subseteq CacheKeys /\ reader[r] \in Readers BY DEF MemoryTypes, Readers
<1>2. answers \subseteq Replies BY <1>1 DEF Replies, TableTypes
<1>3. /\ reader'[r].pc = "store" /\ reader'[r].stale = answers /\ OthersKept(r)
      /\ reader'[r].keys = reader[r].keys /\ reader'[r].since = reader[r].since
  BY <1>0, <1>1 DEF MemoryTypes, OthersKept, Readers
<1>4. Current(r)'
  <2>1. \A k \in reader[r].keys : <<k, setting[k]>> \in answers OBVIOUS
  <2>2. \A kv \in answers : kv[2] = setting[kv[1]] OBVIOUS
  <2>3. /\ reader'[r].stale = answers /\ reader'[r].keys = reader[r].keys /\ setting' = setting
    BY <1>0, <1>3 DEF TableKept
  <2> HIDE DEF answers
  <2>4. ASSUME NEW k \in reader[r].keys
        PROVE  /\ \E kv \in answers : kv[1] = k
               /\ \A kv \in answers : kv[1] = k => kv \in Replies /\ kv[2] = setting[k]
    BY <1>2, <2>1, <2>2
  <2> QED BY <2>3, <2>4 DEF Current
<1> HIDE DEF answers
<1>5. MemoryTypes'
  <2>1. [reader[r] EXCEPT !.pc = "store", !.stale = answers] \in Readers BY <1>1, <1>2 DEF Readers
  <2> QED BY <1>0, <2>1 DEF MemoryTypes
<1>6. TableTypes' /\ RefreshesEnd' /\ AnswersAreCurrent'
  <2>1. reader[r].since <= time /\ time <= reader[r].since + QueryTime BY <1>0 DEF RefreshesEnd, Refreshing
  <2> QED BY <1>0, <1>3, <1>4, <2>1, ReaderSuffices DEF Refreshing
<1>7. RefreshIsShared'
  <2>1. \A s \in ReadThreads : reader'[s].keys = reader[s].keys BY <1>3 DEF OthersKept
  <2>2. UNION {reader'[s].keys : s \in ReadThreads} = UNION {reader[s].keys : s \in ReadThreads} BY <2>1
  <2> QED BY <1>0, <2>1, <2>2 DEF RefreshIsShared
<1>8. EntriesAreCurrent' BY <1>0 DEF EntriesAreCurrent, EntryCurrent, TableKept
<1> QED BY <1>5, <1>6, <1>7, <1>8

(* A refresh that ends, well or badly, gives up its keys and turns their   *)
(* entries into current ones.                                              *)
LEMMA EndingKeepsInv ==
  ASSUME CacheInv, NEW r \in ReadThreads, TableKept,
         refreshing' = refreshing \ reader[r].keys,
         reader' = [reader EXCEPT ![r] = Idling],
         cached' \in [CacheKeys -> Entries \cup {NoEntry}], failed' \subseteq CacheKeys,
         \A k \in CacheKeys \ reader[r].keys : cached'[k] = cached[k] /\ (k \in failed' <=> k \in failed),
         \A k \in reader[r].keys : EntryCurrent(k)'
  PROVE  CacheInv'
<1> USE DEF CacheInv
<1>1. reader'[r] = Idling /\ OthersKept(r) BY DEF MemoryTypes, OthersKept
<1>2. MemoryTypes' BY IdlingTyped DEF MemoryTypes
<1>3. TableTypes' /\ RefreshesEnd' /\ AnswersAreCurrent'
  BY <1>1, IdlingTyped, ReaderSuffices DEF Refreshing
<1>4. RefreshIsShared' BY <1>1, IdlingTyped, ReleasingShares
<1>5. EntriesAreCurrent'
  <2> SUFFICES ASSUME NEW k \in CacheKeys \ reader[r].keys PROVE EntryCurrent(k)'
    BY DEF EntriesAreCurrent, TableKept
  <2> QED BY DEF EntriesAreCurrent, EntryCurrent, TableKept
<1> QED BY <1>2, <1>3, <1>4, <1>5

LEMMA StoreKeepsInv ==
  ASSUME CacheInv, NEW r \in ReadThreads, StoreKeys(r)
  PROVE  CacheInv'
<1> USE DEF CacheInv
<1> DEFINE answer(k) == (CHOOSE kv \in reader[r].stale : kv[1] = k)[2]
<1>0. /\ TableKept /\ reader[r].pc = "store" /\ refreshing' = refreshing \ reader[r].keys
      /\ cached' = [k \in CacheKeys |-> IF k \in reader[r].keys THEN Entry(answer(k)) ELSE cached[k]]
      /\ reader' = [reader EXCEPT ![r] = Idling] /\ failed' = failed \ reader[r].keys
  BY DEF StoreKeys, TableKept
<1>1. ASSUME NEW k \in reader[r].keys
      PROVE  answer(k) \in 0..MaxWrites /\ (answer(k) = setting[k] \/ reader[r].since <= changed[k])
  <2>1. Current(r) BY <1>0 DEF AnswersAreCurrent
  <2>2. PICK kv \in reader[r].stale : kv[1] = k BY <1>1, <2>1 DEF Current
  <2>3. (CHOOSE x \in reader[r].stale : x[1] = k) \in reader[r].stale /\ (CHOOSE x \in reader[r].stale : x[1] = k)[1] = k
    BY <2>2
  <2> QED BY <1>1, <2>1, <2>3 DEF Current, Replies
<1> HIDE DEF answer
<1>2. reader[r].keys \subseteq CacheKeys BY DEF MemoryTypes, Readers
<1>3. cached' \in [CacheKeys -> Entries \cup {NoEntry}]
  <2>1. \A k \in reader[r].keys : Entry(answer(k)) \in Entries BY <1>1 DEF Entry, Entries, TableTypes
  <2> QED BY <1>0, <2>1 DEF MemoryTypes
<1>4. ASSUME NEW k \in reader[r].keys PROVE EntryCurrent(k)'
  <2>1. cached'[k].value = answer(k) /\ cached'[k].at = time BY <1>0, <1>2 DEF Entry
  <2>2. time <= reader[r].since + QueryTime BY <1>0 DEF RefreshesEnd, Refreshing
  <2>3. /\ time \in Nat /\ reader[r].since \in Nat /\ changed[k] \in Nat /\ QueryTime \in Nat
    BY <1>2, CacheConstants DEF TableTypes, MemoryTypes, Readers
  <2>4. reader[r].since <= changed[k] => time <= changed[k] + QueryTime BY <2>2, <2>3
  <2>5. time <= time BY <2>3
  <2> QED BY <1>0, <1>1, <2>1, <2>4, <2>5 DEF EntryCurrent, TableKept
<1>5. \A k \in CacheKeys \ reader[r].keys : cached'[k] = cached[k] /\ (k \in failed' <=> k \in failed)
  BY <1>0
<1> QED BY <1>0, <1>3, <1>4, <1>5, EndingKeepsInv DEF MemoryTypes

LEMMA FailingKeepsInv ==
  ASSUME CacheInv, NEW r \in ReadThreads, QueryFails(r)
  PROVE  CacheInv'
<1> USE DEF CacheInv
<1> DEFINE old(k) == IF cached[k] = NoEntry THEN 0 ELSE cached[k].value
<1>0. /\ TableKept /\ reader[r].pc = "query" /\ refreshing' = refreshing \ reader[r].keys
      /\ cached' = [k \in CacheKeys |-> IF k \in reader[r].keys THEN Entry(old(k)) ELSE cached[k]]
      /\ reader' = [reader EXCEPT ![r] = Idling]
      /\ failed' = failed \cup {k \in reader[r].keys : cached'[k].value # setting[k]}
  BY DEF QueryFails, TableKept
<1>1. reader[r].keys \subseteq CacheKeys BY DEF MemoryTypes, Readers
<1>2. \A k \in reader[r].keys : old(k) \in 0..MaxWrites
  BY <1>1, CacheConstants DEF MemoryTypes, Entries
<1> HIDE DEF old
<1>3. cached' \in [CacheKeys -> Entries \cup {NoEntry}]
  <2>1. \A k \in reader[r].keys : Entry(old(k)) \in Entries BY <1>2 DEF Entry, Entries, TableTypes
  <2> QED BY <1>0, <2>1 DEF MemoryTypes
<1>4. ASSUME NEW k \in reader[r].keys PROVE EntryCurrent(k)'
  <2>1. cached'[k].at = time BY <1>0, <1>1 DEF Entry
  <2>2. k \notin failed' => cached'[k].value = setting[k] BY <1>0
  <2>3. time <= time BY DEF TableTypes
  <2> QED BY <1>0, <2>1, <2>2, <2>3 DEF EntryCurrent, TableKept
<1>5. /\ \A k \in CacheKeys \ reader[r].keys : cached'[k] = cached[k] /\ (k \in failed' <=> k \in failed)
      /\ failed' \subseteq CacheKeys
  BY <1>0, <1>1 DEF MemoryTypes
<1> QED BY <1>0, <1>3, <1>4, <1>5, EndingKeepsInv

LEMMA TimeKeepsInv ==
  ASSUME CacheInv, PassTime
  PROVE  CacheInv'
<1> USE DEF CacheInv
<1>0. /\ UNCHANGED <<setting, changed, failed, written, cached, refreshing, reader>>
      /\ time < MaxClock /\ time' = time + 1
      /\ \A r \in ReadThreads : Refreshing(r) => time < reader[r].since + QueryTime
  BY DEF PassTime, Refreshing
<1>1. time \in Nat /\ MaxClock \in Nat /\ QueryTime \in Nat BY CacheConstants DEF TableTypes
<1>2. TableTypes' BY <1>0, <1>1 DEF TableTypes
<1>3. MemoryTypes' /\ RefreshIsShared' BY <1>0 DEF MemoryTypes, RefreshIsShared
<1>4. RefreshesEnd'
  <2> SUFFICES ASSUME NEW r \in ReadThreads, Refreshing(r)
               PROVE  reader[r].since <= time' /\ time' <= reader[r].since + QueryTime
    BY <1>0 DEF RefreshesEnd, Refreshing
  <2>1. reader[r].since \in Nat BY DEF MemoryTypes, Readers
  <2> QED BY <1>0, <1>1, <2>1 DEF RefreshesEnd
<1>5. AnswersAreCurrent' BY <1>0 DEF AnswersAreCurrent, Current
<1>6. EntriesAreCurrent'
  <2> SUFFICES ASSUME NEW k \in CacheKeys PROVE EntryCurrent(k)' /\ changed'[k] <= time'
    BY DEF EntriesAreCurrent
  <2>1. EntryCurrent(k) /\ changed[k] <= time /\ changed[k] \in Nat BY DEF EntriesAreCurrent, TableTypes
  <2>2. cached[k] # NoEntry => cached[k].at \in Nat BY DEF MemoryTypes, Entries
  <2> QED BY <1>0, <1>1, <2>1, <2>2 DEF EntryCurrent
<1> QED BY <1>2, <1>3, <1>4, <1>5, <1>6

(* The cache keeps its promises for any keys, readers, TTL and timeout: one *)
(* goroutine refreshes a key at a time and a mark does not outlive its      *)
(* refresh, and a change is served within the TTL and one query             *)
(* (server.go, cachedSettings).                                             *)
THEOREM ChangesReachReaders == CacheSpec => []CacheSound
<1>1. CacheInv /\ [CacheNext]_cacheVars => CacheInv'
  <2> SUFFICES ASSUME CacheInv, [CacheNext]_cacheVars PROVE CacheInv' OBVIOUS
  <2>1. CASE UNCHANGED cacheVars
    BY <2>1 DEF CacheInv, cacheVars, TableTypes, MemoryTypes, RefreshIsShared, RefreshesEnd, AnswersAreCurrent,
                EntriesAreCurrent, Refreshing, Current, EntryCurrent
  <2>2. CASE \E keys \in SUBSET CacheKeys \ {{}} : SaveSettings(keys) BY <2>2, SaveKeepsInv
  <2>3. ASSUME NEW r \in ReadThreads,
               \/ \E keys \in SUBSET CacheKeys : GetMany(r, keys)
               \/ TakeKeys(r) \/ Query(r) \/ StoreKeys(r) \/ QueryFails(r)
        PROVE  CacheInv'
    BY <2>3, LookKeepsInv, TakeKeepsInv, QueryKeepsInv, StoreKeepsInv, FailingKeepsInv
  <2>4. CASE PassTime BY <2>4, TimeKeepsInv
  <2> QED BY <2>1, <2>2, <2>3, <2>4 DEF CacheNext
<1> QED BY InitCache, InvImpliesCacheSound, <1>1, PTL DEF CacheSpec

-----------------------------------------------------------------------------
(* Saves of the settings and what they bring about.                        *)

(* The state in the shape its steps leave it in.                           *)
EmailKeys == Categories["notification"]
Emails == [EmailKeys -> Values]
FromFile == [k \in EmailKeys |-> 0]
Preferences == [Topics -> Values \cup {Never}]
SetRequest == [pc : SetPcs, val : Values, got : SUBSET People, topics : SUBSET Topics,
               email : Emails \cup {Never}, prefs : Preferences \cup {Never}, out : SUBSET People, knew : BOOLEAN]
SettingsTypes ==
    /\ row \in [SettingKeys -> Values] /\ level \in Values /\ sender \in Emails
    /\ prefTable \in [Topics -> Values] /\ prefs \in Preferences
    /\ off \subseteq People /\ sreq \in [SetThreads -> SetRequest] /\ saves \in Values
    /\ \A r \in SetThreads : /\ sreq[r].pc = "install" => sreq[r].email \in Emails
                             /\ sreq[r].pc = "putprefs" => sreq[r].prefs \in [Topics -> Values]
(* A value is the number of a save that was made.                          *)
SavesNumbered ==
    /\ \A c \in Topics : (prefs[c] = Never \/ prefs[c] <= saves) /\ prefTable[c] <= saves
    /\ \A r \in SetThreads : /\ sreq[r].val <= saves
                             /\ sreq[r].pc = "putprefs" => \A c \in Topics : sreq[r].prefs[c] <= saves

(* Unless they overlapped, one request is about to bring an effect about,  *)
(* and what it holds is in the table.                                      *)
OneAt(pcs) == \A r, s \in SetThreads : sreq[r].pc \in pcs /\ sreq[s].pc \in pcs => r = s
LevelPending == "level" \notin crossed =>
    /\ OneAt({"level"})
    /\ \A r \in SetThreads : sreq[r].pc = "level" => sreq[r].val = row["level"]
    /\ (\A r \in SetThreads : sreq[r].pc # "level") => level = row["level"]
SenderPending == "sender" \notin crossed =>
    /\ OneAt({"load", "install"})
    /\ \A r \in SetThreads : sreq[r].pc = "install" => sreq[r].email = Email(row)
    /\ (\A r \in SetThreads : sreq[r].pc \notin {"load", "install"}) => sender = Email(row)
PrefsPending == "prefs" \notin crossed =>
    /\ OneAt({"prefs", "putprefs"})
    /\ \A r \in SetThreads :
         /\ sreq[r].pc = "putprefs" => sreq[r].prefs = prefTable
         /\ sreq[r].pc = "prefs" => \A c \in sreq[r].topics : prefTable[c] = sreq[r].val /\ prefs[c] # sreq[r].val
    /\ (\A r \in SetThreads : sreq[r].pc \notin {"prefs", "putprefs"}) => prefs = prefTable

(* A configuration that is or will be the sender's was in the table.       *)
WholeBatches ==
    /\ Email(row) \in batches /\ SenderIsOneBatch
    /\ \A r \in SetThreads : sreq[r].pc = "install" => sreq[r].email \in batches \cup {FromFile}

(* Who had opted out when the recipients were resolved, and has not asked  *)
(* for messages since, is still opted out.                                 *)
OutKnown == \A r \in SetThreads : sreq[r].pc = "overrides" => sreq[r].out \subseteq off

SettingsInv == /\ SettingsTypes /\ SavesNumbered /\ LevelPending /\ SenderPending /\ PrefsPending
               /\ WholeBatches /\ OutKnown /\ OptedOutGetNothing

-----------------------------------------------------------------------------

LEMMA InvImpliesSettingsSound == SettingsInv => SettingsSound
<1> SUFFICES ASSUME SettingsInv PROVE SettingsSound OBVIOUS
<1> USE DEF SettingsInv
<1>1. SettingsTypeOK BY DEF SettingsTypes, SettingsTypeOK, Emails, EmailKeys, Preferences, SetRequest
<1>2. EffectsFollowTable
  <2> DEFINE busy == {sreq[r].pc : r \in SetThreads}
  <2>1. "level" \in busy \cup crossed \/ level = row["level"] BY DEF LevelPending
  <2>2. {"load", "install"} \cap busy # {} \/ "sender" \in crossed \/ sender = Email(row) BY DEF SenderPending
  <2>3. {"prefs", "putprefs"} \cap busy # {} \/ "prefs" \in crossed \/ prefs = prefTable BY DEF PrefsPending
  <2> QED BY <2>1, <2>2, <2>3 DEF EffectsFollowTable
<1> QED BY <1>1, <1>2 DEF SettingsSound, WholeBatches

LEMMA KeyFacts == /\ SettingKeys = {"level", "enabled", "host"} /\ EmailKeys = {"enabled", "host"}
                  /\ 0 \in Values /\ Values \subseteq Nat /\ Never \notin Values
<1>1. Categories["notification"] = {"enabled", "host"} /\ Categories["system"] = {"level"}
      /\ DOMAIN Categories = {"system", "notification"}
  BY DEF Categories
<1> QED BY <1>1, SettingsConstants DEF SettingKeys, EmailKeys, Values

LEMMA CalmFacts == Calm \in SetRequest /\ Calm.pc = "idle" /\ Calm.out = {} /\ Calm.val = 0
BY KeyFacts DEF Calm, SetRequest, SetPcs

LEMMA InitSettings == SettingsInit => SettingsInv
<1> SUFFICES ASSUME SettingsInit PROVE SettingsInv OBVIOUS
<1>1. Email(row) \in Emails
  BY KeyFacts DEF SettingsInit, Email, Emails, EmailKeys
<1>2. SettingsTypes BY <1>1, KeyFacts, CalmFacts DEF SettingsInit, SettingsTypes, Preferences
<1>3. \A r \in SetThreads : sreq[r].pc = "idle" BY CalmFacts DEF SettingsInit
<1>4. SavesNumbered
  <2>1. \A r \in SetThreads : sreq[r] = Calm /\ Calm.pc # "putprefs" /\ Calm.val <= saves BY CalmFacts DEF SettingsInit
  <2>2. \A c \in Topics : prefs[c] <= saves /\ prefTable[c] <= saves BY DEF SettingsInit
  <2> QED BY <2>1, <2>2 DEF SavesNumbered
<1>5. LevelPending /\ SenderPending /\ PrefsPending BY <1>3, KeyFacts DEF SettingsInit, LevelPending, SenderPending, PrefsPending, OneAt
<1>6. WholeBatches /\ OutKnown /\ OptedOutGetNothing
  BY <1>3 DEF SettingsInit, WholeBatches, SenderIsOneBatch, OutKnown, OptedOutGetNothing
<1> QED BY <1>2, <1>4, <1>5, <1>6 DEF SettingsInv

-----------------------------------------------------------------------------
(* The steps.                                                              *)

(* What is pending stays so when nothing it is about changes, and neither  *)
(* who is at the steps in question nor what these hold.                    *)
SameAt(pcs) == \A r \in SetThreads :
    /\ sreq'[r].pc \in pcs <=> sreq[r].pc \in pcs
    /\ sreq[r].pc \in pcs => sreq'[r] = sreq[r]

LEMMA LevelStays ==
  ASSUME LevelPending, SameAt({"level"}), level' = level, row'["level"] = row["level"], "level" \in crossed => "level" \in crossed'
  PROVE  LevelPending'
BY DEF LevelPending, SameAt, OneAt

LEMMA SenderStays ==
  ASSUME SenderPending, SameAt({"load", "install"}), sender' = sender, Email(row)' = Email(row), "sender" \in crossed => "sender" \in crossed'
  PROVE  SenderPending'
BY DEF SenderPending, SameAt, OneAt

LEMMA PrefsStay ==
  ASSUME PrefsPending, SameAt({"prefs", "putprefs"}), prefs' = prefs, prefTable' = prefTable, "prefs" \in crossed => "prefs" \in crossed'
  PROVE  PrefsPending'
BY DEF PrefsPending, SameAt, OneAt

LEMMA TurnFacts ==
  ASSUME SettingsTypes, NEW r \in SetThreads, NEW q, Turn(r, q)
  PROVE  /\ sreq'[r] = q /\ \A s \in SetThreads \ {r} : sreq'[s] = sreq[s]
         /\ q \in SetRequest => sreq' \in [SetThreads -> SetRequest]
         /\ \A pcs : q.pc \notin pcs /\ sreq[r].pc \notin pcs => SameAt(pcs)
BY DEF SettingsTypes, Turn, SameAt

(* A save of some keys.                                                    *)
LEMMA WrittenFacts ==
  ASSUME SettingsTypes, saves < MaxSaves, NEW keys \in SUBSET SettingKeys
  PROVE  /\ saves + 1 \in Values /\ Written(keys, saves + 1) \in [SettingKeys -> Values]
         /\ Email(Written(keys, saves + 1)) \in Emails
         /\ \A k \in SettingKeys : Written(keys, saves + 1)[k] = IF k \in keys THEN saves + 1 ELSE row[k]
<1>1. saves \in Nat /\ saves + 1 \in Values BY SettingsConstants DEF SettingsTypes, Values
<1>2. Written(keys, saves + 1) \in [SettingKeys -> Values]
      /\ \A k \in SettingKeys : Written(keys, saves + 1)[k] = IF k \in keys THEN saves + 1 ELSE row[k]
  BY <1>1 DEF SettingsTypes, Written
<1>3. Email(Written(keys, saves + 1)) \in Emails BY <1>2, KeyFacts DEF Email, Emails, EmailKeys
<1> QED BY <1>1, <1>2, <1>3

LEMMA CrossFacts ==
  ASSUME NEW r \in SetThreads, NEW what, NEW pcs, Cross(r, what, pcs)
  PROVE  /\ \A x : x \in crossed => x \in crossed'
         /\ what \notin crossed' => \A s \in SetThreads \ {r} : sreq[s].pc \notin pcs
BY DEF Cross, Pcs

LEMMA NumberedLater ==
  ASSUME SettingsTypes, SavesNumbered, NEW r \in SetThreads, NEW q, Turn(r, q), saves' \in {saves, saves + 1},
         q.val <= saves', q.pc = "putprefs" => \A c \in Topics : q.prefs[c] <= saves',
         \A c \in Topics : \/ prefs'[c] \in {prefs[c], Never}
                          \/ prefs'[c] <= saves',
         \A c \in Topics : prefTable'[c] = prefTable[c] \/ prefTable'[c] <= saves'
  PROVE  SavesNumbered'
<1>1. saves \in Nat BY KeyFacts DEF SettingsTypes
<1>2. \A n \in Nat : n <= saves => n <= saves' BY <1>1
<1> HIDE <1>1
<1>3. ASSUME NEW c \in Topics PROVE (prefs'[c] = Never \/ prefs'[c] <= saves') /\ prefTable'[c] <= saves'
  <2>1. prefs[c] = Never \/ prefs[c] \in Nat BY KeyFacts DEF SettingsTypes, Preferences
  <2>2. prefTable[c] \in Nat BY KeyFacts DEF SettingsTypes
  <2> QED BY <1>2, <2>1, <2>2 DEF SavesNumbered
<1>4. ASSUME NEW s \in SetThreads
      PROVE  sreq'[s].val <= saves' /\ (sreq'[s].pc = "putprefs" => \A c \in Topics : sreq'[s].prefs[c] <= saves')
  <2>1. CASE s = r BY <2>1, TurnFacts
  <2>2. CASE s # r
    <3>1. sreq'[s] = sreq[s] BY <2>2, TurnFacts
    <3>2. sreq[s].val \in Nat BY KeyFacts DEF SettingsTypes, SetRequest
    <3>3. sreq[s].pc = "putprefs" => \A c \in Topics : sreq[s].prefs[c] \in Nat BY KeyFacts DEF SettingsTypes
    <3> QED BY <1>2, <3>1, <3>2, <3>3 DEF SavesNumbered
  <2> QED BY <2>1, <2>2
<1> QED BY <1>3, <1>4 DEF SavesNumbered

LEMMA NumberFacts ==
  ASSUME SettingsTypes, SavesNumbered
  PROVE  /\ saves \in Nat /\ 0 <= saves /\ saves <= saves + 1 /\ 0 <= saves + 1
         /\ \A c \in Topics : prefTable[c] <= saves
         /\ \A s \in SetThreads : sreq[s] \in SetRequest /\ sreq[s].val \in Values /\ sreq[s].val <= saves
<1>1. saves \in Nat BY KeyFacts DEF SettingsTypes
<1>2. 0 <= saves /\ saves <= saves + 1 /\ 0 <= saves + 1 BY <1>1
<1>3. \A c \in Topics : prefTable[c] <= saves BY DEF SavesNumbered
<1>4. \A s \in SetThreads : sreq[s] \in SetRequest /\ sreq[s].val <= saves BY DEF SettingsTypes, SavesNumbered
<1>5. \A s \in SetThreads : sreq[s].val \in Values BY <1>4 DEF SetRequest
<1> QED BY <1>1, <1>2, <1>3, <1>4, <1>5

LEMMA UpdateSystemKeeps ==
  ASSUME SettingsInv, NEW r \in SetThreads, UpdateSystemSettings(r)
  PROVE  SettingsInv'
<1> DEFINE q == [Calm EXCEPT !.pc = "level", !.val = saves + 1]
<1> USE DEF SettingsInv
<1>1. /\ sreq[r].pc = "idle" /\ saves < MaxSaves /\ saves' = saves + 1 /\ row' = Written({"level"}, saves + 1)
      /\ batches' = batches \cup {Email(Written({"level"}, saves + 1))}
      /\ UNCHANGED <<prefTable, off, level, sender, prefs>> /\ Turn(r, q) /\ Cross(r, "level", {"level"})
  BY DEF UpdateSystemSettings, Saving, SetMany, unchangedEffects
<1>2. /\ saves + 1 \in Values /\ row' \in [SettingKeys -> Values] /\ row'["level"] = saves + 1
      /\ Email(row)' = Email(row)
  <2>1. \A k \in SettingKeys : row'[k] = IF k = "level" THEN saves + 1 ELSE row[k] BY <1>1, KeyFacts, WrittenFacts
  <2>2. \A k \in EmailKeys : row'[k] = row[k] BY <2>1, KeyFacts
  <2>3. Email(row)' = Email(row) BY <2>2 DEF Email, EmailKeys
  <2>4. saves + 1 \in Values /\ row' \in [SettingKeys -> Values] BY <1>1, KeyFacts, WrittenFacts
  <2>5. row'["level"] = saves + 1 BY <2>1, KeyFacts
  <2> QED BY <2>3, <2>4, <2>5
<1>3. q \in SetRequest /\ q.pc = "level" /\ q.val = saves + 1
  BY <1>2, CalmFacts DEF SetRequest, SetPcs, Calm
<1> HIDE DEF q
<1>4. /\ sreq'[r] = q /\ \A s \in SetThreads \ {r} : sreq'[s] = sreq[s]
      /\ sreq' \in [SetThreads -> SetRequest]
      /\ SameAt({"load", "install"}) /\ SameAt({"prefs", "putprefs"})
  BY <1>1, <1>3, TurnFacts
<1>5. SettingsTypes' BY <1>1, <1>2, <1>3, <1>4 DEF SettingsTypes
<1>11. SavesNumbered' BY <1>1, <1>3, NumberFacts, NumberedLater
<1>6. LevelPending' BY <1>1, <1>2, <1>3, <1>4, CrossFacts DEF LevelPending, OneAt
<1>7. SenderPending' BY <1>1, <1>2, <1>4, CrossFacts, SenderStays
<1>8. PrefsPending' BY <1>1, <1>4, CrossFacts, PrefsStay
<1>9. WholeBatches' BY <1>1, <1>2, <1>3, <1>4 DEF WholeBatches, SenderIsOneBatch, FromFile, EmailKeys
<1>10. OutKnown' /\ OptedOutGetNothing' BY <1>1, <1>3, <1>4 DEF OutKnown, OptedOutGetNothing
<1> QED BY <1>11, <1>5, <1>6, <1>7, <1>8, <1>9, <1>10

LEMMA UpdateNotificationKeeps ==
  ASSUME SettingsInv, NEW r \in SetThreads, NEW keys, UpdateNotificationSettings(r, keys)
  PROVE  SettingsInv'
<1> DEFINE q == [Calm EXCEPT !.pc = "load"]
<1> USE DEF SettingsInv
<1>1. /\ sreq[r].pc = "idle" /\ saves < MaxSaves /\ saves' = saves + 1 /\ row' = Written(keys, saves + 1)
      /\ batches' = batches \cup {Email(Written(keys, saves + 1))}
      /\ UNCHANGED <<prefTable, off, level, sender, prefs>> /\ Turn(r, q) /\ Cross(r, "sender", {"load", "install"})
      /\ keys \subseteq EmailKeys
  BY DEF UpdateNotificationSettings, Saving, SetMany, unchangedEffects, EmailKeys
<1>2. /\ saves + 1 \in Values /\ row' \in [SettingKeys -> Values] /\ row'["level"] = row["level"]
  BY <1>1, KeyFacts, WrittenFacts
<1>3. q \in SetRequest /\ q.pc = "load" /\ q.val = 0 BY CalmFacts DEF SetRequest, SetPcs, Calm
<1> HIDE DEF q
<1>4. /\ sreq'[r] = q /\ \A s \in SetThreads \ {r} : sreq'[s] = sreq[s]
      /\ sreq' \in [SetThreads -> SetRequest]
      /\ SameAt({"level"}) /\ SameAt({"prefs", "putprefs"})
  BY <1>1, <1>3, TurnFacts
<1>5. SettingsTypes' BY <1>1, <1>2, <1>3, <1>4 DEF SettingsTypes
<1>11. SavesNumbered' BY <1>1, <1>3, NumberFacts, NumberedLater
<1>6. LevelPending' BY <1>1, <1>2, <1>4, CrossFacts, LevelStays
<1>7. SenderPending' BY <1>1, <1>3, <1>4, CrossFacts DEF SenderPending, OneAt
<1>8. PrefsPending' BY <1>1, <1>4, CrossFacts, PrefsStay
<1>9. WholeBatches' BY <1>1, <1>3, <1>4 DEF WholeBatches, SenderIsOneBatch, FromFile, EmailKeys
<1>10. OutKnown' /\ OptedOutGetNothing' BY <1>1, <1>3, <1>4 DEF OutKnown, OptedOutGetNothing
<1> QED BY <1>11, <1>5, <1>6, <1>7, <1>8, <1>9, <1>10

LEMMA SetLevelKeeps ==
  ASSUME SettingsInv, NEW r \in SetThreads, SetLevel(r)
  PROVE  SettingsInv'
<1> USE DEF SettingsInv
<1>1. /\ sreq[r].pc = "level" /\ level' = sreq[r].val /\ Turn(r, Calm)
      /\ UNCHANGED <<row, sender, prefTable, prefs, off, saves, batches, crossed>>
  BY DEF SetLevel
<1>2. /\ sreq'[r] = Calm /\ \A s \in SetThreads \ {r} : sreq'[s] = sreq[s]
      /\ sreq' \in [SetThreads -> SetRequest]
      /\ SameAt({"load", "install"}) /\ SameAt({"prefs", "putprefs"})
  BY <1>1, CalmFacts, TurnFacts
<1>3. level' \in Values BY <1>1 DEF SettingsTypes, SetRequest
<1>4. SettingsTypes' BY <1>1, <1>2, <1>3, CalmFacts DEF SettingsTypes
<1>11. SavesNumbered' BY <1>1, CalmFacts, NumberFacts, NumberedLater
<1>5. LevelPending' BY <1>1, <1>2, CalmFacts DEF LevelPending, OneAt
<1>6. Email(row)' = Email(row) BY <1>1 DEF Email
<1>7. SenderPending' BY <1>1, <1>2, <1>6, SenderStays
<1>8. PrefsPending' BY <1>1, <1>2, PrefsStay
<1>9. WholeBatches' BY <1>1, <1>2, <1>6, CalmFacts DEF WholeBatches, SenderIsOneBatch
<1>10. OutKnown' /\ OptedOutGetNothing' BY <1>1, <1>2, CalmFacts DEF OutKnown, OptedOutGetNothing
<1> QED BY <1>11, <1>4, <1>5, <1>7, <1>8, <1>9, <1>10

LEMMA LoadEmailKeeps ==
  ASSUME SettingsInv, NEW r \in SetThreads, NEW works \in BOOLEAN, LoadEmailConfig(r, works)
  PROVE  SettingsInv'
<1> DEFINE e == IF works THEN Email(row) ELSE FromFile
<1> DEFINE q == [sreq[r] EXCEPT !.pc = "install", !.email = e]
<1> USE DEF SettingsInv
<1>1. /\ sreq[r].pc = "load" /\ Turn(r, q) /\ crossed' = IF works THEN crossed ELSE crossed \cup {"sender"}
      /\ UNCHANGED <<row, level, sender, prefTable, prefs, off, saves, batches>>
  BY DEF LoadEmailConfig, unchangedEffects, FromFile, EmailKeys
<1>2. e \in Emails /\ e \in batches \cup {FromFile}
  <2>1. Email(row) \in Emails BY KeyFacts DEF SettingsTypes, Email, Emails, EmailKeys
  <2>2. FromFile \in Emails BY KeyFacts DEF FromFile, Emails
  <2> QED BY <2>1, <2>2 DEF WholeBatches
<1>3. q \in SetRequest /\ q.pc = "install" /\ q.email = e /\ q.val = sreq[r].val
  <2>1. sreq[r] \in SetRequest BY DEF SettingsTypes
  <2> HIDE DEF e
  <2> QED BY <1>2, <2>1 DEF SetRequest, SetPcs
<1> HIDE DEF q
<1>4. /\ sreq'[r] = q /\ \A s \in SetThreads \ {r} : sreq'[s] = sreq[s]
      /\ sreq' \in [SetThreads -> SetRequest]
      /\ SameAt({"level"}) /\ SameAt({"prefs", "putprefs"})
  BY <1>1, <1>3, TurnFacts
<1>5. SettingsTypes' BY <1>1, <1>2, <1>3, <1>4 DEF SettingsTypes
<1>11. SavesNumbered' BY <1>1, <1>3, NumberFacts, NumberedLater
<1>6. Email(row)' = Email(row) BY <1>1 DEF Email
<1>7. LevelPending' /\ PrefsPending' BY <1>1, <1>4, LevelStays, PrefsStay
<1>8. SenderPending' BY <1>1, <1>3, <1>4, <1>6 DEF SenderPending, OneAt
<1>9. WholeBatches' BY <1>1, <1>2, <1>3, <1>4, <1>6 DEF WholeBatches, SenderIsOneBatch
<1>10. OutKnown' /\ OptedOutGetNothing' BY <1>1, <1>3, <1>4 DEF OutKnown, OptedOutGetNothing
<1> QED BY <1>11, <1>5, <1>7, <1>8, <1>9, <1>10

LEMMA InstallKeeps ==
  ASSUME SettingsInv, NEW r \in SetThreads, InstallSender(r)
  PROVE  SettingsInv'
<1> DEFINE q == [Calm EXCEPT !.pc = "prefs"]
<1> USE DEF SettingsInv
<1>1. /\ sreq[r].pc = "install" /\ Turn(r, q) /\ sender' = sreq[r].email /\ Cross(r, "prefs", {"prefs", "putprefs"})
      /\ UNCHANGED <<row, level, prefTable, prefs, off, saves, batches>>
  BY DEF InstallSender
<1>2. q \in SetRequest /\ q.pc = "prefs" /\ q.topics = {} /\ q.val = 0 BY CalmFacts DEF SetRequest, SetPcs, Calm
<1> HIDE DEF q
<1>3. /\ sreq'[r] = q /\ \A s \in SetThreads \ {r} : sreq'[s] = sreq[s]
      /\ sreq' \in [SetThreads -> SetRequest] /\ SameAt({"level"})
  BY <1>1, <1>2, TurnFacts
<1>4. sender' \in batches \cup {FromFile} BY <1>1 DEF WholeBatches
<1>5. sender' \in Emails BY <1>1 DEF SettingsTypes
<1>6. SettingsTypes' BY <1>1, <1>2, <1>3, <1>5 DEF SettingsTypes
<1>14. SavesNumbered' BY <1>1, <1>2, NumberFacts, NumberedLater
<1>7. Email(row)' = Email(row) BY <1>1 DEF Email
<1>8. LevelPending' BY <1>1, <1>3, CrossFacts, LevelStays
<1>9. "sender" \in crossed => "sender" \in crossed' BY <1>1, CrossFacts
<1>10. SenderPending' BY <1>1, <1>2, <1>3, <1>7, <1>9 DEF SenderPending, OneAt
<1>11. PrefsPending' BY <1>1, <1>2, <1>3, CrossFacts DEF PrefsPending, OneAt
<1>12. WholeBatches' BY <1>1, <1>2, <1>3, <1>4, <1>7 DEF WholeBatches, SenderIsOneBatch, FromFile, EmailKeys
<1>13. OutKnown' /\ OptedOutGetNothing' BY <1>1, <1>2, <1>3 DEF OutKnown, OptedOutGetNothing
<1> QED BY <1>14, <1>6, <1>8, <1>10, <1>11, <1>12, <1>13

LEMMA UpdatePrefsKeeps ==
  ASSUME SettingsInv, NEW r \in SetThreads, NEW topics \in SUBSET Topics, UpdateCategoryPrefs(r, topics)
  PROVE  SettingsInv'
<1> DEFINE q == [Calm EXCEPT !.pc = "prefs", !.val = saves + 1, !.topics = topics]
<1> USE DEF SettingsInv
<1>1. /\ sreq[r].pc = "idle" /\ saves < MaxSaves /\ saves' = saves + 1 /\ Turn(r, q) /\ Cross(r, "prefs", {"prefs", "putprefs"})
      /\ prefTable' = [c \in Topics |-> IF c \in topics THEN saves + 1 ELSE prefTable[c]]
      /\ UNCHANGED <<row, off, batches, level, sender, prefs>>
  BY DEF UpdateCategoryPrefs, unchangedEffects
<1>2. saves \in Nat /\ saves + 1 \in Values BY <1>1, SettingsConstants DEF SettingsTypes, Values
<1>3. q \in SetRequest /\ q.pc = "prefs" /\ q.topics = topics /\ q.val = saves + 1
  BY <1>2, CalmFacts DEF SetRequest, SetPcs, Calm
<1> HIDE DEF q
<1>4. /\ sreq'[r] = q /\ \A s \in SetThreads \ {r} : sreq'[s] = sreq[s]
      /\ sreq' \in [SetThreads -> SetRequest] /\ SameAt({"level"}) /\ SameAt({"load", "install"})
  BY <1>1, <1>3, TurnFacts
<1>5. prefTable' \in [Topics -> Values] BY <1>1, <1>2 DEF SettingsTypes
<1>6. SettingsTypes' BY <1>1, <1>2, <1>3, <1>4, <1>5 DEF SettingsTypes
<1>12. \A c \in Topics : prefTable'[c] = prefTable[c] \/ prefTable'[c] <= saves' BY <1>1, <1>2
<1>13. SavesNumbered' BY <1>1, <1>2, <1>3, <1>12, NumberedLater
<1>7. Email(row)' = Email(row) BY <1>1 DEF Email
<1>8. LevelPending' /\ SenderPending' BY <1>1, <1>4, <1>7, CrossFacts, LevelStays, SenderStays
<1>9. PrefsPending'
  <2>1. \A c \in topics : prefTable'[c] = saves + 1 BY <1>1
  <2>2. \A c \in Topics : prefs[c] # saves + 1
    <3>1. \A c \in Topics : prefs[c] \in Values \cup {Never} BY DEF SettingsTypes, Preferences
    <3>2. SUFFICES ASSUME NEW c \in Topics, prefs[c] = saves + 1 PROVE FALSE OBVIOUS
    <3>3. prefs[c] # Never BY <1>2, <3>2, KeyFacts
    <3>4. prefs[c] <= saves BY <3>3 DEF SavesNumbered
    <3> QED BY <1>2, <3>2, <3>4
  <2> QED BY <1>1, <1>3, <1>4, <2>1, <2>2, CrossFacts DEF PrefsPending, OneAt
<1>10. WholeBatches' BY <1>1, <1>3, <1>4, <1>7 DEF WholeBatches, SenderIsOneBatch
<1>11. OutKnown' /\ OptedOutGetNothing' BY <1>1, <1>3, <1>4 DEF OutKnown, OptedOutGetNothing
<1> QED BY <1>13, <1>6, <1>8, <1>9, <1>10, <1>11

LEMMA LoadPrefsKeeps ==
  ASSUME SettingsInv, NEW r \in SetThreads, LoadCategoryPrefs(r)
  PROVE  SettingsInv'
<1> DEFINE q == [sreq[r] EXCEPT !.pc = "putprefs", !.prefs = prefTable]
<1> USE DEF SettingsInv
<1>1. /\ sreq[r].pc = "prefs" /\ Turn(r, q)
      /\ UNCHANGED <<row, off, prefTable, saves, batches, crossed, level, sender, prefs>>
  BY DEF LoadCategoryPrefs, unchangedEffects
<1>2. prefTable \in Preferences /\ prefTable \in [Topics -> Values] BY DEF SettingsTypes, Preferences
<1>3. q \in SetRequest /\ q.pc = "putprefs" /\ q.prefs = prefTable /\ q.val = sreq[r].val
  <2>1. sreq[r] \in SetRequest BY DEF SettingsTypes
  <2> QED BY <1>2, <2>1 DEF SetRequest, SetPcs
<1> HIDE DEF q
<1>4. /\ sreq'[r] = q /\ \A s \in SetThreads \ {r} : sreq'[s] = sreq[s]
      /\ sreq' \in [SetThreads -> SetRequest] /\ SameAt({"level"}) /\ SameAt({"load", "install"})
  BY <1>1, <1>3, TurnFacts
<1>5. SettingsTypes' BY <1>1, <1>2, <1>3, <1>4 DEF SettingsTypes
<1>11. SavesNumbered' BY <1>1, <1>3, NumberFacts, NumberedLater
<1>6. Email(row)' = Email(row) BY <1>1 DEF Email
<1>7. LevelPending' /\ SenderPending' BY <1>1, <1>4, <1>6, LevelStays, SenderStays
<1>8. PrefsPending' BY <1>1, <1>3, <1>4 DEF PrefsPending, OneAt
<1>9. WholeBatches' BY <1>1, <1>3, <1>4, <1>6 DEF WholeBatches, SenderIsOneBatch
<1>10. OutKnown' /\ OptedOutGetNothing' BY <1>1, <1>3, <1>4 DEF OutKnown, OptedOutGetNothing
<1> QED BY <1>11, <1>5, <1>7, <1>8, <1>9, <1>10

LEMMA KeepPrefsKeeps ==
  ASSUME SettingsInv, NEW r \in SetThreads, KeepSavedPrefs(r)
  PROVE  SettingsInv'
<1> DEFINE q == sreq[r]
<1> USE DEF SettingsInv
<1>1. /\ sreq[r].pc = "prefs" /\ Turn(r, Calm)
      /\ prefs' = IF q.topics = {} THEN prefs ELSE [c \in Topics |-> IF c \in q.topics THEN q.val ELSE Never]
      /\ crossed' = IF q.topics = Topics \/ prefs = prefTable THEN crossed ELSE crossed \cup {"prefs"}
      /\ UNCHANGED <<row, level, sender, prefTable, off, saves, batches>>
  BY DEF KeepSavedPrefs
<1>2. /\ sreq'[r] = Calm /\ \A s \in SetThreads \ {r} : sreq'[s] = sreq[s]
      /\ sreq' \in [SetThreads -> SetRequest] /\ SameAt({"level"}) /\ SameAt({"load", "install"})
  BY <1>1, CalmFacts, TurnFacts
<1>3. q.topics \subseteq Topics /\ q.val \in Values /\ q.val <= saves
  BY NumberFacts DEF SetRequest
<1> HIDE DEF q
<1>4. prefs' \in Preferences BY <1>1, <1>3 DEF SettingsTypes, Preferences
<1>5. SettingsTypes' BY <1>1, <1>2, <1>4, CalmFacts DEF SettingsTypes
<1>6. SavesNumbered'
  <2>1. \A c \in Topics : prefs'[c] \in {prefs[c], Never} \/ prefs'[c] <= saves BY <1>1, <1>3
  <2> QED BY <1>1, <2>1, CalmFacts, NumberFacts, NumberedLater
<1>7. Email(row)' = Email(row) BY <1>1 DEF Email
<1>8. LevelPending' /\ SenderPending' BY <1>1, <1>2, <1>7, LevelStays, SenderStays
<1>9. PrefsPending'
  <2> SUFFICES ASSUME "prefs" \notin crossed' PROVE PrefsPending' BY DEF PrefsPending
  <2>1. "prefs" \notin crossed /\ (q.topics = Topics \/ prefs = prefTable) BY <1>1
  <2>2. \A s \in SetThreads : sreq'[s].pc \notin {"prefs", "putprefs"} BY <1>1, <1>2, <2>1, CalmFacts DEF PrefsPending, OneAt
  <2>3. \A c \in q.topics : prefTable[c] = q.val /\ prefs[c] # q.val BY <1>1, <2>1 DEF PrefsPending, q
  <2>4. prefs' = prefTable
    <3>1. CASE q.topics = {}
      <4>1. Topics # {} BY DEF Topics
      <4> QED BY <1>1, <2>1, <3>1, <4>1
    <3>2. CASE q.topics # {}
      <4>1. q.topics = Topics BY <1>3, <2>1, <2>3, <3>2
      <4>2. prefs' = [c \in Topics |-> q.val] BY <1>1, <3>2, <4>1
      <4>3. prefTable = [c \in Topics |-> q.val] BY <2>3, <4>1 DEF SettingsTypes
      <4> QED BY <4>2, <4>3
    <3> QED BY <3>1, <3>2
  <2> QED BY <1>1, <2>2, <2>4 DEF PrefsPending, OneAt
<1>10. WholeBatches' BY <1>1, <1>2, <1>7, CalmFacts DEF WholeBatches, SenderIsOneBatch
<1>11. OutKnown' /\ OptedOutGetNothing' BY <1>1, <1>2, CalmFacts DEF OutKnown, OptedOutGetNothing
<1> QED BY <1>5, <1>6, <1>8, <1>9, <1>10, <1>11

LEMMA PutPrefsKeeps ==
  ASSUME SettingsInv, NEW r \in SetThreads, PutCategoryPrefs(r)
  PROVE  SettingsInv'
<1> USE DEF SettingsInv
<1>1. /\ sreq[r].pc = "putprefs" /\ Turn(r, Calm) /\ prefs' = sreq[r].prefs
      /\ UNCHANGED <<row, level, sender, prefTable, off, saves, batches, crossed>>
  BY DEF PutCategoryPrefs
<1>2. /\ sreq'[r] = Calm /\ \A s \in SetThreads \ {r} : sreq'[s] = sreq[s]
      /\ sreq' \in [SetThreads -> SetRequest] /\ SameAt({"level"}) /\ SameAt({"load", "install"})
  BY <1>1, CalmFacts, TurnFacts
<1>3. prefs' \in Preferences BY <1>1 DEF SettingsTypes, Preferences
<1>4. SettingsTypes' BY <1>1, <1>2, <1>3, CalmFacts DEF SettingsTypes
<1>12. \A c \in Topics : prefs'[c] <= saves BY <1>1 DEF SavesNumbered
<1>11. SavesNumbered' BY <1>1, <1>12, CalmFacts, NumberFacts, NumberedLater
<1>5. Email(row)' = Email(row) BY <1>1 DEF Email
<1>6. LevelPending' /\ SenderPending' BY <1>1, <1>2, <1>5, LevelStays, SenderStays
<1>7. PrefsPending' BY <1>1, <1>2, CalmFacts DEF PrefsPending, OneAt
<1>8. WholeBatches' BY <1>1, <1>2, <1>5, CalmFacts DEF WholeBatches, SenderIsOneBatch
<1>9. OutKnown' /\ OptedOutGetNothing' BY <1>1, <1>2, CalmFacts DEF OutKnown, OptedOutGetNothing
<1> QED BY <1>11, <1>4, <1>6, <1>7, <1>8, <1>9

(* A step of a notification, which brings no effect about.                 *)
LEMMA NotifyingKeeps ==
  ASSUME SettingsInv, NEW r \in SetThreads, NEW q \in SetRequest, Turn(r, q),
         sreq[r].pc \in {"idle", "overrides", "deliver"}, q.pc \in {"idle", "overrides", "deliver"}, q.val <= saves,
         q.pc = "overrides" => q.out \subseteq off, q.pc = "deliver" /\ q.knew => q.got \cap q.out = {},
         UNCHANGED <<row, level, sender, prefTable, prefs, off, saves, batches, crossed>>
  PROVE  SettingsInv'
<1> USE DEF SettingsInv
<1>1. /\ sreq'[r] = q /\ \A s \in SetThreads \ {r} : sreq'[s] = sreq[s]
      /\ sreq' \in [SetThreads -> SetRequest]
      /\ SameAt({"level"}) /\ SameAt({"load", "install"}) /\ SameAt({"prefs", "putprefs"})
  BY TurnFacts
<1>2. SettingsTypes' BY <1>1 DEF SettingsTypes
<1>3. SavesNumbered' BY NumberFacts, NumberedLater
<1>4. Email(row)' = Email(row) BY DEF Email
<1>5. LevelPending' /\ SenderPending' /\ PrefsPending' BY <1>1, <1>4, LevelStays, SenderStays, PrefsStay
<1>6. WholeBatches' BY <1>1, <1>4 DEF WholeBatches, SenderIsOneBatch
<1>7. OutKnown' /\ OptedOutGetNothing' BY <1>1 DEF OutKnown, OptedOutGetNothing
<1> QED BY <1>2, <1>3, <1>5, <1>6, <1>7

LEMMA NotifyKeeps ==
  ASSUME SettingsInv, NEW r \in SetThreads,
         ResolveRecipients(r) \/ Deliver(r) \/ \E works \in BOOLEAN : ApplyOverrides(r, works)
  PROVE  SettingsInv'
<1>1. UNCHANGED <<row, level, sender, prefTable, prefs, off, saves, batches, crossed>>
  BY DEF ResolveRecipients, Deliver, ApplyOverrides, unchangedEffects
<1>2. sreq[r] \in SetRequest /\ sreq[r].val <= saves /\ 0 <= saves /\ off \subseteq People
  BY NumberFacts DEF SettingsInv, SettingsTypes
<1>3. CASE ResolveRecipients(r)
  <2> DEFINE q == [Calm EXCEPT !.pc = "overrides", !.got = People, !.out = off]
  <2>1. Turn(r, q) /\ sreq[r].pc = "idle" BY <1>3 DEF ResolveRecipients
  <2>2. q \in SetRequest /\ q.pc = "overrides" /\ q.out = off /\ q.val = 0 BY <1>2, CalmFacts DEF SetRequest, SetPcs, Calm
  <2> HIDE DEF q
  <2> QED BY <1>1, <1>2, <2>1, <2>2, NotifyingKeeps
<1>4. CASE Deliver(r)
  <2>1. Turn(r, Calm) /\ sreq[r].pc = "deliver" BY <1>4 DEF Deliver
  <2> QED BY <1>1, <1>2, <2>1, CalmFacts, NotifyingKeeps
<1>5. ASSUME NEW works \in BOOLEAN, ApplyOverrides(r, works) PROVE SettingsInv'
  <2> DEFINE got == IF works THEN Wanting(sreq[r].got) ELSE sreq[r].got
  <2> DEFINE q == [sreq[r] EXCEPT !.pc = "deliver", !.got = got, !.knew = works]
  <2>1. Turn(r, q) /\ sreq[r].pc = "overrides" BY <1>5 DEF ApplyOverrides
  <2>2. got \subseteq People /\ (works => got \cap off = {}) BY <1>2 DEF SetRequest, Wanting
  <2> HIDE DEF got
  <2>3. q \in SetRequest /\ q.pc = "deliver" /\ q.got = got /\ q.knew = works /\ q.out = sreq[r].out /\ q.val = sreq[r].val
    BY <1>2, <2>2 DEF SetRequest, SetPcs
  <2> HIDE DEF q
  <2>4. sreq[r].out \subseteq off BY <2>1 DEF SettingsInv, OutKnown
  <2>5. q.knew => q.got \cap q.out = {} BY <2>2, <2>3, <2>4
  <2> QED BY <1>1, <1>2, <2>1, <2>3, <2>5, NotifyingKeeps
<1> QED BY <1>3, <1>4, <1>5

LEMMA UserPrefKeeps ==
  ASSUME SettingsInv, NEW p \in People, NEW wants \in BOOLEAN, UpdateUserPref(p, wants)
  PROVE  SettingsInv'
<1> DEFINE out(r) == IF wants THEN sreq[r].out \ {p} ELSE sreq[r].out
<1> USE DEF SettingsInv
<1>1. /\ off' = IF wants THEN off \ {p} ELSE off \cup {p}
      /\ UNCHANGED <<row, level, sender, prefTable, prefs, saves, batches, crossed>>
      /\ sreq' = [r \in SetThreads |-> [sreq[r] EXCEPT !.out = out(r)]]
  BY DEF UpdateUserPref, unchangedEffects
<1>2. ASSUME NEW r \in SetThreads
      PROVE  /\ sreq'[r] \in SetRequest /\ sreq'[r].pc = sreq[r].pc /\ sreq'[r].val = sreq[r].val
             /\ sreq'[r].got = sreq[r].got /\ sreq'[r].knew = sreq[r].knew /\ sreq'[r].topics = sreq[r].topics
             /\ sreq'[r].email = sreq[r].email /\ sreq'[r].prefs = sreq[r].prefs /\ sreq'[r].out = out(r)
  <2>1. sreq[r] \in SetRequest BY DEF SettingsTypes
  <2>2. out(r) \subseteq People BY <2>1 DEF SetRequest
  <2>3. sreq'[r] = [sreq[r] EXCEPT !.out = out(r)] BY <1>1
  <2> HIDE DEF out
  <2> QED BY <2>1, <2>2, <2>3 DEF SetRequest
<1>3. sreq' \in [SetThreads -> SetRequest] /\ off' \subseteq People BY <1>1, <1>2 DEF SettingsTypes
<1>4. OutKnown' /\ OptedOutGetNothing'
  <2>1. \A r \in SetThreads : out(r) \subseteq sreq[r].out /\ (sreq[r].out \subseteq off => out(r) \subseteq off') BY <1>1
  <2> HIDE DEF out
  <2>2. OutKnown' BY <1>2, <2>1 DEF OutKnown
  <2>3. OptedOutGetNothing'
    <3> SUFFICES ASSUME NEW r \in SetThreads, sreq'[r].pc = "deliver", sreq'[r].knew PROVE sreq'[r].got \cap sreq'[r].out = {}
      BY DEF OptedOutGetNothing
    <3>1. sreq[r].got \cap sreq[r].out = {} BY <1>2 DEF OptedOutGetNothing
    <3> QED BY <1>2, <2>1, <3>1
  <2> QED BY <2>2, <2>3
<1> HIDE DEF out
<1>12. /\ UNCHANGED <<row, level, sender, prefTable, prefs, saves, batches, crossed>>
       /\ \A r \in SetThreads : /\ sreq'[r].pc = sreq[r].pc /\ sreq'[r].val = sreq[r].val /\ sreq'[r].topics = sreq[r].topics
                                /\ sreq'[r].email = sreq[r].email /\ sreq'[r].prefs = sreq[r].prefs
  BY <1>1, <1>2
<1>5. SettingsTypes' BY <1>3, <1>12 DEF SettingsTypes
<1>6. SavesNumbered' BY <1>12 DEF SavesNumbered
<1>7. LevelPending' BY <1>12 DEF LevelPending, OneAt
<1>8. Email(row)' = Email(row) BY <1>12 DEF Email
<1>9. SenderPending' BY <1>8, <1>12 DEF SenderPending, OneAt
<1>10. PrefsPending' BY <1>12 DEF PrefsPending, OneAt
<1>11. WholeBatches' BY <1>8, <1>12 DEF WholeBatches, SenderIsOneBatch
<1> QED BY <1>4, <1>5, <1>6, <1>7, <1>9, <1>10, <1>11

LEMMA NextKeepsSettings == SettingsInv /\ [SettingsNext]_setVars => SettingsInv'
<1> SUFFICES ASSUME SettingsInv, [SettingsNext]_setVars PROVE SettingsInv' OBVIOUS
<1>1. ASSUME NEW r \in SetThreads, UpdateSystemSettings(r) \/ SetLevel(r) \/ InstallSender(r) PROVE SettingsInv'
  BY <1>1, UpdateSystemKeeps, SetLevelKeeps, InstallKeeps
<1>2. ASSUME NEW r \in SetThreads, NEW keys, UpdateNotificationSettings(r, keys) PROVE SettingsInv'
  BY <1>2, UpdateNotificationKeeps
<1>3. ASSUME NEW r \in SetThreads, NEW works \in BOOLEAN, LoadEmailConfig(r, works) PROVE SettingsInv'
  BY <1>3, LoadEmailKeeps
<1>4. ASSUME NEW r \in SetThreads, NEW topics \in SUBSET Topics, UpdateCategoryPrefs(r, topics) PROVE SettingsInv'
  BY <1>4, UpdatePrefsKeeps
<1>5. ASSUME NEW r \in SetThreads, LoadCategoryPrefs(r) \/ KeepSavedPrefs(r) \/ PutCategoryPrefs(r) PROVE SettingsInv'
  BY <1>5, LoadPrefsKeeps, KeepPrefsKeeps, PutPrefsKeeps
<1>6. ASSUME NEW r \in SetThreads, ResolveRecipients(r) \/ Deliver(r) \/ \E works \in BOOLEAN : ApplyOverrides(r, works)
      PROVE SettingsInv'
  BY <1>6, NotifyKeeps
<1>7. ASSUME NEW p \in People, NEW wants \in BOOLEAN, UpdateUserPref(p, wants) PROVE SettingsInv' BY <1>7, UserPrefKeeps
<1>8. CASE UNCHANGED setVars
  <2>1. UNCHANGED <<row, level, sender, prefTable, prefs, off, sreq, saves, batches, crossed>> BY <1>8 DEF setVars
  <2> USE DEF SettingsInv
  <2>2. SettingsTypes' /\ SavesNumbered' BY <2>1 DEF SettingsTypes, SavesNumbered
  <2>3. Email(row)' = Email(row) BY <2>1 DEF Email
  <2>4. LevelPending' /\ SenderPending' /\ PrefsPending'
    BY <2>1, <2>3 DEF LevelPending, SenderPending, PrefsPending, OneAt
  <2>5. WholeBatches' BY <2>1, <2>3 DEF WholeBatches, SenderIsOneBatch
  <2>6. OutKnown' /\ OptedOutGetNothing' BY <2>1 DEF OutKnown, OptedOutGetNothing
  <2> QED BY <2>2, <2>4, <2>5, <2>6
<1> QED BY <1>1, <1>2, <1>3, <1>4, <1>5, <1>6, <1>7, <1>8 DEF SettingsNext

(* SettingsSound: the sender works with a configuration that was in the    *)
(* table as a whole; once a save is answered the level, the sender and the *)
(* preferences are those of the table, unless two requests overlapped or a *)
(* read failed; and who had opted out of messages gets none (admin.go,     *)
(* settings_repo.go, notification_service.go).                             *)
THEOREM SettingsTakeEffect == SettingsSpec => []SettingsSound
<1>1. SettingsSpec => []SettingsInv BY InitSettings, NextKeepsSettings, PTL DEF SettingsSpec
<1> QED BY <1>1, InvImpliesSettingsSound, PTL

-----------------------------------------------------------------------------
(* Covers.                                                                 *)

(* The state in the shape its steps leave it in.                           *)
CoverRow == [owner : Owners, path : Paths, content : Contents]
CoverDb == [row : [1..MaxImages -> CoverRow \cup {NoRow}], ptr : [Owners -> 0..MaxImages],
            file : [Paths -> Contents \cup {NoContent}], last : 2..MaxImages]
CoverRequest ==
    [pc : CoverPcs, owner : Owners, force : BOOLEAN, snap : 0..MaxImages, album : 0..MaxImages,
     orphans : SUBSET ((1..MaxImages) \X Paths), shared : SUBSET Paths]
CoverTypes ==
    /\ db \in CoverDb /\ alive \subseteq Owners
    /\ embedded \in [CoverTracks -> Embedded \cup {NoContent}]
    /\ creq \in [CoverThreads -> CoverRequest]
    /\ coverCrossed \subseteq Owners /\ torn \subseteq Owners /\ lost \subseteq Paths

(* A row has an id that was given out; only an album's row names the path  *)
(* of another.  Who has a pointer has the row it points at.                *)
Shaped(d) == \A i \in 1..MaxImages : d.row[i] # NoRow =>
    /\ i <= d.last
    /\ \/ d.row[i].path = d.row[i].owner
       \/ d.row[i].owner = CoverAlbum /\ d.row[i].path \in CoverTracks
PointersOwn(d) == \A o \in Owners : d.ptr[o] # NoImage =>
    d.row[d.ptr[o]] # NoRow /\ d.row[d.ptr[o]].owner = o
Tidy(d) == d \in CoverDb /\ Shaped(d) /\ PointersOwn(d)

(* What the statements do to the tables, a field at a time.                *)
Creates(d, e, o, p, c) ==
    /\ e.last = d.last + 1 /\ e.ptr = d.ptr /\ e.file = d.file
    /\ e.row[d.last + 1] = [owner |-> o, path |-> p, content |-> c]
    /\ \A i \in 1..MaxImages : i # d.last + 1 => e.row[i] = d.row[i]
Points(d, e, o, i) ==
    /\ e.last = d.last /\ e.row = d.row /\ e.file = d.file
    /\ e.ptr[o] = IF o \in alive THEN i ELSE d.ptr[o]
    /\ \A x \in Owners \ {o} : e.ptr[x] = d.ptr[x]
LosesRows(d, e, ids) ==
    /\ e.last = d.last /\ e.file = d.file
    /\ \A i \in 1..MaxImages : e.row[i] = IF i \in ids THEN NoRow ELSE d.row[i]
    /\ \A o \in Owners : e.ptr[o] = IF d.ptr[o] \in ids THEN NoImage ELSE d.ptr[o]
Refreshes(d, e, t, c) ==
    /\ e.last = d.last /\ e.ptr = d.ptr /\ e.file = d.file
    /\ \A i \in 1..MaxImages : e.row[i] =
          IF d.row[i] # NoRow /\ d.row[i].owner = CoverAlbum /\ d.row[i].path = t
          THEN [owner |-> CoverAlbum, path |-> t, content |-> c] ELSE d.row[i]
Writes(d, e, p, c) ==
    /\ e.last = d.last /\ e.ptr = d.ptr /\ e.row = d.row
    /\ e.file[p] = c /\ \A x \in Paths \ {p} : e.file[x] = d.file[x]

LEMMA CoverRowFields ==
  /\ \A x \in CoverRow : x.owner \in Owners /\ x.path \in Paths /\ x.content \in Contents /\ x # NoRow
  /\ \A o \in Owners, p \in Paths, c \in Contents :
        [owner |-> o, path |-> p, content |-> c] \in CoverRow
BY CoversAssumption DEF CoverRow

LEMMA CoverDbFields ==
  ASSUME NEW d \in CoverDb
  PROVE  /\ d.last \in 2..MaxImages /\ d.last \in Nat /\ MaxImages \in Nat
         /\ d.row \in [1..MaxImages -> CoverRow \cup {NoRow}]
         /\ d.ptr \in [Owners -> 0..MaxImages] /\ d.file \in [Paths -> Contents \cup {NoContent}]
         /\ \A i \in 1..MaxImages : d.row[i] # NoRow =>
               d.row[i] \in CoverRow /\ d.row[i].owner \in Owners /\ d.row[i].path \in Paths
BY CoversAssumption, CoverRowFields DEF CoverDb

LEMMA RowsOfAre ==
  ASSUME NEW d, Tidy(d), NEW o, NEW i
  PROVE  i \in RowsOf(d, o) <=> i \in 1..MaxImages /\ d.row[i] # NoRow /\ d.row[i].owner = o
BY CoverDbFields DEF RowsOf, Tidy, Shaped

LEMMA RowsOfIs ==
  ASSUME NEW d, Tidy(d), NEW o
  PROVE  RowsOf(d, o) = {i \in 1..MaxImages : d.row[i] # NoRow /\ d.row[i].owner = o}
<1>1. \A i : i \in RowsOf(d, o) <=> i \in 1..MaxImages /\ d.row[i] # NoRow /\ d.row[i].owner = o BY RowsOfAre
<1> QED BY <1>1

LEMMA SameRows ==
  ASSUME NEW d, Tidy(d), NEW e, Tidy(e), NEW o,
         \A i \in 1..MaxImages : (e.row[i] # NoRow /\ e.row[i].owner = o) <=> (d.row[i] # NoRow /\ d.row[i].owner = o)
  PROVE  RowsOf(e, o) = RowsOf(d, o)
<1>1. \A i : i \in RowsOf(d, o) <=> i \in 1..MaxImages /\ d.row[i] # NoRow /\ d.row[i].owner = o BY RowsOfAre
<1>2. \A i : i \in RowsOf(e, o) <=> i \in 1..MaxImages /\ e.row[i] # NoRow /\ e.row[i].owner = o BY RowsOfAre
<1> QED BY <1>1, <1>2

LEMMA OnlyRow ==
  ASSUME NEW d, Tidy(d), NEW o, NEW n \in 1..MaxImages,
         \A i \in 1..MaxImages : (d.row[i] # NoRow /\ d.row[i].owner = o) <=> i = n
  PROVE  RowsOf(d, o) = {n}
<1>1. \A i : i \in RowsOf(d, o) <=> i \in 1..MaxImages /\ d.row[i] # NoRow /\ d.row[i].owner = o BY RowsOfAre
<1> QED BY <1>1

LEMMA CreateFacts ==
  ASSUME NEW d, Tidy(d), NEW o \in Owners, NEW p \in Paths, NEW c \in Contents,
         p = o \/ (o = CoverAlbum /\ p \in CoverTracks), d.last + 1 <= MaxImages
  PROVE  Creates(d, Create(d, o, p, c), o, p, c) /\ Tidy(Create(d, o, p, c))
<1> DEFINE e == Create(d, o, p, c)  n == d.last + 1  x == [owner |-> o, path |-> p, content |-> c]
<1>1. d \in CoverDb /\ n \in 1..MaxImages /\ x \in CoverRow BY CoverDbFields, CoverRowFields DEF Tidy
<1>2. e = [d EXCEPT !.last = n, !.row = [d.row EXCEPT ![n] = x]] BY <1>1 DEF Create, CoverDb
<1> DEFINE newRows == [d.row EXCEPT ![n] = x]
<1>3. newRows \in [1..MaxImages -> CoverRow \cup {NoRow}] /\ n \in 2..MaxImages BY <1>1, CoverDbFields
<1>31. e \in CoverDb /\ e.row = newRows /\ e.ptr = d.ptr /\ e.last = n /\ e.file = d.file
  <2> HIDE DEF newRows, e, n
  <2> QED BY <1>1, <1>2, <1>3 DEF CoverDb, newRows
<1>4. Creates(d, e, o, p, c) BY <1>1, <1>31, CoverDbFields DEF Creates
<1>5. d.row[n] = NoRow BY <1>1, CoverDbFields DEF Tidy, Shaped
<1>6. x.owner = o /\ x.path = p OBVIOUS
<1> HIDE DEF e, x
<1>7. Shaped(e) BY <1>1, <1>31, <1>4, <1>5, <1>6, CoverDbFields DEF Tidy, Shaped, Creates, x
<1>8. PointersOwn(e)
  <2> SUFFICES ASSUME NEW y \in Owners, e.ptr[y] # NoImage PROVE e.row[e.ptr[y]] # NoRow /\ e.row[e.ptr[y]].owner = y BY DEF PointersOwn
  <2>1. d.ptr[y] \in 1..MaxImages /\ d.row[d.ptr[y]] # NoRow /\ d.row[d.ptr[y]].owner = y
    BY <1>1, <1>4, CoverDbFields DEF Tidy, PointersOwn, Creates, NoImage
  <2> QED BY <2>1, <1>4, <1>5 DEF Creates
<1> QED BY <1>31, <1>4, <1>7, <1>8 DEF Tidy, e

LEMMA PointFacts ==
  ASSUME NEW d, Tidy(d), NEW o \in Owners, NEW i \in 1..MaxImages, d.row[i] # NoRow, d.row[i].owner = o
  PROVE  Points(d, Point(d, o, i), o, i) /\ Tidy(Point(d, o, i))
<1> DEFINE e == Point(d, o, i)
<1>1. d \in CoverDb BY DEF Tidy
<1>2. CASE o \in alive
  <2>1. e = [d EXCEPT !.ptr = [d.ptr EXCEPT ![o] = i]] BY <1>1, <1>2 DEF Point, CoverDb
  <2> DEFINE ptrs == [d.ptr EXCEPT ![o] = i]
  <2>2. ptrs \in [Owners -> 0..MaxImages] BY <1>1, CoverDbFields
  <2>21. e \in CoverDb /\ e.row = d.row /\ e.ptr = ptrs /\ e.last = d.last /\ e.file = d.file
    <3> HIDE DEF ptrs, e
    <3> QED BY <1>1, <2>1, <2>2 DEF CoverDb, ptrs
  <2>3. Points(d, e, o, i) BY <1>1, <1>2, <2>21, CoverDbFields DEF Points
  <2> HIDE DEF e
  <2>4. Tidy(e) BY <2>21, <2>3, <1>2 DEF Points, Tidy, Shaped, PointersOwn
  <2> QED BY <2>3, <2>4 DEF e
<1>3. CASE o \notin alive BY <1>3 DEF Point, Points
<1> QED BY <1>2, <1>3

LEMMA DropsFacts ==
  ASSUME NEW d, Tidy(d), NEW ids
  PROVE  LosesRows(d, DropRows(d, ids), ids) /\ Tidy(DropRows(d, ids))
<1> DEFINE e == DropRows(d, ids)
           newRows == [i \in 1..MaxImages |-> IF i \in ids THEN NoRow ELSE d.row[i]]
           ptrs == [o \in Owners |-> IF d.ptr[o] \in ids THEN NoImage ELSE d.ptr[o]]
<1>1. d \in CoverDb BY DEF Tidy
<1>2. e = [d EXCEPT !.row = newRows, !.ptr = ptrs] BY <1>1 DEF DropRows, CoverDb
<1>3. newRows \in [1..MaxImages -> CoverRow \cup {NoRow}] BY <1>1, CoverDbFields
<1>4. ptrs \in [Owners -> 0..MaxImages] BY <1>1, CoverDbFields DEF NoImage
<1>5. e \in CoverDb /\ e.row = newRows /\ e.ptr = ptrs /\ e.last = d.last /\ e.file = d.file
  <2> HIDE DEF newRows, ptrs, e
  <2> QED BY <1>1, <1>2, <1>3, <1>4 DEF CoverDb
<1> HIDE DEF e
<1>6. LosesRows(d, e, ids) BY <1>5 DEF LosesRows
<1>7. Tidy(e)
  <2>1. Shaped(e) BY <1>5 DEF Tidy, Shaped
  <2>2. PointersOwn(e)
    <3> SUFFICES ASSUME NEW y \in Owners, e.ptr[y] # NoImage PROVE e.row[e.ptr[y]] # NoRow /\ e.row[e.ptr[y]].owner = y BY DEF PointersOwn
    <3>1. d.ptr[y] \in 1..MaxImages /\ d.ptr[y] \notin ids /\ e.ptr[y] = d.ptr[y] BY <1>1, <1>5, CoverDbFields DEF NoImage
    <3> QED BY <3>1, <1>5 DEF Tidy, PointersOwn, NoImage
  <2> QED BY <1>5, <2>1, <2>2 DEF Tidy
<1> QED BY <1>6, <1>7 DEF e

LEMMA DropRowFacts ==
  ASSUME NEW d, Tidy(d), NEW i
  PROVE  LosesRows(d, DropRow(d, i), {i} \ {NoImage}) /\ Tidy(DropRow(d, i))
<1>1. CASE i = NoImage
  <2>1. DropRow(d, i) = d BY <1>1 DEF DropRow
  <2> QED BY <1>1, <2>1 DEF LosesRows
<1>2. CASE i # NoImage
  <2>1. DropRow(d, i) = DropRows(d, {i}) /\ {i} \ {NoImage} = {i} BY <1>2 DEF DropRow
  <2> QED BY <2>1, DropsFacts
<1> QED BY <1>1, <1>2

LEMMA RefreshFacts ==
  ASSUME NEW d, Tidy(d), NEW t \in CoverTracks, NEW c \in Contents
  PROVE  Refreshes(d, RefreshAlbumsReferencing(d, t, c), t, c) /\ Tidy(RefreshAlbumsReferencing(d, t, c))
<1> DEFINE e == RefreshAlbumsReferencing(d, t, c)
           newRows == [i \in 1..MaxImages |-> IF i \in AlbumRowsAt(d, t) THEN [d.row[i] EXCEPT !.content = c] ELSE d.row[i]]
<1>1. d \in CoverDb BY DEF Tidy
<1>2. e = [d EXCEPT !.row = newRows] BY <1>1 DEF RefreshAlbumsReferencing, CoverDb
<1>3. \A i \in 1..MaxImages : i \in AlbumRowsAt(d, t) <=> d.row[i] # NoRow /\ d.row[i].owner = CoverAlbum /\ d.row[i].path = t
  BY RowsOfAre DEF AlbumRowsAt
<1>4. \A i \in 1..MaxImages : d.row[i] # NoRow =>
        [d.row[i] EXCEPT !.content = c] = [owner |-> d.row[i].owner, path |-> d.row[i].path, content |-> c]
  BY <1>1, CoverDbFields DEF CoverRow
<1>5. \A i \in 1..MaxImages : newRows[i] =
          IF d.row[i] # NoRow /\ d.row[i].owner = CoverAlbum /\ d.row[i].path = t
          THEN [owner |-> CoverAlbum, path |-> t, content |-> c] ELSE d.row[i]
  BY <1>3, <1>4
<1>6. newRows \in [1..MaxImages -> CoverRow \cup {NoRow}]
  <2>1. [owner |-> CoverAlbum, path |-> t, content |-> c] \in CoverRow BY CoverRowFields DEF Owners, Paths
  <2> QED BY <1>1, <1>5, <2>1, CoverDbFields
<1>7. e \in CoverDb /\ e.row = newRows /\ e.ptr = d.ptr /\ e.last = d.last /\ e.file = d.file
  <2> HIDE DEF newRows, e
  <2> QED BY <1>1, <1>2, <1>6 DEF CoverDb
<1> HIDE DEF e, newRows
<1>8. Refreshes(d, e, t, c) BY <1>5, <1>7 DEF Refreshes
<1>9. \A i \in 1..MaxImages : (e.row[i] # NoRow <=> d.row[i] # NoRow)
          /\ (d.row[i] # NoRow => e.row[i].owner = d.row[i].owner /\ e.row[i].path = d.row[i].path)
  <2>1. [owner |-> CoverAlbum, path |-> t, content |-> c] # NoRow BY CoverRowFields DEF Owners, Paths
  <2> QED BY <1>8, <2>1 DEF Refreshes
<1>10. Tidy(e)
  <2>1. Shaped(e) BY <1>7, <1>9 DEF Tidy, Shaped
  <2>2. PointersOwn(e)
    <3> SUFFICES ASSUME NEW y \in Owners, d.ptr[y] # NoImage PROVE e.row[d.ptr[y]] # NoRow /\ e.row[d.ptr[y]].owner = y BY <1>7 DEF PointersOwn
    <3>1. d.ptr[y] \in 1..MaxImages BY <1>1, CoverDbFields DEF NoImage
    <3> QED BY <3>1, <1>9 DEF Tidy, PointersOwn, NoImage
  <2> QED BY <1>7, <2>1, <2>2 DEF Tidy
<1> QED BY <1>8, <1>10 DEF e

LEMMA WriteFacts ==
  ASSUME NEW d, Tidy(d), NEW p \in Paths, NEW c \in Contents \cup {NoContent}
  PROVE  Writes(d, [d EXCEPT !.file[p] = c], p, c) /\ Tidy([d EXCEPT !.file[p] = c])
<1> DEFINE e == [d EXCEPT !.file[p] = c]
<1>1. d \in CoverDb BY DEF Tidy
<1>2. e = [d EXCEPT !.file = [d.file EXCEPT ![p] = c]] BY <1>1 DEF CoverDb
<1>3. e \in CoverDb BY <1>1, <1>2, CoverDbFields DEF CoverDb
<1>4. Writes(d, e, p, c) BY <1>1, <1>2, CoverDbFields DEF Writes, CoverDb
<1> HIDE DEF e
<1>5. Tidy(e) BY <1>3, <1>4 DEF Writes, Tidy, Shaped, PointersOwn
<1> QED BY <1>4, <1>5 DEF e

-----------------------------------------------------------------------------
(* What an import of o by a request that knows o by its row s does to the   *)
(* tables.  Rows keep their owners and paths; only s goes, and only when    *)
(* there is a new one; whatever is new is at o, and o has a row then.       *)
Known(d, i, o) == i \in 0..d.last /\ (i # NoImage /\ d.row[i] # NoRow => d.row[i].owner = o)
UpToDate(d, al, o, i) == RowsOf(d, o) = {i} \ {NoImage} /\ (o \in al => d.ptr[o] = i)
HasNewRow(d, e, o) == \E j \in 1..MaxImages : j > d.last /\ e.row[j] # NoRow /\ e.row[j].owner = o
HasARow(e, o) == \E j \in 1..MaxImages : e.row[j] # NoRow /\ e.row[j].owner = o
AlbumRow(d, i, p) == d.row[i] # NoRow /\ d.row[i].owner = CoverAlbum /\ d.row[i].path = p

OwnPointer(d, e, o, s, c) ==
    \/ e.ptr[o] \in {d.ptr[o], NoImage} \/ e.row[e.ptr[o]].content = c
    \/ e.ptr[o] = s /\ s # NoImage /\ d.row[s] # NoRow
Imports(d, e, o, s, c) ==
    /\ Tidy(e) /\ d.last <= e.last /\ OwnPointer(d, e, o, s, c)
    /\ \A i \in 1..MaxImages : i <= d.last =>
          \/ e.row[i] = d.row[i]
          \/ e.row[i] = NoRow /\ i = s /\ d.row[i] # NoRow /\ d.row[i].owner = o /\ HasNewRow(d, e, o)
          \/ AlbumRow(d, i, o) /\ AlbumRow(e, i, o)
    /\ \A i \in 1..MaxImages : i > d.last /\ e.row[i] # NoRow =>
          e.row[i].path = o /\ (e.row[i].owner = o \/ (e.row[i].owner = CoverAlbum /\ HasARow(e, o)))
    /\ \A x \in Owners \ {o, CoverAlbum} : e.ptr[x] = d.ptr[x]
    /\ \A p \in Paths \ {o} : e.file[p] = d.file[p]

(* It failed, and all is as it was: the pointer, too, if s was current.     *)
Failed(d, e, o, s) ==
    /\ \A i \in 1..MaxImages : e.row[i] = d.row[i]
    /\ \A p \in Paths : e.file[p] = d.file[p]
    /\ \A x \in Owners \ {o} : e.ptr[x] = d.ptr[x]
    /\ UpToDate(d, alive, o, s) => e.ptr[o] = d.ptr[o]

(* It went well: o has a new row instead of s, or it still has s, and the   *)
(* file and all rows at o have the new content, if o has no other row.   *)
(* The album keeps its rows, or gets its first if none was read (a).     *)
OwnReplaced(d, e, o, s, c) == \E n \in 1..MaxImages :
    /\ n > d.last /\ e.row[n] # NoRow /\ e.row[n].owner = o /\ e.row[n].content = c /\ (o \in alive => e.ptr[o] = n)
    /\ \A i \in 1..MaxImages : (e.row[i] # NoRow /\ e.row[i].owner = o) <=>
          (i = n \/ (i # s /\ d.row[i] # NoRow /\ d.row[i].owner = o))
    /\ \A i \in 1..MaxImages : AlbumRow(e, i, o) => e.row[i].content = c
OwnKept(d, e, o, s, c) ==
    /\ s # NoImage /\ d.row[s] # NoRow /\ d.row[s].owner = o /\ d.row[s].content = c /\ e.ptr[o] = d.ptr[o]
    /\ \A i \in 1..MaxImages : e.row[i] # d.row[i] => i > d.last /\ AlbumRow(e, i, o) /\ e.row[i].content = c
AlbumGets(d, e, a) ==
    \/ /\ e.ptr[CoverAlbum] = d.ptr[CoverAlbum]
       /\ \A i \in 1..MaxImages : (e.row[i] # NoRow /\ e.row[i].owner = CoverAlbum) <=> (d.row[i] # NoRow /\ d.row[i].owner = CoverAlbum)
    \/ /\ a = NoImage
       /\ \E m \in 1..MaxImages :
             /\ CoverAlbum \in alive => e.ptr[CoverAlbum] = m
             /\ \A i \in 1..MaxImages : (e.row[i] # NoRow /\ e.row[i].owner = CoverAlbum)
                                        <=> (i = m \/ (d.row[i] # NoRow /\ d.row[i].owner = CoverAlbum))
Done(d, e, o, s, a, c) ==
    /\ e.file[o] = c /\ c \in Contents /\ AlbumGets(d, e, a)
    /\ OwnReplaced(d, e, o, s, c) \/ OwnKept(d, e, o, s, c)

LEMMA OwnersApart == CoverAlbum \notin Paths /\ Paths \subseteq Owners /\ CoverAlbum \in Owners /\ CoverTracks \subseteq Paths
                     /\ CoverArtist \in Paths /\ CoverArtist \notin CoverTracks
BY CoversAssumption DEF Paths, Owners

LEMMA NextIdIsFree ==
  ASSUME NEW d, Tidy(d)
  PROVE  \A i \in 1..MaxImages : i > d.last => d.row[i] = NoRow
BY CoverDbFields DEF Tidy, Shaped

(* The way back from a new row n of o that may already be pointed at.       *)
LEMMA RollbackFacts ==
  ASSUME NEW d, Tidy(d), NEW f, Tidy(f), NEW o \in Paths, NEW s, Known(d, s, o),
         d.last + 1 <= MaxImages, f.last = d.last + 1, f.row[d.last + 1] # NoRow,
         \A i \in 1..MaxImages : i # d.last + 1 => f.row[i] = d.row[i],
         f.ptr[o] = (IF o \in alive THEN d.last + 1 ELSE d.ptr[o]),
         \A x \in Owners \ {o} : f.ptr[x] = d.ptr[x],
         NEW e, e = RollbackNewRow(f, o, d.last + 1, s)
  PROVE  /\ Tidy(e) /\ e.last = f.last /\ e.file = f.file
         /\ \A i \in 1..MaxImages : e.row[i] = d.row[i]
         /\ \A x \in Owners \ {o} : e.ptr[x] = d.ptr[x]
         /\ UpToDate(d, alive, o, s) => e.ptr[o] = d.ptr[o]
         /\ \A c : OwnPointer(d, e, o, s, c)
<1> DEFINE n == d.last + 1
           b == IF Exists(f, s) THEN Point(f, o, s) ELSE f
<1>1. d \in CoverDb /\ f \in CoverDb /\ n \in 2..MaxImages /\ d.last \in 2..MaxImages /\ MaxImages \in Nat BY CoverDbFields DEF Tidy
<1>2. s \in 0..d.last /\ o \in Owners BY OwnersApart DEF Known
<1>3. Exists(f, s) => s \in 1..MaxImages /\ s # n /\ f.row[s] # NoRow /\ f.row[s] = d.row[s] /\ f.row[s].owner = o
  <2> SUFFICES ASSUME s # NoImage, f.row[s] # NoRow PROVE s \in 1..MaxImages /\ s # n /\ f.row[s] = d.row[s] /\ f.row[s].owner = o BY DEF Exists
  <2>1. s \in 1..MaxImages /\ s # n BY <1>1, <1>2 DEF NoImage
  <2>2. f.row[s] = d.row[s] BY <2>1
  <2> QED BY <2>1, <2>2 DEF Known
<1>4. /\ Tidy(b) /\ b.last = f.last /\ b.file = f.file /\ b.row = f.row
      /\ \A x \in Owners \ {o} : b.ptr[x] = f.ptr[x]
      /\ b.ptr[o] = IF o \in alive /\ Exists(f, s) THEN s ELSE f.ptr[o]
  <2>1. CASE Exists(f, s)
    <3>1. Points(f, b, o, s) /\ Tidy(b) BY <1>2, <1>3, <2>1, PointFacts
    <3> QED BY <2>1, <3>1 DEF Points
  <2>2. CASE ~Exists(f, s) BY <2>2
  <2> QED BY <2>1, <2>2
<1>5. e = DropRow(b, n) BY DEF RollbackNewRow
<1>6. n # NoImage BY <1>1 DEF NoImage
<1> HIDE DEF b
<1>7. LosesRows(b, e, {n}) /\ Tidy(e)
  <2>1. {n} \ {NoImage} = {n} BY <1>6
  <2> QED BY <1>4, <1>5, <2>1, DropRowFacts
<1>8. d.row[n] = NoRow BY <1>1, NextIdIsFree
<1>9. \A x \in Owners : d.ptr[x] # n BY <1>1, <1>8, <1>6 DEF Tidy, PointersOwn
<1>10. UpToDate(d, alive, o, s) => e.ptr[o] = d.ptr[o]
  <2> SUFFICES ASSUME UpToDate(d, alive, o, s) PROVE e.ptr[o] = d.ptr[o] OBVIOUS
  <2>1. CASE o \notin alive BY <2>1, <1>2, <1>4, <1>7, <1>9 DEF LosesRows
  <2>2. CASE o \in alive
    <3>1. d.ptr[o] = s BY <2>2 DEF UpToDate
    <3>2. CASE s = NoImage
      <4>1. b.ptr[o] = n BY <2>2, <3>2, <1>4 DEF Exists
      <4> QED BY <3>1, <3>2, <4>1, <1>2, <1>7 DEF LosesRows
    <3>3. CASE s # NoImage
      <4>1. d.row[s] # NoRow /\ s # n /\ f.row[s] = d.row[s] BY <3>1, <3>3, <1>1, <1>2 DEF Tidy, PointersOwn, NoImage
      <4> QED BY <2>2, <3>1, <3>3, <4>1, <1>2, <1>4, <1>7 DEF LosesRows, Exists
    <3> QED BY <3>2, <3>3
  <2> QED BY <2>1, <2>2
<1>11. \A i \in 1..MaxImages : e.row[i] = d.row[i] BY <1>4, <1>7, <1>8 DEF LosesRows
<1>12. \A x \in Owners \ {o} : e.ptr[x] = d.ptr[x] BY <1>4, <1>7, <1>9 DEF LosesRows
<1>13. \A c : OwnPointer(d, e, o, s, c)
  <2>1. e.ptr[o] = b.ptr[o] \/ e.ptr[o] = NoImage BY <1>2, <1>7 DEF LosesRows
  <2>2. CASE o \in alive /\ Exists(f, s) BY <1>3, <1>4, <2>1, <2>2 DEF OwnPointer, Exists
  <2>3. CASE o \in alive /\ ~Exists(f, s) BY <1>2, <1>4, <1>7, <2>3 DEF OwnPointer, LosesRows
  <2>4. CASE o \notin alive BY <1>4, <2>1, <2>4 DEF OwnPointer
  <2> QED BY <2>2, <2>3, <2>4
<1> QED BY <1>4, <1>7, <1>10, <1>11, <1>12, <1>13 DEF LosesRows

GivesAlbum(d, e, t, c) ==
    /\ e.last = d.last + 1 /\ e.file = d.file
    /\ e.row[d.last + 1] = [owner |-> CoverAlbum, path |-> t, content |-> c]
    /\ \A i \in 1..MaxImages : i # d.last + 1 => e.row[i] = d.row[i]
    /\ e.ptr[CoverAlbum] = IF CoverAlbum \in alive THEN d.last + 1 ELSE d.ptr[CoverAlbum]
    /\ \A x \in Owners \ {CoverAlbum} : e.ptr[x] = d.ptr[x]

LEMMA CreateAlbumImageFacts ==
  ASSUME NEW d, Tidy(d), NEW t \in CoverTracks, NEW c \in Contents, d.last + 1 <= MaxImages
  PROVE  GivesAlbum(d, CreateAlbumImage(d, t, c), t, c) /\ Tidy(CreateAlbumImage(d, t, c))
<1> DEFINE new == Create(d, CoverAlbum, t, c)  e == Point(new, CoverAlbum, new.last)
<1>1. t \in Paths /\ CoverAlbum \in Owners BY OwnersApart
<1>2. Creates(d, new, CoverAlbum, t, c) /\ Tidy(new) BY <1>1, CreateFacts
<1>3. d.last + 1 \in 1..MaxImages BY CoverDbFields DEF Tidy
<1>4. e = CreateAlbumImage(d, t, c) BY DEF CreateAlbumImage
<1> DEFINE x == [owner |-> CoverAlbum, path |-> t, content |-> c]
<1>5. x.owner = CoverAlbum /\ x # NoRow BY <1>1, CoverRowFields
<1> HIDE DEF new, x
<1>6. new.last = d.last + 1 /\ new.row[new.last] = x BY <1>2 DEF Creates, x
<1>7. Points(new, e, CoverAlbum, new.last) /\ Tidy(e) BY <1>1, <1>2, <1>3, <1>5, <1>6, PointFacts
<1> HIDE DEF e
<1>8. GivesAlbum(d, e, t, c) BY <1>1, <1>2, <1>7 DEF Creates, Points, GivesAlbum
<1> QED BY <1>4, <1>7, <1>8

Hows == {"ok", "failed", "half", "stuck", "crash"}

LEMMA RowNew ==
  ASSUME NEW o \in Owners, NEW p \in Paths, NEW c \in Contents, NEW x, x = [owner |-> o, path |-> p, content |-> c]
  PROVE  x # NoRow /\ x.owner = o /\ x.path = p /\ x.content = c
BY CoverRowFields

(* One row for another: the stages of Replaced, from db.                    *)
LEMMA ReplacedStages ==
  ASSUME Tidy(db), NEW o \in Paths, NEW c \in Contents, Room, NEW s, Known(db, s, o),
         NEW created, created = Create(db, o, o, c),
         NEW pointed, pointed = Point(created, o, created.last),
         NEW renamed, renamed = [pointed EXCEPT !.file[o] = c],
         NEW retired, retired = Retire(renamed, s)
  PROVE  /\ Creates(db, created, o, o, c) /\ Tidy(created)
         /\ Points(created, pointed, o, created.last) /\ Tidy(pointed)
         /\ Writes(pointed, renamed, o, c) /\ Tidy(renamed)
         /\ LosesRows(renamed, retired, {s} \ {NoImage}) /\ Tidy(retired)
<1>1. o \in Owners /\ db.last + 1 \in 1..MaxImages BY OwnersApart, CoverDbFields DEF Room, Tidy
<1>2. Creates(db, created, o, o, c) /\ Tidy(created) BY <1>1, CreateFacts
<1> DEFINE x == [owner |-> o, path |-> o, content |-> c]
<1>3. x # NoRow /\ x.owner = o BY <1>1, RowNew
<1> HIDE DEF x
<1>4. created.last \in 1..MaxImages /\ created.row[created.last] = x BY <1>1, <1>2 DEF Creates, x
<1>5. Points(created, pointed, o, created.last) /\ Tidy(pointed) BY <1>1, <1>2, <1>3, <1>4, PointFacts
<1>6. Writes(pointed, renamed, o, c) /\ Tidy(renamed) BY <1>5, WriteFacts
<1>7. LosesRows(renamed, retired, {s} \ {NoImage}) /\ Tidy(retired) BY <1>6, DropRowFacts DEF Retire
<1> QED BY <1>2, <1>5, <1>6, <1>7

(* Up to the new row, the pointer and the file nothing else changes.        *)
LEMMA NewRowOnly ==
  ASSUME Tidy(db), NEW o \in Paths, NEW c \in Contents, Room, NEW s, Known(db, s, o), NEW e, Tidy(e),
         e.last = db.last + 1, e.row[db.last + 1] = [owner |-> o, path |-> o, content |-> c],
         \A i \in 1..MaxImages : i # db.last + 1 => e.row[i] = db.row[i],
         \A x \in Owners \ {o} : e.ptr[x] = db.ptr[x],
         \A p \in Paths \ {o} : e.file[p] = db.file[p], OwnPointer(db, e, o, s, c)
  PROVE  Imports(db, e, o, s, c)
<1> DEFINE x == [owner |-> o, path |-> o, content |-> c]
<1>1. x.owner = o /\ x.path = o BY OwnersApart, RowNew
<1>2. e.row[db.last + 1] = x OBVIOUS
<1> HIDE DEF x
<1>3. db.last \in Nat /\ e.last \in Nat /\ e.last <= MaxImages BY CoverDbFields DEF Tidy
<1>4. \A i \in 1..MaxImages : i > db.last /\ e.row[i] # NoRow => e.row[i].path = o /\ e.row[i].owner = o
  BY <1>1, <1>2, <1>3 DEF Tidy, Shaped
<1> QED BY <1>3, <1>4 DEF Imports

(* The old row goes, and the album's rows at the path follow.            *)
LEMMA OldRowGoes ==
  ASSUME Tidy(db), NEW o \in Paths, NEW c \in Contents, Room, NEW s, Known(db, s, o),
         NEW created, created = Create(db, o, o, c),
         NEW pointed, pointed = Point(created, o, created.last),
         NEW renamed, renamed = [pointed EXCEPT !.file[o] = c],
         NEW retired, retired = Retire(renamed, s),
         NEW done, done = IF o \in CoverTracks THEN RefreshAlbumsReferencing(retired, o, c) ELSE retired
  PROVE  /\ Tidy(done) /\ done.last = db.last + 1
         /\ done.row[db.last + 1] = [owner |-> o, path |-> o, content |-> c]
         /\ \A i \in 1..MaxImages : i # db.last + 1 =>
               \/ i = s /\ s # NoImage /\ done.row[i] = NoRow
               \/ i # s /\ AlbumRow(db, i, o) /\ AlbumRow(done, i, o) /\ done.row[i].content = c
               \/ i # s /\ ~AlbumRow(db, i, o) /\ done.row[i] = db.row[i]
         /\ o \in alive => done.ptr[o] = db.last + 1
         /\ \A x \in Owners \ {o} : done.ptr[x] = db.ptr[x]
         /\ done.file[o] = c /\ \A p \in Paths \ {o} : done.file[p] = db.file[p]
         /\ Imports(db, done, o, s, c) /\ Imports(db, retired, o, s, c)
<1> DEFINE n == db.last + 1
<1>1. /\ Creates(db, created, o, o, c) /\ Tidy(created) /\ Points(created, pointed, o, n) /\ Tidy(pointed)
      /\ Writes(pointed, renamed, o, c) /\ Tidy(renamed) /\ LosesRows(renamed, retired, {s} \ {NoImage}) /\ Tidy(retired)
  BY ReplacedStages DEF Creates
<1>2. /\ n \in 2..MaxImages /\ n \notin {s} \ {NoImage} /\ n # s /\ s \in 0..db.last /\ db.last \in Nat /\ MaxImages \in Nat /\ o \in Owners
  BY OwnersApart, CoverDbFields DEF Room, Tidy, Known
<1> DEFINE x == [owner |-> o, path |-> o, content |-> c]
           y == [owner |-> CoverAlbum, path |-> o, content |-> c]
<1>3. x # NoRow /\ x.owner = o /\ x.path = o /\ x.content = c /\ y # NoRow /\ y.owner = CoverAlbum /\ y.path = o /\ y.content = c
  BY <1>2, OwnersApart, RowNew
<1>4. o # CoverAlbum BY OwnersApart
<1>5. \A i \in 1..MaxImages : AlbumRow(db, i, o) => o \in CoverTracks BY <1>4, CoverDbFields DEF AlbumRow, Tidy, Shaped
<1>6. \A z \in Owners \ {o} : db.ptr[z] \notin {s} \ {NoImage}
  BY <1>2 DEF Tidy, PointersOwn, Known
<1> HIDE DEF x, y
<1>7. /\ retired.last = n /\ retired.row[n] = x
      /\ \A i \in 1..MaxImages : i # n => retired.row[i] = IF i \in {s} \ {NoImage} THEN NoRow ELSE db.row[i]
      /\ o \in alive => retired.ptr[o] = n
      /\ o \notin alive => retired.ptr[o] \in {db.ptr[o], NoImage}
      /\ \A z \in Owners \ {o} : retired.ptr[z] = db.ptr[z]
      /\ retired.file[o] = c /\ \A p \in Paths \ {o} : retired.file[p] = db.file[p]
  <2>1. created.last = n /\ created.row[n] = x /\ created.ptr = db.ptr /\ created.file = db.file
        /\ \A i \in 1..MaxImages : i # n => created.row[i] = db.row[i] BY <1>1 DEF Creates, x
  <2>2. renamed.last = n /\ renamed.row = created.row /\ renamed.ptr = pointed.ptr /\ renamed.file[o] = c
        /\ \A p \in Paths \ {o} : renamed.file[p] = db.file[p] BY <1>1, <2>1 DEF Points, Writes
  <2>3. renamed.ptr[o] = (IF o \in alive THEN n ELSE db.ptr[o]) /\ \A z \in Owners \ {o} : renamed.ptr[z] = db.ptr[z]
    BY <1>1, <2>1, <2>2 DEF Points
  <2>4. retired.last = n /\ retired.file = renamed.file
        /\ (\A i \in 1..MaxImages : retired.row[i] = IF i \in {s} \ {NoImage} THEN NoRow ELSE renamed.row[i])
        /\ \A z \in Owners : retired.ptr[z] = IF renamed.ptr[z] \in {s} \ {NoImage} THEN NoImage ELSE renamed.ptr[z]
    BY <1>1, <2>2 DEF LosesRows
  <2>5. retired.row[n] = x /\ \A i \in 1..MaxImages : i # n => retired.row[i] = IF i \in {s} \ {NoImage} THEN NoRow ELSE db.row[i]
    BY <1>2, <2>1, <2>2, <2>4
  <2>6. o \in alive => retired.ptr[o] = n BY <1>2, <2>3, <2>4
  <2>7. \A z \in Owners \ {o} : retired.ptr[z] = db.ptr[z] BY <1>6, <2>3, <2>4
  <2>8. o \notin alive => retired.ptr[o] \in {db.ptr[o], NoImage} BY <1>2, <2>3, <2>4
  <2> QED BY <2>2, <2>4, <2>5, <2>6, <2>7, <2>8
<1>8. /\ Tidy(done) /\ done.last = n /\ done.ptr = retired.ptr /\ done.file = retired.file
      /\ \A i \in 1..MaxImages : done.row[i] = IF AlbumRow(retired, i, o) THEN y ELSE retired.row[i]
  <2>1. CASE o \in CoverTracks
    <3>1. Refreshes(retired, done, o, c) /\ Tidy(done) BY <1>1, <2>1, RefreshFacts
    <3> QED BY <1>7, <3>1 DEF Refreshes, AlbumRow, y
  <2>2. CASE o \notin CoverTracks
    <3>1. \A i \in 1..MaxImages : ~AlbumRow(retired, i, o) BY <2>2, <1>1, <1>4 DEF AlbumRow, Tidy, Shaped
    <3> QED BY <2>2, <3>1, <1>1, <1>7
  <2> QED BY <2>1, <2>2
<1>9. done.row[n] = x BY <1>2, <1>3, <1>4, <1>7, <1>8 DEF AlbumRow
<1>10. \A i \in 1..MaxImages : i # n =>
               \/ i = s /\ s # NoImage /\ done.row[i] = NoRow
               \/ i # s /\ AlbumRow(db, i, o) /\ AlbumRow(done, i, o) /\ done.row[i].content = c
               \/ i # s /\ ~AlbumRow(db, i, o) /\ done.row[i] = db.row[i]
  <2> SUFFICES ASSUME NEW i \in 1..MaxImages, i # n
               PROVE \/ i = s /\ s # NoImage /\ done.row[i] = NoRow
                     \/ i # s /\ AlbumRow(db, i, o) /\ AlbumRow(done, i, o) /\ done.row[i].content = c
                     \/ i # s /\ ~AlbumRow(db, i, o) /\ done.row[i] = db.row[i] OBVIOUS
  <2>1. CASE i = s BY <2>1, <1>2, <1>7, <1>8 DEF AlbumRow, NoImage
  <2>2. CASE i # s
    <3>1. retired.row[i] = db.row[i] BY <2>2, <1>7
    <3> QED BY <2>2, <3>1, <1>3, <1>8 DEF AlbumRow
  <2> QED BY <2>1, <2>2
<1>11. HasNewRow(db, retired, o) /\ HasNewRow(db, done, o)
  <2>1. n > db.last /\ n \in 1..MaxImages BY <1>2
  <2> QED BY <2>1, <1>3, <1>7, <1>9 DEF HasNewRow
<1>12. \A i \in 1..MaxImages : i > n => retired.row[i] = NoRow /\ done.row[i] = NoRow BY <1>1, <1>7, <1>8, NextIdIsFree
<1>13. db.last <= n /\ \A i \in 1..MaxImages : i > db.last => i = n \/ i > n BY <1>2
<1>14. \A i \in 1..MaxImages : i = s /\ db.row[i] # NoRow => db.row[i].owner = o BY <1>2 DEF Known, NoImage
<1>141. OwnPointer(db, retired, o, s, c) /\ OwnPointer(db, done, o, s, c)
  <2>1. CASE o \in alive
    <3>1. retired.ptr[o] = n /\ done.ptr[o] = n BY <2>1, <1>7, <1>8
    <3>2. retired.row[n].content = c /\ done.row[n].content = c BY <1>3, <1>7, <1>9
    <3> QED BY <3>1, <3>2 DEF OwnPointer
  <2>2. CASE o \notin alive
    <3>1. retired.ptr[o] \in {db.ptr[o], NoImage} /\ done.ptr[o] = retired.ptr[o] BY <2>2, <1>7, <1>8
    <3> QED BY <3>1 DEF OwnPointer
  <2> QED BY <2>1, <2>2
<1>15. Imports(db, retired, o, s, c)
  <2>1. \A i \in 1..MaxImages : i <= db.last =>
          \/ retired.row[i] = db.row[i]
          \/ retired.row[i] = NoRow /\ i = s /\ db.row[i] # NoRow /\ db.row[i].owner = o /\ HasNewRow(db, retired, o)
    BY <1>2, <1>7, <1>11, <1>14
  <2> QED BY <2>1, <1>1, <1>3, <1>7, <1>12, <1>13, <1>141 DEF Imports
<1>16. Imports(db, done, o, s, c)
  <2>1. \A i \in 1..MaxImages : i <= db.last =>
          \/ done.row[i] = db.row[i]
          \/ done.row[i] = NoRow /\ i = s /\ db.row[i] # NoRow /\ db.row[i].owner = o /\ HasNewRow(db, done, o)
          \/ AlbumRow(db, i, o) /\ AlbumRow(done, i, o)
    BY <1>2, <1>10, <1>11, <1>14
  <2>2. \A i \in 1..MaxImages : i > db.last /\ done.row[i] # NoRow => done.row[i] = x BY <1>9, <1>12, <1>13
  <2>3. \A i \in 1..MaxImages : i > db.last /\ done.row[i] # NoRow =>
          done.row[i].path = o /\ (done.row[i].owner = o \/ (done.row[i].owner = CoverAlbum /\ HasARow(done, o)))
    BY <2>2, <1>3
  <2>4. Tidy(done) /\ db.last <= done.last BY <1>8, <1>13
  <2>5. (\A z \in Owners \ {o, CoverAlbum} : done.ptr[z] = db.ptr[z]) /\ \A p \in Paths \ {o} : done.file[p] = db.file[p]
    BY <1>7, <1>8
  <2> QED BY <2>1, <2>3, <2>4, <2>5, <1>141 DEF Imports
<1>17. Tidy(done) /\ done.last = db.last + 1 /\ done.row[db.last + 1] = [owner |-> o, path |-> o, content |-> c]
  BY <1>8, <1>9 DEF x
<1>18. /\ o \in alive => done.ptr[o] = db.last + 1
       /\ \A z \in Owners \ {o} : done.ptr[z] = db.ptr[z]
       /\ done.file[o] = c /\ \A p \in Paths \ {o} : done.file[p] = db.file[p]
  BY <1>7, <1>8
<1> QED BY <1>10, <1>15, <1>16, <1>17, <1>18

LEMMA WithAlbumFacts ==
  ASSUME Tidy(db), NEW o \in Paths, NEW c \in Contents, Room, NEW s, NEW q,
         NEW f, Imports(db, f, o, s, c), f.last <= db.last + 1, f.file[o] = c, HasARow(f, o),
         f.ptr[CoverAlbum] = db.ptr[CoverAlbum],
         \A i \in 1..MaxImages : (f.row[i] # NoRow /\ f.row[i].owner = CoverAlbum) <=> (db.row[i] # NoRow /\ db.row[i].owner = CoverAlbum),
         OwnReplaced(db, f, o, s, c) \/ OwnKept(db, f, o, s, c),
         NEW x \in WithAlbum(f, q, o, c)
  PROVE  x.how = "ok" /\ Imports(db, x.db, o, s, c) /\ Done(db, x.db, o, s, q.album, c)
<1> DEFINE e == CreateAlbumImage(f, o, c)  m == f.last + 1
<1>1. CASE x = CoverOutcome(f, "ok") BY <1>1 DEF CoverOutcome, Done, AlbumGets
<1>2. CASE o \in CoverTracks /\ q.album = NoImage /\ x = CoverOutcome(e, "ok")
  <2>1. Tidy(f) /\ db.last \in Nat /\ MaxImages \in Nat /\ f.last \in 2..MaxImages /\ m \in 1..MaxImages /\ db.last <= f.last
    BY CoverDbFields DEF Imports, Tidy, Room
  <2>2. GivesAlbum(f, e, o, c) /\ Tidy(e) BY <1>2, <2>1, CreateAlbumImageFacts
  <2>3. x.how = "ok" /\ x.db = e BY <1>2 DEF CoverOutcome
  <2> DEFINE y == [owner |-> CoverAlbum, path |-> o, content |-> c]
  <2>4. y # NoRow /\ y.owner = CoverAlbum /\ y.path = o /\ y.content = c BY OwnersApart, RowNew
  <2>5. o # CoverAlbum /\ o \in Owners BY OwnersApart
  <2> HIDE DEF e, y
  <2>6. e.row[m] = y /\ f.row[m] = NoRow /\ \A i \in 1..MaxImages : i # m => e.row[i] = f.row[i]
    BY <2>1, <2>2, NextIdIsFree DEF GivesAlbum, y
  <2>7. m > db.last /\ \A i \in 1..MaxImages : i <= db.last => i # m BY <2>1
  <2>8. HasARow(e, o) BY <2>6 DEF HasARow
  <2>9. HasNewRow(db, f, o) => HasNewRow(db, e, o) BY <2>6 DEF HasNewRow
  <2>10. Imports(db, e, o, s, c)
    <3>1. \A i \in 1..MaxImages : i <= db.last =>
            \/ e.row[i] = db.row[i]
            \/ e.row[i] = NoRow /\ i = s /\ db.row[i] # NoRow /\ db.row[i].owner = o /\ HasNewRow(db, e, o)
            \/ AlbumRow(db, i, o) /\ AlbumRow(e, i, o)
      BY <2>6, <2>7, <2>9 DEF Imports, AlbumRow
    <3>2. \A i \in 1..MaxImages : i > db.last /\ e.row[i] # NoRow =>
            e.row[i].path = o /\ (e.row[i].owner = o \/ (e.row[i].owner = CoverAlbum /\ HasARow(e, o)))
      BY <2>4, <2>6, <2>8 DEF Imports
    <3>3. Tidy(e) /\ db.last <= e.last BY <2>1, <2>2 DEF GivesAlbum
    <3>4. (\A z \in Owners \ {o, CoverAlbum} : e.ptr[z] = db.ptr[z]) /\ \A p \in Paths \ {o} : e.file[p] = db.file[p]
      BY <2>2 DEF GivesAlbum, Imports
    <3>5. OwnPointer(db, e, o, s, c)
      <4>1. e.ptr[o] = f.ptr[o] BY <2>2, <2>5 DEF GivesAlbum
      <4>2. f.ptr[o] = NoImage \/ (f.ptr[o] \in 1..MaxImages /\ f.ptr[o] # m)
        BY <2>1, <2>5, <2>6, CoverDbFields DEF Tidy, PointersOwn, NoImage
      <4> QED BY <2>6, <4>1, <4>2 DEF Imports, OwnPointer
    <3> QED BY <3>1, <3>2, <3>3, <3>4, <3>5 DEF Imports
  <2>11. AlbumGets(db, e, q.album)
    <3>1. CoverAlbum \in alive => e.ptr[CoverAlbum] = m BY <2>2 DEF GivesAlbum
    <3>2. \A i \in 1..MaxImages : (e.row[i] # NoRow /\ e.row[i].owner = CoverAlbum)
                                        <=> (i = m \/ (db.row[i] # NoRow /\ db.row[i].owner = CoverAlbum))
      BY <2>4, <2>6
    <3> QED BY <1>2, <2>1, <3>1, <3>2 DEF AlbumGets
  <2>12. CASE OwnReplaced(db, f, o, s, c)
    <3> PICK n \in 1..MaxImages :
            /\ n > db.last /\ f.row[n] # NoRow /\ f.row[n].owner = o /\ f.row[n].content = c /\ (o \in alive => f.ptr[o] = n)
            /\ \A i \in 1..MaxImages : (f.row[i] # NoRow /\ f.row[i].owner = o) <=>
                  (i = n \/ (i # s /\ db.row[i] # NoRow /\ db.row[i].owner = o))
            /\ \A i \in 1..MaxImages : AlbumRow(f, i, o) => f.row[i].content = c
      BY <2>12 DEF OwnReplaced
    <3>1. n # m BY <2>6
    <3>2. e.row[n] = f.row[n] /\ e.ptr[o] = f.ptr[o] BY <3>1, <2>2, <2>5, <2>6 DEF GivesAlbum
    <3>3. \A i \in 1..MaxImages : (e.row[i] # NoRow /\ e.row[i].owner = o) <=>
                  (i = n \/ (i # s /\ db.row[i] # NoRow /\ db.row[i].owner = o))
      BY <2>4, <2>5, <2>6
    <3>4. \A i \in 1..MaxImages : AlbumRow(e, i, o) => e.row[i].content = c BY <2>4, <2>6 DEF AlbumRow
    <3>5. OwnReplaced(db, e, o, s, c) BY <3>2, <3>3, <3>4 DEF OwnReplaced
    <3> QED BY <2>2, <2>3, <2>10, <2>11, <3>5 DEF Done, GivesAlbum
  <2>13. CASE OwnKept(db, f, o, s, c)
    <3>1. e.ptr[o] = db.ptr[o] BY <2>2, <2>5, <2>13 DEF GivesAlbum, OwnKept
    <3>2. \A i \in 1..MaxImages : e.row[i] # db.row[i] => i > db.last /\ AlbumRow(e, i, o) /\ e.row[i].content = c
      BY <2>4, <2>6, <2>7, <2>13 DEF OwnKept, AlbumRow
    <3>3. OwnKept(db, e, o, s, c) BY <2>13, <3>1, <3>2 DEF OwnKept
    <3> QED BY <2>2, <2>3, <2>10, <2>11, <3>3 DEF Done, GivesAlbum
  <2> QED BY <2>12, <2>13
<1> QED BY <1>1, <1>2 DEF WithAlbum

Outcomes(o, s, a, c, x) ==
    /\ x.how \in Hows /\ Imports(db, x.db, o, s, c)
    /\ x.how = "failed" => Failed(db, x.db, o, s)
    /\ x.how = "ok" => Done(db, x.db, o, s, a, c)

LEMMA ReplacedFacts ==
  ASSUME Tidy(db), NEW o \in Paths, NEW c \in Contents, Room, NEW q, Known(db, q.snap, o), NEW x \in Replaced(q, o, c)
  PROVE  Outcomes(o, q.snap, q.album, c, x)
<1> DEFINE s == q.snap
           created == Create(db, o, o, c)
           new == created.last
           pointed == Point(created, o, new)
           renamed == [pointed EXCEPT !.file[o] = c]
           retired == Retire(renamed, s)
           done == IF o \in CoverTracks THEN RefreshAlbumsReferencing(retired, o, c) ELSE retired
<1>1. \/ x = CoverOutcome(DropRow(created, new), "failed")
      \/ x = CoverOutcome(RollbackNewRow(pointed, o, new, s), "failed")
      \/ x = CoverOutcome(RollbackNewRow(renamed, o, new, s), "half")
      \/ x = CoverOutcome(pointed, "stuck")
      \/ \E d \in {created, pointed, renamed, retired} : x = CoverOutcome(d, "crash")
      \/ x \in WithAlbum(done, q, o, c)
  BY DEF Replaced
<1> HIDE DEF created, pointed, renamed, retired, done
<1>2. /\ created = Create(db, o, o, c) /\ pointed = Point(created, o, created.last) /\ renamed = [pointed EXCEPT !.file[o] = c]
      /\ retired = Retire(renamed, s) /\ done = IF o \in CoverTracks THEN RefreshAlbumsReferencing(retired, o, c) ELSE retired
  BY DEF created, pointed, renamed, retired, done
<1>3. /\ Creates(db, created, o, o, c) /\ Tidy(created) /\ Points(created, pointed, o, new) /\ Tidy(pointed)
      /\ Writes(pointed, renamed, o, c) /\ Tidy(renamed) /\ LosesRows(renamed, retired, {s} \ {NoImage}) /\ Tidy(retired)
  BY <1>2, ReplacedStages
<1>4. /\ db.last \in Nat /\ db.last + 1 \in 1..MaxImages /\ new = db.last + 1 /\ new # NoImage /\ MaxImages \in Nat
      /\ o \in Owners /\ o # CoverAlbum /\ db.row[new] = NoRow
  <2>1. db.last \in 2..MaxImages /\ MaxImages \in Nat /\ db.last + 2 <= MaxImages BY CoverDbFields DEF Tidy, Room
  <2>2. db.last + 1 \in 1..MaxImages BY <2>1
  <2> QED BY <2>1, <2>2, <1>3, OwnersApart, NextIdIsFree DEF Creates, NoImage
<1>5. /\ created.last = new /\ pointed.last = new /\ renamed.last = new
      /\ created.row[new] = [owner |-> o, path |-> o, content |-> c] /\ pointed.row = created.row /\ renamed.row = created.row
      /\ \A i \in 1..MaxImages : i # new => created.row[i] = db.row[i]
      /\ created.ptr = db.ptr /\ created.file = db.file /\ pointed.file = db.file
      /\ renamed.ptr = pointed.ptr /\ pointed.ptr[o] = (IF o \in alive THEN new ELSE db.ptr[o])
      /\ (\A z \in Owners \ {o} : pointed.ptr[z] = db.ptr[z]) /\ \A p \in Paths \ {o} : renamed.file[p] = db.file[p]
  BY <1>3, <1>4 DEF Creates, Points, Writes
<1>6. created.row[new] # NoRow BY <1>4, <1>5, RowNew
<1>61. OwnPointer(db, created, o, s, c) /\ OwnPointer(db, pointed, o, s, c) /\ OwnPointer(db, renamed, o, s, c)
  <2> DEFINE y == [owner |-> o, path |-> o, content |-> c]
  <2>1. y.content = c /\ created.row[new] = y BY <1>4, <1>5, RowNew
  <2> HIDE DEF y
  <2> QED BY <1>5, <2>1 DEF OwnPointer
<1>7. Imports(db, created, o, s, c) BY <1>3, <1>4, <1>5, <1>61, NewRowOnly
<1>8. Imports(db, pointed, o, s, c) BY <1>3, <1>4, <1>5, <1>61, NewRowOnly
<1>9. Imports(db, renamed, o, s, c) BY <1>3, <1>4, <1>5, <1>61, NewRowOnly
<1>10. /\ Imports(db, retired, o, s, c) /\ Imports(db, done, o, s, c)
       /\ Tidy(done) /\ done.last = new /\ done.row[new] = [owner |-> o, path |-> o, content |-> c]
       /\ \A i \in 1..MaxImages : i # new =>
               \/ i = s /\ s # NoImage /\ done.row[i] = NoRow
               \/ i # s /\ AlbumRow(db, i, o) /\ AlbumRow(done, i, o) /\ done.row[i].content = c
               \/ i # s /\ ~AlbumRow(db, i, o) /\ done.row[i] = db.row[i]
       /\ (o \in alive => done.ptr[o] = new) /\ (\A z \in Owners \ {o} : done.ptr[z] = db.ptr[z]) /\ done.file[o] = c
  BY <1>2, <1>4, OldRowGoes
<1>11. ASSUME NEW e, Tidy(e), e.last = new, \A i \in 1..MaxImages : e.row[i] = db.row[i],
              \A z \in Owners \ {o} : e.ptr[z] = db.ptr[z], \A p \in Paths \ {o} : e.file[p] = db.file[p],
              OwnPointer(db, e, o, s, c)
       PROVE  Imports(db, e, o, s, c)
  <2>1. \A i \in 1..MaxImages : i > db.last => e.row[i] = NoRow BY <1>11, NextIdIsFree
  <2> QED BY <1>4, <1>11, <2>1 DEF Imports
<1>12. CASE x = CoverOutcome(DropRow(created, new), "failed")
  <2> DEFINE e == DropRow(created, new)
  <2>1. {new} \ {NoImage} = {new} BY <1>4
  <2>2. LosesRows(created, e, {new}) /\ Tidy(e) BY <1>3, <2>1, DropRowFacts
  <2>3. x.how = "failed" /\ x.db = e BY <1>12 DEF CoverOutcome
  <2> HIDE DEF e
  <2>4. \A z \in Owners : db.ptr[z] # new BY <1>4 DEF Tidy, PointersOwn
  <2>5. e.last = new /\ e.file = db.file /\ (\A i \in 1..MaxImages : e.row[i] = db.row[i]) /\ (\A z \in Owners : e.ptr[z] = db.ptr[z])
    BY <1>4, <1>5, <2>2, <2>4 DEF LosesRows
  <2>51. OwnPointer(db, e, o, s, c) BY <1>4, <2>5 DEF OwnPointer
  <2>6. Imports(db, e, o, s, c) BY <1>11, <2>2, <2>5, <2>51
  <2> QED BY <1>4, <2>3, <2>5, <2>6 DEF Outcomes, Failed, Hows
<1>13. ASSUME NEW f, f = pointed \/ f = renamed, NEW e, e = RollbackNewRow(f, o, new, s)
       PROVE  /\ Imports(db, e, o, s, c) /\ e.file = f.file
              /\ \A i \in 1..MaxImages : e.row[i] = db.row[i]
              /\ \A z \in Owners \ {o} : e.ptr[z] = db.ptr[z]
              /\ UpToDate(db, alive, o, s) => e.ptr[o] = db.ptr[o]
  <2>1. /\ Tidy(f) /\ f.last = new /\ f.row[new] # NoRow /\ f.ptr = pointed.ptr
        /\ (\A i \in 1..MaxImages : i # new => f.row[i] = db.row[i]) /\ \A p \in Paths \ {o} : f.file[p] = db.file[p]
    BY <1>3, <1>5, <1>6, <1>13
  <2>2. /\ Tidy(e) /\ e.last = f.last /\ e.file = f.file /\ (\A i \in 1..MaxImages : e.row[i] = db.row[i])
        /\ (\A z \in Owners \ {o} : e.ptr[z] = db.ptr[z]) /\ (UpToDate(db, alive, o, s) => e.ptr[o] = db.ptr[o])
        /\ OwnPointer(db, e, o, s, c)
    BY <1>4, <1>5, <1>13, <2>1, RollbackFacts
  <2> QED BY <1>11, <2>1, <2>2
<1>14. CASE x = CoverOutcome(RollbackNewRow(pointed, o, new, s), "failed")
  <2>1. x.how = "failed" /\ x.db = RollbackNewRow(pointed, o, new, s) BY <1>14 DEF CoverOutcome
  <2> QED BY <1>5, <1>13, <2>1 DEF Outcomes, Failed, Hows
<1>15. CASE x = CoverOutcome(RollbackNewRow(renamed, o, new, s), "half")
  <2>1. x.how = "half" /\ x.db = RollbackNewRow(renamed, o, new, s) BY <1>15 DEF CoverOutcome
  <2> QED BY <1>13, <2>1 DEF Outcomes, Hows
<1>16. CASE x = CoverOutcome(pointed, "stuck") BY <1>8, <1>16 DEF CoverOutcome, Outcomes, Hows
<1>17. CASE \E d \in {created, pointed, renamed, retired} : x = CoverOutcome(d, "crash")
  BY <1>7, <1>8, <1>9, <1>10, <1>17 DEF CoverOutcome, Outcomes, Hows
<1>18. CASE x \in WithAlbum(done, q, o, c)
  <2> DEFINE y == [owner |-> o, path |-> o, content |-> c]
  <2>2. y # NoRow /\ y.owner = o /\ y.content = c BY <1>4, RowNew
  <2>3. done.row[new] = y BY <1>10
  <2> HIDE DEF y
  <2>4. \A i \in 1..MaxImages : i = s /\ db.row[i] # NoRow => db.row[i].owner = o BY DEF Known, NoImage
  <2>5. new # s BY <1>4 DEF Known
  <2>6. \A i \in 1..MaxImages : (done.row[i] # NoRow /\ done.row[i].owner = CoverAlbum) <=> (db.row[i] # NoRow /\ db.row[i].owner = CoverAlbum)
    BY <1>4, <1>10, <2>2, <2>3, <2>4 DEF AlbumRow
  <2>7. \A i \in 1..MaxImages : (done.row[i] # NoRow /\ done.row[i].owner = o) <=>
            (i = new \/ (i # s /\ db.row[i] # NoRow /\ db.row[i].owner = o))
    BY <1>4, <1>10, <2>2, <2>3, <2>4, <2>5 DEF AlbumRow
  <2>8. \A i \in 1..MaxImages : AlbumRow(done, i, o) => done.row[i].content = c
    BY <1>4, <1>10, <2>2, <2>3 DEF AlbumRow
  <2>9. OwnReplaced(db, done, o, s, c)
    <3>1. new \in 1..MaxImages /\ new > db.last BY <1>4
    <3> QED BY <1>10, <2>2, <2>3, <2>7, <2>8, <3>1 DEF OwnReplaced
  <2>10. HasARow(done, o) /\ done.ptr[CoverAlbum] = db.ptr[CoverAlbum] /\ done.last <= db.last + 1
    BY <1>4, <1>10, <2>2, <2>3, OwnersApart DEF HasARow
  <2>11. x.how = "ok" /\ Imports(db, x.db, o, s, c) /\ Done(db, x.db, o, s, q.album, c)
    BY <1>10, <1>18, <2>6, <2>9, <2>10, WithAlbumFacts
  <2> QED BY <2>11 DEF Outcomes, Hows
<1> QED BY <1>1, <1>12, <1>14, <1>15, <1>16, <1>17, <1>18

LEMMA RestoredFacts ==
  ASSUME Tidy(db), NEW o \in Paths, NEW c \in Contents, Room, NEW q, Known(db, q.snap, o),
         Exists(db, q.snap), db.row[q.snap].content = c, NEW x \in Restored(q, o, c)
  PROVE  Outcomes(o, q.snap, q.album, c, x)
<1> DEFINE s == q.snap  e == [db EXCEPT !.file[o] = c]
<1>1. Writes(db, e, o, c) /\ Tidy(e) BY WriteFacts
<1>2. s # NoImage /\ db.row[s] # NoRow /\ db.row[s].owner = o /\ s \in 1..MaxImages
  BY CoverDbFields DEF Exists, Known, Tidy, NoImage
<1>3. db.last \in Nat BY CoverDbFields DEF Tidy
<1>4. CASE x = CoverOutcome(db, "failed")
  <2>1. Imports(db, db, o, s, c) BY <1>3, NextIdIsFree DEF Imports, OwnPointer
  <2> QED BY <1>4, <2>1 DEF CoverOutcome, Outcomes, Failed, Hows
<1>5. CASE x \in WithAlbum(e, q, o, c)
  <2> HIDE DEF e
  <2>1. Imports(db, e, o, s, c) BY <1>1, <1>3, NextIdIsFree DEF Imports, Writes, OwnPointer
  <2>2. HasARow(e, o) BY <1>1, <1>2 DEF HasARow, Writes
  <2>3. OwnKept(db, e, o, s, c) BY <1>1, <1>2 DEF OwnKept, Writes
  <2>4. e.last <= db.last + 1 /\ e.file[o] = c /\ e.ptr = db.ptr /\ e.row = db.row BY <1>1, <1>3 DEF Writes
  <2>5. x.how = "ok" /\ Imports(db, x.db, o, s, c) /\ Done(db, x.db, o, s, q.album, c)
    BY <1>5, <2>1, <2>2, <2>3, <2>4, WithAlbumFacts
  <2> QED BY <2>5 DEF Outcomes, Hows
<1> QED BY <1>4, <1>5 DEF Restored

LEMMA ImportFacts ==
  ASSUME Tidy(db), NEW c \in Contents, Room, NEW q, q.owner \in Paths, Known(db, q.snap, q.owner), NEW x \in Import(q, c)
  PROVE  Outcomes(q.owner, q.snap, q.album, c, x)
<1> DEFINE o == q.owner
<1>1. \/ x = CoverOutcome(db, "failed")
      \/ Exists(db, q.snap) /\ db.row[q.snap].content = c /\ x \in Restored(q, o, c)
      \/ x \in Replaced(q, o, c)
  BY DEF Import, ImportTrackCover, ImportArtistCover
<1>2. CASE x = CoverOutcome(db, "failed")
  <2>1. db.last \in Nat BY CoverDbFields DEF Tidy
  <2>2. Imports(db, db, o, q.snap, c) BY <2>1, NextIdIsFree DEF Imports, OwnPointer
  <2> QED BY <1>2, <2>2 DEF CoverOutcome, Outcomes, Failed, Hows
<1> QED BY <1>1, <1>2, ReplacedFacts, RestoredFacts

-----------------------------------------------------------------------------
(* What the requests know, and that no row is left behind.                  *)
Importing(q) == q.pc \in {"embedded", "platform", "check", "fetch"}
ReadOf(q) == IF Importing(q) THEN {q.owner, CoverAlbum} ELSE IF q.pc = "backfill" THEN {CoverAlbum} ELSE {}

(* A request's rows are its owner's, and all there are as long as nobody *)
(* came in between and no step was cut short (bad).                         *)
Knows(d, al, bad, q) ==
    /\ Importing(q) => /\ q.owner \in Paths /\ Known(d, q.snap, q.owner)
                       /\ q.pc \in {"embedded", "platform"} => q.owner \in CoverTracks
                       /\ q.owner \notin bad => UpToDate(d, al, q.owner, q.snap)
    /\ Importing(q) \/ q.pc = "backfill" =>
          /\ Known(d, q.album, CoverAlbum)
          /\ CoverAlbum \notin bad /\ CoverAlbum \in al => UpToDate(d, al, CoverAlbum, q.album)
LeftFor(d, al, o) ==
    /\ o \in al => RowsOf(d, o) = {d.ptr[o]} \ {NoImage}
    /\ o \in Paths => \A i, j \in RowsOf(d, o) : i = j
LeftNone(d, al, bad) == \A o \in Owners \ bad : LeftFor(d, al, o)

RowsInv ==
    /\ CoverTypes /\ Shaped(db) /\ PointersOwn(db)
    /\ LeftNone(db, alive, coverCrossed \cup torn)
    /\ \A r \in CoverThreads : Knows(db, alive, coverCrossed \cup torn, creq[r])

Ages(d, e) ==
    /\ d.last <= e.last
    /\ \A i \in 1..MaxImages : i <= d.last /\ e.row[i] # NoRow =>
          d.row[i] # NoRow /\ e.row[i].owner = d.row[i].owner /\ e.row[i].path = d.row[i].path

SameFor(d, e, al, o) == RowsOf(e, o) = RowsOf(d, o) /\ (o \in al => e.ptr[o] = d.ptr[o])

LEMMA TidyDb == RowsInv => Tidy(db) /\ db \in CoverDb
BY DEF RowsInv, CoverTypes, Tidy

LEMMA KnownAges ==
  ASSUME NEW d, NEW e, Tidy(d), Tidy(e), Ages(d, e), NEW i, NEW o, Known(d, i, o)
  PROVE  Known(e, i, o)
<1>1. d.last \in 2..MaxImages /\ e.last \in 2..MaxImages /\ MaxImages \in Nat /\ d.last <= e.last BY CoverDbFields DEF Tidy, Ages
<1>2. i \in 0..d.last /\ (i # 0 => i \in 1..MaxImages /\ i <= d.last) BY <1>1 DEF Known
<1> QED BY <1>1, <1>2 DEF Known, Ages, NoImage

LEMMA StillKnows ==
  ASSUME NEW d, NEW e, Tidy(d), Tidy(e), Ages(d, e), NEW al, NEW al2, al2 \subseteq al, NEW bad, NEW bad2, bad \subseteq bad2,
         NEW q, Knows(d, al, bad, q), \A o \in ReadOf(q) : o \notin bad2 => SameFor(d, e, al2, o)
  PROVE  Knows(e, al2, bad2, q)
<1>1. \A i, o : Known(d, i, o) => Known(e, i, o) BY KnownAges
<1>2. ASSUME Importing(q) PROVE q.owner \notin bad2 => UpToDate(e, al2, q.owner, q.snap)
  BY <1>2 DEF Knows, ReadOf, SameFor, UpToDate
<1>3. ASSUME Importing(q) \/ q.pc = "backfill"
      PROVE CoverAlbum \notin bad2 /\ CoverAlbum \in al2 => UpToDate(e, al2, CoverAlbum, q.album)
  BY <1>3 DEF Knows, ReadOf, SameFor, UpToDate
<1> QED BY <1>1, <1>2, <1>3 DEF Knows

LEMMA LeftForSame ==
  ASSUME NEW d, NEW e, NEW al, NEW al2, al2 \subseteq al, NEW o, LeftFor(d, al, o), SameFor(d, e, al2, o)
  PROVE  LeftFor(e, al2, o)
BY DEF LeftFor, SameFor

LEMMA AtRestKnows ==
  /\ AtRest \in CoverRequest /\ \A d, al, bad : Knows(d, al, bad, AtRest)
  /\ ReadOf(AtRest) = {} /\ AtRest.pc = "idle" /\ ~Importing(AtRest)
BY CoversAssumption, OwnersApart DEF AtRest, CoverRequest, CoverPcs, Knows, Importing, ReadOf, NoImage

(* A request that does not change the tables but itself.                    *)
LEMMA OnlyRequest ==
  ASSUME RowsInv, NEW r \in CoverThreads, NEW q \in CoverRequest, creq' = [creq EXCEPT ![r] = q],
         Knows(db, alive, coverCrossed \cup torn, q),
         UNCHANGED <<db, alive, embedded, coverCrossed, torn>>, lost' \subseteq Paths
  PROVE  RowsInv'
BY DEF RowsInv, CoverTypes, Shaped, PointersOwn, LeftNone, LeftFor, RowsOf, Knows, Known, UpToDate, Importing

(* A request's step that changes the tables to d.                           *)
LEMMA BecomeKeeps ==
  ASSUME RowsInv, NEW r \in CoverThreads, NEW d, NEW q \in CoverRequest, Become(r, d, q), Tidy(d), Ages(db, d),
         torn \subseteq torn', torn' \subseteq Owners, lost' \subseteq Paths,
         Knows(d, alive, coverCrossed' \cup torn', q),
         \A o \in Owners : o \notin coverCrossed' \cup torn' => SameFor(db, d, alive, o) \/ LeftFor(d, alive, o)
  PROVE  RowsInv'
<1> DEFINE bad == coverCrossed \cup torn  badd == coverCrossed' \cup torn'
<1>1. /\ db' = d /\ creq' = [creq EXCEPT ![r] = q] /\ alive' = alive /\ embedded' = embedded
      /\ coverCrossed' = coverCrossed \cup (Changes(d) \cap ReadBy(CoverThreads \ {r}))
  BY DEF Become
<1>2. bad \subseteq badd /\ coverCrossed' \subseteq Owners BY <1>1 DEF RowsInv, CoverTypes, Changes
<1>3. Tidy(db) BY TidyDb
<1>4. CoverTypes' BY <1>1, <1>2 DEF RowsInv, CoverTypes, Tidy
<1>5. LeftNone(d, alive, badd) BY <1>2, LeftForSame DEF RowsInv, LeftNone
<1>6. ASSUME NEW s \in CoverThreads PROVE Knows(d, alive, badd, creq'[s])
  <2>1. CASE s = r
    <3>1. creq'[s] = q BY <1>1, <2>1 DEF RowsInv, CoverTypes
    <3> QED BY <3>1
  <2>2. CASE s # r
    <3>1. creq'[s] = creq[s] /\ creq[s] \in CoverRequest BY <1>1, <2>2 DEF RowsInv, CoverTypes
    <3>2. Knows(db, alive, bad, creq[s]) BY DEF RowsInv
    <3>3. ReadOf(creq[s]) \subseteq Owners BY <3>1, OwnersApart DEF ReadOf, CoverRequest
    <3>4. ReadOf(creq[s]) \subseteq ReadBy(CoverThreads \ {r}) BY <2>2 DEF ReadOf, ReadBy, Importing
    <3>5. \A o \in ReadOf(creq[s]) : o \notin badd => SameFor(db, d, alive, o)
      BY <1>1, <3>3, <3>4 DEF Changes, SameFor
    <3>6. Knows(d, alive, badd, creq[s]) BY <1>2, <1>3, <3>2, <3>5, StillKnows
    <3> QED BY <3>1, <3>6
  <2> QED BY <2>1, <2>2
<1> HIDE DEF badd
<1>7. badd = (coverCrossed \cup torn)' BY DEF badd
<1>8. (Shaped(db) /\ PointersOwn(db))' BY <1>1 DEF Tidy, Shaped, PointersOwn
<1>9. LeftNone(db', alive', badd) /\ \A s \in CoverThreads : Knows(db', alive', badd, creq'[s]) BY <1>1, <1>5, <1>6
<1> QED BY <1>4, <1>7, <1>8, <1>9 DEF RowsInv

-----------------------------------------------------------------------------
(* The steps that import.                                                   *)
LEMMA ImportsAge ==
  ASSUME NEW d, NEW e, NEW o, NEW s, NEW c, Tidy(d), Imports(d, e, o, s, c)
  PROVE  /\ Tidy(e) /\ Ages(d, e)
         /\ \A y \in Owners \ {o, CoverAlbum} : RowsOf(e, y) = RowsOf(d, y) /\ e.ptr[y] = d.ptr[y]
<1>1. Tidy(e) /\ d.last <= e.last BY DEF Imports
<1>2. d.last \in 2..MaxImages /\ MaxImages \in Nat BY CoverDbFields DEF Tidy
<1>3. Ages(d, e) BY <1>1 DEF Imports, Ages, AlbumRow
<1>4. ASSUME NEW y \in Owners \ {o, CoverAlbum} PROVE RowsOf(e, y) = RowsOf(d, y)
  <2>1. \A i \in 1..MaxImages : i > d.last => d.row[i] = NoRow BY NextIdIsFree
  <2>2. ASSUME NEW i \in 1..MaxImages PROVE (e.row[i] # NoRow /\ e.row[i].owner = y) <=> (d.row[i] # NoRow /\ d.row[i].owner = y)
    <3>1. CASE i <= d.last BY <3>1 DEF Imports, AlbumRow
    <3>2. CASE i > d.last BY <2>1, <3>2 DEF Imports
    <3> QED BY <1>2, <3>1, <3>2
  <2> QED BY <1>1, <2>2, SameRows
<1> QED BY <1>1, <1>3, <1>4 DEF Imports

LEMMA ImportLeaves ==
  ASSUME RowsInv, NEW o \in Paths, NEW s, NEW a, NEW c, NEW x, Outcomes(o, s, a, c, x),
         o \notin coverCrossed \cup torn => UpToDate(db, alive, o, s),
         CoverAlbum \notin coverCrossed \cup torn /\ CoverAlbum \in alive => UpToDate(db, alive, CoverAlbum, a)
  PROVE  /\ Tidy(x.db) /\ Ages(db, x.db)
         /\ x.how \in {"ok", "failed"} => \A y \in Owners \ (coverCrossed \cup torn) :
               SameFor(db, x.db, alive, y) \/ LeftFor(x.db, alive, y)
         /\ x.how = "failed" =>
               /\ \A y \in Owners : RowsOf(x.db, y) = RowsOf(db, y)
               /\ \A y \in Owners \ (coverCrossed \cup torn) : x.db.ptr[y] = db.ptr[y]
         /\ \A y \in Owners \ {o, CoverAlbum} : SameFor(db, x.db, alive, y)
<1> DEFINE e == x.db
<1>1. Imports(db, e, o, s, c) /\ Tidy(db) BY TidyDb DEF Outcomes
<1>2. /\ Tidy(e) /\ Ages(db, e)
      /\ \A y \in Owners \ {o, CoverAlbum} : RowsOf(e, y) = RowsOf(db, y) /\ e.ptr[y] = db.ptr[y]
  BY <1>1, ImportsAge
<1>3. o # CoverAlbum /\ o \in Owners /\ CoverAlbum \in Owners BY OwnersApart
<1>4. CASE x.how = "failed"
  <2>1. Failed(db, e, o, s) BY <1>4 DEF Outcomes
  <2>2. \A y \in Owners : RowsOf(e, y) = RowsOf(db, y) BY <1>1, <1>2, <2>1, SameRows DEF Failed
  <2>3. \A y \in Owners \ (coverCrossed \cup torn) : e.ptr[y] = db.ptr[y] BY <2>1 DEF Failed
  <2> QED BY <1>2, <1>4, <2>2, <2>3 DEF SameFor
<1>5. CASE x.how = "ok"
  <2>1. Done(db, e, o, s, a, c) BY <1>5 DEF Outcomes
  <2>2. o \notin coverCrossed \cup torn => SameFor(db, e, alive, o) \/ LeftFor(e, alive, o)
    <3> SUFFICES ASSUME o \notin coverCrossed \cup torn PROVE SameFor(db, e, alive, o) \/ LeftFor(e, alive, o) OBVIOUS
    <3>1. RowsOf(db, o) = {s} \ {NoImage} BY DEF UpToDate
    <3>2. CASE OwnReplaced(db, e, o, s, c)
      <4> PICK n \in 1..MaxImages : /\ o \in alive => e.ptr[o] = n
                 /\ \A i \in 1..MaxImages : (e.row[i] # NoRow /\ e.row[i].owner = o) <=>
                       (i = n \/ (i # s /\ db.row[i] # NoRow /\ db.row[i].owner = o))
        BY <3>2 DEF OwnReplaced
      <4>1. \A i \in 1..MaxImages : (e.row[i] # NoRow /\ e.row[i].owner = o) <=> i = n BY <1>1, <3>1, RowsOfAre
      <4>2. RowsOf(e, o) = {n} BY <1>2, <4>1, OnlyRow
      <4>3. {n} \ {NoImage} = {n} BY DEF NoImage
      <4> QED BY <4>2, <4>3 DEF LeftFor
    <3>3. CASE OwnKept(db, e, o, s, c)
      <4>1. \A i \in 1..MaxImages : e.row[i] # db.row[i] => db.row[i] = NoRow /\ AlbumRow(e, i, o)
        BY <1>1, <3>3, NextIdIsFree DEF OwnKept
      <4>2. \A i \in 1..MaxImages : (e.row[i] # NoRow /\ e.row[i].owner = o) <=> (db.row[i] # NoRow /\ db.row[i].owner = o)
        BY <1>3, <4>1 DEF AlbumRow
      <4>3. RowsOf(e, o) = RowsOf(db, o) BY <1>1, <1>2, <4>2, SameRows
      <4> QED BY <3>3, <4>3 DEF OwnKept, SameFor
    <3> QED BY <2>1, <3>2, <3>3 DEF Done
  <2>3. CoverAlbum \notin coverCrossed \cup torn => SameFor(db, e, alive, CoverAlbum) \/ LeftFor(e, alive, CoverAlbum)
    <3> SUFFICES ASSUME CoverAlbum \notin coverCrossed \cup torn PROVE SameFor(db, e, alive, CoverAlbum) \/ LeftFor(e, alive, CoverAlbum) OBVIOUS
    <3>1. CASE /\ e.ptr[CoverAlbum] = db.ptr[CoverAlbum]
               /\ \A i \in 1..MaxImages : (e.row[i] # NoRow /\ e.row[i].owner = CoverAlbum) <=> (db.row[i] # NoRow /\ db.row[i].owner = CoverAlbum)
      <4>1. RowsOf(e, CoverAlbum) = RowsOf(db, CoverAlbum) BY <1>1, <1>2, <3>1, SameRows
      <4> QED BY <3>1, <4>1 DEF SameFor
    <3>2. CASE /\ a = NoImage
               /\ \E m \in 1..MaxImages :
                     /\ CoverAlbum \in alive => e.ptr[CoverAlbum] = m
                     /\ \A i \in 1..MaxImages : (e.row[i] # NoRow /\ e.row[i].owner = CoverAlbum)
                                        <=> (i = m \/ (db.row[i] # NoRow /\ db.row[i].owner = CoverAlbum))
      <4> PICK m \in 1..MaxImages :
                     /\ CoverAlbum \in alive => e.ptr[CoverAlbum] = m
                     /\ \A i \in 1..MaxImages : (e.row[i] # NoRow /\ e.row[i].owner = CoverAlbum)
                                        <=> (i = m \/ (db.row[i] # NoRow /\ db.row[i].owner = CoverAlbum))
        BY <3>2
      <4>1. CoverAlbum \in alive => RowsOf(db, CoverAlbum) = {} BY <3>2 DEF UpToDate
      <4>11. CoverAlbum \in alive => \A i \in 1..MaxImages : (e.row[i] # NoRow /\ e.row[i].owner = CoverAlbum) <=> i = m
        BY <1>1, <4>1, RowsOfAre
      <4>2. CoverAlbum \in alive => RowsOf(e, CoverAlbum) = {m} BY <1>2, <4>11, OnlyRow
      <4>3. {m} \ {NoImage} = {m} BY DEF NoImage
      <4> QED BY <4>2, <4>3, OwnersApart DEF LeftFor
    <3> QED BY <2>1, <3>1, <3>2 DEF Done, AlbumGets
  <2>4. ASSUME NEW y \in Owners \ (coverCrossed \cup torn)
        PROVE  SameFor(db, e, alive, y) \/ LeftFor(e, alive, y)
    <3>1. CASE y = o BY <2>2, <3>1
    <3>2. CASE y = CoverAlbum BY <2>3, <3>2
    <3>3. CASE y \notin {o, CoverAlbum} BY <1>2, <3>3 DEF SameFor
    <3> QED BY <3>1, <3>2, <3>3
  <2>5. \A y \in Owners \ {o, CoverAlbum} : SameFor(db, e, alive, y) BY <1>2 DEF SameFor
  <2> HIDE DEF e
  <2> QED BY <1>2, <1>5, <2>4, <2>5 DEF e
<1>6. CASE x.how \notin {"ok", "failed"} BY <1>2, <1>6 DEF SameFor
<1> QED BY <1>4, <1>5, <1>6

LEMMA ImportKeeps ==
  ASSUME RowsInv, NEW r \in CoverThreads, NEW c \in Contents, Importing(creq[r]), Room,
         NEW x \in Import(creq[r], c), NEW next, next = AtRest \/ (next = [creq[r] EXCEPT !.pc = "platform"] /\ creq[r].pc = "embedded"),
         RequestEnded(r, x, next)
  PROVE  RowsInv'
<1> DEFINE q == creq[r]  o == q.owner  e == x.db
           bad == coverCrossed \cup torn  badd == coverCrossed' \cup torn'
<1>1. /\ q \in CoverRequest /\ o \in Paths /\ Known(db, q.snap, o) /\ (o \notin bad => UpToDate(db, alive, o, q.snap))
      /\ Known(db, q.album, CoverAlbum) /\ (CoverAlbum \notin bad /\ CoverAlbum \in alive => UpToDate(db, alive, CoverAlbum, q.album))
      /\ (q.pc = "embedded" => o \in CoverTracks)
  BY DEF RowsInv, CoverTypes, Knows
<1>2. Tidy(db) /\ o \in Owners /\ o # CoverAlbum /\ CoverAlbum \in Owners BY <1>1, TidyDb, OwnersApart
<1>3. Outcomes(o, q.snap, q.album, c, x) BY <1>1, <1>2, ImportFacts
<1>4. /\ Tidy(e) /\ Ages(db, e)
      /\ (x.how \in {"ok", "failed"} => \A y \in Owners \ bad : SameFor(db, e, alive, y) \/ LeftFor(e, alive, y))
      /\ (x.how = "failed" => (\A y \in Owners : RowsOf(e, y) = RowsOf(db, y)) /\ \A y \in Owners \ bad : e.ptr[y] = db.ptr[y])
      /\ \A y \in Owners \ {o, CoverAlbum} : SameFor(db, e, alive, y)
  BY <1>1, <1>3, ImportLeaves
<1>5. lost' \subseteq Paths /\ torn' = IF x.how \in {"crash", "stuck", "half"} THEN torn \cup {o, CoverAlbum} ELSE torn
  BY DEF RequestEnded, RowsInv, CoverTypes
<1>6. torn \subseteq torn' /\ torn' \subseteq Owners BY <1>2, <1>5 DEF RowsInv, CoverTypes
<1> HIDE DEF e
<1>7. CASE x.how # "crash"
  <2> DEFINE z == IF x.how = "ok" THEN AtRest ELSE next
  <2>1. Become(r, e, z) BY <1>7 DEF RequestEnded, e
  <2>2. z \in CoverRequest BY <1>1, AtRestKnows DEF CoverRequest, CoverPcs
  <2>3. bad \subseteq badd BY <1>6, <2>1 DEF Become
  <2>4. Knows(e, alive, badd, z)
    <3>1. CASE z = AtRest BY <3>1, AtRestKnows
    <3>2. CASE z # AtRest
      <4>1. z = [q EXCEPT !.pc = "platform"] /\ q.pc = "embedded" /\ x.how # "ok" BY <3>2
      <4>2. z.pc = "platform" /\ z.owner = o /\ z.snap = q.snap /\ z.album = q.album BY <1>1, <4>1 DEF CoverRequest
      <4> HIDE DEF z
      <4>3. Known(e, q.snap, o) /\ Known(e, q.album, CoverAlbum) BY <1>1, <1>2, <1>4, KnownAges
      <4>4. CASE x.how = "failed"
        <5>1. o \notin bad => UpToDate(e, alive, o, q.snap) BY <1>1, <1>2, <1>4, <4>4 DEF UpToDate
        <5>2. CoverAlbum \notin bad /\ CoverAlbum \in alive => UpToDate(e, alive, CoverAlbum, q.album) BY <1>1, <1>2, <1>4, <4>4 DEF UpToDate
        <5> QED BY <1>1, <2>3, <4>1, <4>2, <4>3, <5>1, <5>2 DEF Knows
      <4>5. CASE x.how # "failed"
        <5>1. o \in badd /\ CoverAlbum \in badd BY <1>3, <1>5, <1>7, <4>1, <4>5 DEF Outcomes, Hows
        <5> QED BY <1>1, <4>1, <4>2, <4>3, <5>1 DEF Knows
      <4> QED BY <4>4, <4>5
    <3> QED BY <3>1, <3>2
  <2>5. ASSUME NEW y \in Owners, y \notin badd PROVE SameFor(db, e, alive, y) \/ LeftFor(e, alive, y)
    <3>1. CASE x.how \in {"ok", "failed"} BY <1>4, <2>3, <2>5, <3>1
    <3>2. CASE x.how \notin {"ok", "failed"}
      <4>1. y \notin {o, CoverAlbum} BY <1>3, <1>5, <2>5, <3>2 DEF Outcomes, Hows
      <4> QED BY <1>4, <4>1
    <3> QED BY <3>1, <3>2
  <2> HIDE DEF z
  <2> QED BY <1>4, <1>5, <1>6, <2>1, <2>2, <2>4, <2>5, BecomeKeeps
<1>8. CASE x.how = "crash"
  <2>1. db' = e /\ creq' = [s \in CoverThreads |-> AtRest] /\ UNCHANGED <<alive, embedded, coverCrossed>>
    BY <1>8 DEF RequestEnded, e
  <2>2. o \in badd /\ CoverAlbum \in badd /\ bad \subseteq badd BY <1>5, <1>8, <2>1
  <2>3. CoverTypes' BY <1>4, <1>5, <1>6, <2>1, AtRestKnows DEF RowsInv, CoverTypes, Tidy
  <2>4. LeftNone(e, alive, badd) BY <1>4, <2>2, LeftForSame DEF RowsInv, LeftNone
  <2>5. \A s \in CoverThreads : Knows(e, alive, badd, creq'[s]) BY <2>1, AtRestKnows
  <2>6. badd = (coverCrossed \cup torn)' OBVIOUS
  <2>7. (Shaped(db) /\ PointersOwn(db))' BY <1>4, <2>1 DEF Tidy, Shaped, PointersOwn
  <2> HIDE DEF badd
  <2> QED BY <2>1, <2>3, <2>4, <2>5, <2>6, <2>7 DEF RowsInv
<1> QED BY <1>7, <1>8

-----------------------------------------------------------------------------
(* The other steps of a request.                                            *)
LEMMA NoChange ==
  ASSUME RowsInv, NEW r \in CoverThreads, NEW q \in CoverRequest, Become(r, db, q), UNCHANGED <<torn, lost>>,
         Knows(db, alive, coverCrossed \cup torn, q)
  PROVE  RowsInv'
<1>1. Changes(db) = {} BY DEF Changes
<1>2. UNCHANGED <<db, alive, embedded, coverCrossed, torn>> /\ creq' = [creq EXCEPT ![r] = q] BY <1>1 DEF Become
<1>3. lost' \subseteq Paths BY DEF RowsInv, CoverTypes
<1> QED BY <1>2, <1>3, OnlyRequest

LEMMA ToRest ==
  ASSUME RowsInv, NEW r \in CoverThreads, Become(r, db, AtRest), UNCHANGED <<torn, lost>>
  PROVE  RowsInv'
BY AtRestKnows, NoChange

LEMMA AskKeeps ==
  ASSUME RowsInv, NEW r \in CoverThreads, NEW q \in CoverRequest, Started(r, q), OnlyAsks,
         Knows(db, alive, coverCrossed \cup torn, q)
  PROVE  RowsInv'
<1>1. lost' \subseteq Paths BY DEF RowsInv, CoverTypes, OnlyAsks
<1> QED BY <1>1, OnlyRequest DEF Started, OnlyAsks

(* What a request reads of a living owner is right when it reads it.        *)
LEMMA ReadIsRight ==
  ASSUME RowsInv, NEW o \in Owners
  PROVE  /\ db.ptr[o] \in 0..MaxImages /\ Known(db, db.ptr[o], o)
         /\ o \notin coverCrossed \cup torn /\ o \in alive => UpToDate(db, alive, o, db.ptr[o])
<1>1. Tidy(db) BY TidyDb
<1>2. db.ptr[o] \in 0..MaxImages /\ db.last \in 2..MaxImages /\ MaxImages \in Nat BY <1>1, CoverDbFields DEF Tidy
<1>3. db.ptr[o] \in 0..db.last BY <1>1, <1>2 DEF Tidy, Shaped, PointersOwn, NoImage
<1> QED BY <1>1, <1>2, <1>3 DEF Known, Tidy, PointersOwn, RowsInv, LeftNone, LeftFor, UpToDate

LEMMA AskEnsureKeeps ==
  ASSUME RowsInv, NEW r \in CoverThreads, NEW t \in CoverTracks, NEW force \in BOOLEAN, AskEnsure(r, t, force)
  PROVE  RowsInv'
<1> DEFINE q == [AtRest EXCEPT !.pc = "embedded", !.owner = t, !.force = force, !.snap = db.ptr[t], !.album = db.ptr[CoverAlbum]]
<1>1. t \in Owners /\ CoverAlbum \in Owners /\ t \in Paths BY OwnersApart
<1>2. q.pc = "embedded" /\ q.owner = t /\ q.snap = db.ptr[t] /\ q.album = db.ptr[CoverAlbum] BY DEF AtRest
<1>3. q \in CoverRequest BY <1>1, ReadIsRight DEF AtRest, CoverRequest, CoverPcs
<1> HIDE DEF q
<1>4. Knows(db, alive, coverCrossed \cup torn, q) BY <1>1, <1>2, ReadIsRight DEF Knows, AskEnsure
<1> QED BY <1>3, <1>4, AskKeeps DEF AskEnsure, q

LEMMA AskURLKeeps ==
  ASSUME RowsInv, NEW r \in CoverThreads, NEW o \in Owners, AskURL(r, o)
  PROVE  RowsInv'
<1> DEFINE q == [AtRest EXCEPT !.pc = "check", !.owner = o, !.snap = db.ptr[o], !.album = db.ptr[CoverAlbum]]
<1>1. CoverAlbum \in Owners /\ o \in Paths /\ o \in alive BY OwnersApart DEF AskURL, Owners, Paths
<1>2. q.pc = "check" /\ q.owner = o /\ q.snap = db.ptr[o] /\ q.album = db.ptr[CoverAlbum] BY DEF AtRest
<1>3. q \in CoverRequest BY <1>1, ReadIsRight DEF AtRest, CoverRequest, CoverPcs
<1> HIDE DEF q
<1>4. Knows(db, alive, coverCrossed \cup torn, q) BY <1>1, <1>2, ReadIsRight DEF Knows
<1> QED BY <1>3, <1>4, AskKeeps DEF AskURL, q

LEMMA AskBackfillKeeps ==
  ASSUME RowsInv, NEW r \in CoverThreads, NEW force \in BOOLEAN, AskBackfill(r, force)
  PROVE  RowsInv'
<1> DEFINE q == [AtRest EXCEPT !.pc = "backfill", !.force = force, !.album = db.ptr[CoverAlbum]]
<1>1. CoverAlbum \in Owners /\ CoverAlbum \in alive BY OwnersApart DEF AskBackfill
<1>2. q.pc = "backfill" /\ q.album = db.ptr[CoverAlbum] /\ ~Importing(q) BY DEF AtRest, Importing
<1>3. q \in CoverRequest BY <1>1, ReadIsRight, AtRestKnows DEF AtRest, CoverRequest, CoverPcs
<1> HIDE DEF q
<1>4. Knows(db, alive, coverCrossed \cup torn, q) BY <1>1, <1>2, ReadIsRight DEF Knows
<1> QED BY <1>3, <1>4, AskKeeps DEF AskBackfill, q

LEMMA StartSweepKeeps ==
  ASSUME RowsInv, NEW r \in CoverThreads, StartSweep(r)
  PROVE  RowsInv'
<1> DEFINE orphans == {<<i, db.row[i].path>> : i \in FindOrphans}
           q == [AtRest EXCEPT !.pc = "shared", !.orphans = orphans]
<1>1. orphans \subseteq (1..MaxImages) \X Paths
  <2>1. db \in CoverDb BY TidyDb
  <2>2. \A i \in FindOrphans : i \in 1..MaxImages /\ db.row[i].path \in Paths
    BY <2>1, CoverDbFields DEF FindOrphans
  <2> QED BY <2>2
<1>2. q.pc = "shared" /\ ~Importing(q) BY DEF AtRest, Importing
<1> HIDE DEF orphans
<1>3. q \in CoverRequest BY <1>1, AtRestKnows DEF AtRest, CoverRequest, CoverPcs
<1> HIDE DEF q
<1>4. Knows(db, alive, coverCrossed \cup torn, q) BY <1>2 DEF Knows
<1> QED BY <1>3, <1>4, AskKeeps DEF StartSweep, q, orphans

LEMMA EmbeddedKeeps ==
  ASSUME RowsInv, NEW r \in CoverThreads, EmbeddedCover(r)
  PROVE  RowsInv'
<1> DEFINE q == creq[r]  later == [q EXCEPT !.pc = "platform"]
<1>1. q \in CoverRequest /\ q.pc = "embedded" /\ Importing(q) /\ Knows(db, alive, coverCrossed \cup torn, q) /\ q.owner \in CoverTracks
  BY DEF RowsInv, CoverTypes, EmbeddedCover, Importing, Knows
<1>2. CASE Become(r, db, AtRest) /\ UNCHANGED <<torn, lost>> BY <1>2, ToRest
<1>3. CASE Become(r, db, later) /\ UNCHANGED <<torn, lost>>
  <2>1. /\ later \in CoverRequest /\ later.pc = "platform" /\ later.owner = q.owner /\ later.snap = q.snap /\ later.album = q.album
    BY <1>1 DEF CoverRequest, CoverPcs
  <2> HIDE DEF later
  <2>2. Knows(db, alive, coverCrossed \cup torn, later) BY <1>1, <2>1 DEF Knows, Importing
  <2> QED BY <1>3, <2>1, <2>2, NoChange
<1>4. CASE embedded[q.owner] # NoContent /\ Room /\ \E x \in Import(q, embedded[q.owner]) : RequestEnded(r, x, later)
  <2>1. embedded[q.owner] \in Contents BY <1>1, <1>4 DEF RowsInv, CoverTypes, Contents
  <2> QED BY <1>1, <1>4, <2>1, ImportKeeps
<1> QED BY <1>2, <1>3, <1>4 DEF EmbeddedCover

LEMMA PlatformKeeps ==
  ASSUME RowsInv, NEW r \in CoverThreads, PlatformCover(r)
  PROVE  RowsInv'
<1>1. Importing(creq[r]) BY DEF PlatformCover, Importing
<1>2. CASE Become(r, db, AtRest) /\ UNCHANGED <<torn, lost>> BY <1>2, ToRest
<1>3. CASE Room /\ \E c \in Network : \E x \in Import(creq[r], c) : RequestEnded(r, x, AtRest)
  BY <1>1, <1>3, ImportKeeps DEF Contents
<1> QED BY <1>2, <1>3 DEF PlatformCover

LEMMA CheckKeeps ==
  ASSUME RowsInv, NEW r \in CoverThreads, CheckURL(r)
  PROVE  RowsInv'
<1> DEFINE q == creq[r]  later == [q EXCEPT !.pc = "fetch"]
<1>1. q \in CoverRequest /\ Knows(db, alive, coverCrossed \cup torn, q) /\ q.pc = "check" BY DEF RowsInv, CoverTypes, CheckURL
<1>2. /\ later \in CoverRequest /\ later.pc = "fetch" /\ later.owner = q.owner /\ later.snap = q.snap /\ later.album = q.album
  BY <1>1 DEF CoverRequest, CoverPcs
<1> HIDE DEF later
<1>3. Knows(db, alive, coverCrossed \cup torn, later) BY <1>1, <1>2 DEF Knows, Importing
<1>4. UNCHANGED <<torn, lost>> /\ (Become(r, db, AtRest) \/ Become(r, db, later)) BY DEF CheckURL, later
<1> QED BY <1>2, <1>3, <1>4, NoChange, ToRest

LEMMA ImportURLKeeps ==
  ASSUME RowsInv, NEW r \in CoverThreads, ImportURL(r)
  PROVE  RowsInv'
<1> DEFINE q == creq[r]
<1>1. /\ Importing(q) /\ q.pc = "fetch" /\ q \in CoverRequest /\ Tidy(db) /\ CoverArtist \in Owners /\ CoverArtist # CoverAlbum
      /\ q.owner \notin coverCrossed \cup torn => UpToDate(db, alive, q.owner, q.snap)
  BY TidyDb, OwnersApart DEF ImportURL, Importing, RowsInv, CoverTypes, Knows
<1>2. CASE Become(r, db, AtRest) /\ UNCHANGED <<torn, lost>> BY <1>2, ToRest
<1>3. CASE Room /\ \E c \in Network : \E x \in Import(q, c) : RequestEnded(r, x, AtRest)
  BY <1>1, <1>3, ImportKeeps DEF Contents
<1>4. ASSUME NEW i \in RowsOf(db, CoverArtist), i # q.snap, q.owner = CoverArtist,
             Become(r, Point(db, CoverArtist, i), AtRest), UNCHANGED <<torn, lost>>
      PROVE  RowsInv'
  <2> DEFINE d == Point(db, CoverArtist, i)
  <2>1. i \in 1..MaxImages /\ db.row[i] # NoRow /\ db.row[i].owner = CoverArtist BY <1>1, RowsOfAre
  <2>2. Points(db, d, CoverArtist, i) /\ Tidy(d) BY <1>1, <2>1, PointFacts
  <2>3. CoverArtist \in coverCrossed \cup torn BY <1>1, <1>4 DEF UpToDate
  <2> HIDE DEF d
  <2>4. Become(r, d, AtRest) BY <1>4 DEF d
  <2>5. Ages(db, d) BY <1>1, <2>2, CoverDbFields DEF Points, Ages, Tidy
  <2>6. \A o \in Owners \ {CoverArtist} : SameFor(db, d, alive, o) BY <2>2 DEF Points, SameFor, RowsOf
  <2>7. coverCrossed \subseteq coverCrossed' BY <2>4 DEF Become
  <2>8. torn \subseteq torn' /\ torn' \subseteq Owners /\ lost' \subseteq Paths BY <1>4 DEF RowsInv, CoverTypes
  <2>9. Knows(d, alive, coverCrossed' \cup torn', AtRest) /\ AtRest \in CoverRequest BY AtRestKnows
  <2>10. \A o \in Owners : o \notin coverCrossed' \cup torn' => SameFor(db, d, alive, o) BY <2>3, <2>6, <2>7, <2>8
  <2> QED BY <2>2, <2>4, <2>5, <2>8, <2>9, <2>10, BecomeKeeps
<1>5. CASE (\E d \in RepairPointer(q) : Become(r, d, AtRest)) /\ UNCHANGED <<torn, lost>>
  BY <1>2, <1>4, <1>5 DEF RepairPointer
<1> QED BY <1>2, <1>3, <1>5 DEF ImportURL

LEMMA BackfillKeeps ==
  ASSUME RowsInv, NEW r \in CoverThreads, BackfillAlbumCover(r)
  PROVE  RowsInv'
<1> DEFINE q == creq[r]
<1>1. /\ q.pc = "backfill" /\ q \in CoverRequest /\ Tidy(db) /\ CoverAlbum \in Owners /\ UNCHANGED <<torn, lost>> /\ CoverAlbum \notin Paths
      /\ Known(db, q.album, CoverAlbum)
      /\ CoverAlbum \notin coverCrossed \cup torn /\ CoverAlbum \in alive => UpToDate(db, alive, CoverAlbum, q.album)
  BY TidyDb, OwnersApart DEF BackfillAlbumCover, RowsInv, CoverTypes, Knows
<1>2. CASE Become(r, db, AtRest) BY <1>1, <1>2, ToRest
<1>3. ASSUME NEW t \in Bearing, Room, Become(r, Retire(CreateAlbumImage(db, t, db.file[t]), q.album), AtRest)
      PROVE  RowsInv'
  <2> DEFINE c == db.file[t]  f == CreateAlbumImage(db, t, c)  d == Retire(f, q.album)  n == db.last + 1
  <2>1. t \in CoverTracks /\ t \in Paths /\ t \in Owners /\ ImageFilesIntact(db, db.ptr[t]) BY OwnersApart DEF Bearing
  <2>2. db.ptr[t] \in 1..MaxImages /\ db.row[db.ptr[t]] # NoRow /\ db.row[db.ptr[t]].owner = t /\ db.row[db.ptr[t]].path = t
    BY <1>1, <2>1, CoverDbFields DEF ImageFilesIntact, Exists, Tidy, PointersOwn, Shaped, NoImage
  <2>3. c \in Contents BY <1>1, <2>1, <2>2, CoverDbFields DEF ImageFilesIntact, Tidy
  <2>4. n \in 1..MaxImages /\ n > db.last /\ db.last \in Nat /\ n # NoImage BY <1>1, <1>3, CoverDbFields DEF Room, Tidy, NoImage
  <2>5. GivesAlbum(db, f, t, c) /\ Tidy(f) BY <1>1, <2>1, <2>3, <2>4, CreateAlbumImageFacts DEF Tidy
  <2> HIDE DEF f
  <2>6. LosesRows(f, d, {q.album} \ {NoImage}) /\ Tidy(d) BY <2>5, DropRowFacts DEF Retire
  <2> HIDE DEF d
  <2>7. Become(r, d, AtRest) BY <1>3 DEF d, f
  <2> DEFINE y == [owner |-> CoverAlbum, path |-> t, content |-> c]
  <2>8. y # NoRow /\ y.owner = CoverAlbum BY <1>1, <2>1, <2>3, RowNew
  <2> HIDE DEF y
  <2>9. /\ d.last = n /\ n # q.album /\ d.row[n] = y
        /\ \A i \in 1..MaxImages : i # n => d.row[i] = IF i \in {q.album} \ {NoImage} THEN NoRow ELSE db.row[i]
    <3>1. n # q.album BY <1>1, <2>4 DEF Known
    <3>2. f.row[n] = y /\ f.last = n /\ \A i \in 1..MaxImages : i # n => f.row[i] = db.row[i] BY <2>5 DEF GivesAlbum, y
    <3> QED BY <2>4, <2>6, <3>1, <3>2 DEF LosesRows
  <2>10. Ages(db, d) BY <2>4, <2>9 DEF Ages
  <2>11. ASSUME NEW o \in Owners \ {CoverAlbum} PROVE SameFor(db, d, alive, o)
    <3>1. q.album # NoImage /\ db.row[q.album] # NoRow => db.row[q.album].owner = CoverAlbum BY <1>1 DEF Known
    <3>2. db.row[n] = NoRow BY <1>1, <2>4, NextIdIsFree
    <3>3. \A i \in 1..MaxImages : (d.row[i] # NoRow /\ d.row[i].owner = o) <=> (db.row[i] # NoRow /\ db.row[i].owner = o)
      BY <2>8, <2>9, <3>1, <3>2
    <3>4. RowsOf(d, o) = RowsOf(db, o) BY <1>1, <2>6, <3>3, SameRows
    <3>5. db.ptr[o] \notin {q.album} \ {NoImage} BY <1>1, <3>1 DEF Tidy, PointersOwn
    <3>6. d.ptr[o] = db.ptr[o] BY <2>5, <2>6, <3>5 DEF LosesRows, GivesAlbum
    <3> QED BY <3>4, <3>6 DEF SameFor
  <2>12. CoverAlbum \notin coverCrossed \cup torn => LeftFor(d, alive, CoverAlbum)
    <3> SUFFICES ASSUME CoverAlbum \notin coverCrossed \cup torn, CoverAlbum \in alive PROVE RowsOf(d, CoverAlbum) = {d.ptr[CoverAlbum]} \ {NoImage}
      BY <1>1 DEF LeftFor
    <3>1. RowsOf(db, CoverAlbum) = {q.album} \ {NoImage} BY <1>1 DEF UpToDate
    <3>2. \A i \in 1..MaxImages : (d.row[i] # NoRow /\ d.row[i].owner = CoverAlbum) <=> i = n
      BY <1>1, <2>4, <2>8, <2>9, <3>1, RowsOfAre
    <3>3. RowsOf(d, CoverAlbum) = {n} BY <2>4, <2>6, <3>2, OnlyRow
    <3>4. f.ptr[CoverAlbum] = n BY <2>5 DEF GivesAlbum
    <3>5. d.ptr[CoverAlbum] = n BY <1>1, <2>6, <2>9, <3>4 DEF LosesRows
    <3> QED BY <2>4, <3>3, <3>5
  <2>13. coverCrossed \subseteq coverCrossed' BY <2>7 DEF Become
  <2>14. torn' = torn /\ torn' \subseteq Owners /\ lost' \subseteq Paths BY <1>1 DEF RowsInv, CoverTypes
  <2>15. Knows(d, alive, coverCrossed' \cup torn', AtRest) /\ AtRest \in CoverRequest BY AtRestKnows
  <2>16. \A o \in Owners : o \notin coverCrossed' \cup torn' => SameFor(db, d, alive, o) \/ LeftFor(d, alive, o)
    BY <2>11, <2>12, <2>13, <2>14
  <2> QED BY <2>6, <2>7, <2>10, <2>14, <2>15, <2>16, BecomeKeeps
<1> QED BY <1>2, <1>3 DEF BackfillAlbumCover

-----------------------------------------------------------------------------
(* Rows go, with the pointers at them, and files may.                       *)
Loses(d, e, ids) ==
    /\ Tidy(e) /\ e.last = d.last
    /\ \A i \in 1..MaxImages : e.row[i] = IF i \in ids THEN NoRow ELSE d.row[i]
    /\ \A o \in Owners : e.ptr[o] = IF d.ptr[o] \in ids THEN NoImage ELSE d.ptr[o]

LEMMA DropsLoses ==
  ASSUME NEW d, Tidy(d), NEW ids, NEW p \in Paths, NEW e,
         e = DropRows(d, ids) \/ e = [DropRows(d, ids) EXCEPT !.file[p] = NoContent]
  PROVE  Loses(d, e, ids)
<1> DEFINE f == DropRows(d, ids)
<1>1. LosesRows(d, f, ids) /\ Tidy(f) BY DropsFacts
<1> HIDE DEF f
<1>2. Writes(f, [f EXCEPT !.file[p] = NoContent], p, NoContent) /\ Tidy([f EXCEPT !.file[p] = NoContent]) BY <1>1, WriteFacts
<1>3. CASE e = f BY <1>1, <1>3 DEF LosesRows, Loses
<1>4. CASE e = [f EXCEPT !.file[p] = NoContent] BY <1>1, <1>2, <1>4 DEF LosesRows, Writes, Loses
<1> QED BY <1>3, <1>4 DEF f

LEMMA LosesFacts ==
  ASSUME NEW d, Tidy(d), NEW e, NEW ids, Loses(d, e, ids), NEW al, NEW o \in Owners
  PROVE  /\ Ages(d, e) /\ RowsOf(e, o) = RowsOf(d, o) \ ids
         /\ LeftFor(d, al, o) => LeftFor(e, al, o)
<1>1. d.last \in Nat BY CoverDbFields DEF Tidy
<1>2. Ages(d, e) BY <1>1 DEF Loses, Ages
<1>3. \A i : i \in RowsOf(d, o) <=> i \in 1..MaxImages /\ d.row[i] # NoRow /\ d.row[i].owner = o BY RowsOfAre
<1>4. \A i : i \in RowsOf(e, o) <=> i \in 1..MaxImages /\ e.row[i] # NoRow /\ e.row[i].owner = o BY RowsOfAre DEF Loses
<1>5. RowsOf(e, o) = RowsOf(d, o) \ ids BY <1>3, <1>4 DEF Loses
<1>6. LeftFor(d, al, o) => LeftFor(e, al, o) BY <1>5 DEF Loses, LeftFor
<1> QED BY <1>2, <1>5, <1>6

(* A row or file of an orphan goes.                                         *)
LEMMA SweepLoses ==
  ASSUME Tidy(db), NEW p \in Paths, NEW i, NEW gone, gone = db \/ gone = [db EXCEPT !.file[p] = NoContent]
  PROVE  /\ Loses(db, db, {}) /\ Loses(db, gone, {}) /\ Loses(db, DropRow(gone, i), {i} \ {NoImage})
         /\ DropRow(gone, i).file = gone.file
<1>1. Tidy(gone) /\ gone.row = db.row /\ gone.ptr = db.ptr /\ gone.last = db.last
  <2> DEFINE f == [db EXCEPT !.file[p] = NoContent]
  <2>1. Writes(db, f, p, NoContent) /\ Tidy(f) BY WriteFacts
  <2>2. gone = db \/ gone = f OBVIOUS
  <2> HIDE DEF f
  <2> QED BY <2>1, <2>2 DEF Writes
<1>2. LosesRows(gone, DropRow(gone, i), {i} \ {NoImage}) /\ Tidy(DropRow(gone, i)) BY <1>1, DropRowFacts
<1> DEFINE e == DropRow(gone, i)
<1> HIDE DEF e
<1>3. Loses(db, e, {i} \ {NoImage}) BY <1>1, <1>2 DEF Loses, LosesRows, e
<1> QED BY <1>1, <1>2, <1>3 DEF Loses, LosesRows, e

LEMMA SweepBecomes ==
  ASSUME RowsInv, NEW r \in CoverThreads, NEW d, NEW q \in CoverRequest, q.pc \in {"idle", "shared", "sweep"},
         Become(r, d, q), UNCHANGED <<torn, lost>>, NEW ids, Loses(db, d, ids)
  PROVE  RowsInv'
<1>1. Tidy(db) /\ Tidy(d) BY TidyDb DEF Loses
<1>2. coverCrossed \subseteq coverCrossed' /\ torn' \subseteq Owners /\ lost' \subseteq Paths BY DEF Become, RowsInv, CoverTypes
<1>3. \A o \in Owners \ (coverCrossed \cup torn) : LeftFor(d, alive, o) BY <1>1, LosesFacts DEF RowsInv, LeftNone
<1>4. Ages(db, d) BY <1>1, LosesFacts, OwnersApart
<1>5. Knows(d, alive, coverCrossed' \cup torn', q) BY DEF Knows, Importing
<1>6. \A o \in Owners : o \notin coverCrossed' \cup torn' => SameFor(db, d, alive, o) \/ LeftFor(d, alive, o) BY <1>2, <1>3
<1> QED BY <1>1, <1>2, <1>4, <1>5, <1>6, BecomeKeeps

LEMMA AskSharedKeeps ==
  ASSUME RowsInv, NEW r \in CoverThreads, AskShared(r)
  PROVE  RowsInv'
<1> DEFINE q == creq[r]  next == [q EXCEPT !.pc = "sweep", !.shared = SharedPaths(q.orphans)]
<1>1. q \in CoverRequest BY DEF RowsInv, CoverTypes
<1>2. SharedPaths(q.orphans) \subseteq Paths BY <1>1 DEF CoverRequest, SharedPaths
<1>3. next \in CoverRequest /\ next.pc = "sweep" BY <1>1, <1>2 DEF CoverRequest, CoverPcs
<1> HIDE DEF next
<1>4. Knows(db, alive, coverCrossed \cup torn, next) BY <1>3 DEF Knows, Importing
<1>5. UNCHANGED <<torn, lost>> /\ (Become(r, db, next) \/ Become(r, db, AtRest)) BY DEF AskShared, next
<1> QED BY <1>3, <1>4, <1>5, NoChange, ToRest

LEMMA SweepOrphanKeeps ==
  ASSUME RowsInv, NEW r \in CoverThreads, SweepOrphan(r)
  PROVE  RowsInv'
<1> DEFINE q == creq[r]
<1>1. q \in CoverRequest /\ q.pc = "sweep" /\ UNCHANGED <<torn, lost>> /\ Tidy(db) BY TidyDb DEF RowsInv, CoverTypes, SweepOrphan
<1>2. CASE Become(r, db, AtRest) BY <1>1, <1>2, ToRest
<1>3. ASSUME NEW x \in q.orphans, NEW gone, gone = db \/ gone = [db EXCEPT !.file[x[2]] = NoContent],
             NEW d, d = db \/ d = gone \/ d = DropRow(gone, x[1]), Become(r, d, [q EXCEPT !.orphans = @ \ {x}])
      PROVE  RowsInv'
  <2> DEFINE next == [q EXCEPT !.orphans = @ \ {x}]
  <2>1. next \in CoverRequest /\ next.pc = "sweep" BY <1>1 DEF CoverRequest, CoverPcs
  <2>2. x[2] \in Paths BY <1>1 DEF CoverRequest
  <2>3. Loses(db, db, {}) /\ Loses(db, gone, {}) /\ Loses(db, DropRow(gone, x[1]), {x[1]} \ {NoImage}) BY <1>1, <1>3, <2>2, SweepLoses
  <2> HIDE DEF next
  <2>4. Become(r, d, next) BY <1>3 DEF next
  <2>5. \E ids : Loses(db, d, ids) BY <1>3, <2>3
  <2> QED BY <1>1, <2>1, <2>4, <2>5, SweepBecomes
<1> QED BY <1>2, <1>3 DEF SweepOrphan

LEMMA DeleteKeeps ==
  ASSUME RowsInv, NEW d, NEW ids, Loses(db, d, ids), Delete(d), Undeleted, lost' \subseteq Paths
  PROVE  RowsInv'
<1> DEFINE bad == coverCrossed \cup torn  badd == coverCrossed' \cup torn'
<1>1. /\ Tidy(db) /\ Tidy(d) /\ db' = d /\ UNCHANGED <<alive, embedded, creq, torn>>
      /\ coverCrossed' = coverCrossed \cup (Changes(d) \cap ReadBy(CoverThreads))
  BY TidyDb DEF Loses, Delete, Undeleted
<1>2. bad \subseteq badd /\ coverCrossed' \subseteq Owners BY <1>1 DEF RowsInv, CoverTypes, Changes
<1>3. CoverTypes' BY <1>1, <1>2 DEF RowsInv, CoverTypes, Tidy
<1>4. \A o \in Owners \ badd : LeftFor(d, alive, o) BY <1>1, <1>2, LosesFacts DEF RowsInv, LeftNone
<1>5. Ages(db, d) BY <1>1, LosesFacts, OwnersApart
<1>6. ASSUME NEW s \in CoverThreads PROVE Knows(d, alive, badd, creq[s])
  <2>1. Knows(db, alive, bad, creq[s]) /\ creq[s] \in CoverRequest BY DEF RowsInv, CoverTypes
  <2>2. ReadOf(creq[s]) \subseteq Owners BY <2>1, OwnersApart DEF ReadOf, CoverRequest
  <2>3. ReadOf(creq[s]) \subseteq ReadBy(CoverThreads) BY DEF ReadOf, ReadBy, Importing
  <2>4. \A o \in ReadOf(creq[s]) : o \notin badd => SameFor(db, d, alive, o) BY <1>1, <2>2, <2>3 DEF Changes, SameFor
  <2> QED BY <1>1, <1>2, <1>5, <2>1, <2>4, StillKnows
<1>7. badd = (coverCrossed \cup torn)' OBVIOUS
<1> HIDE DEF badd
<1>8. (Shaped(db) /\ PointersOwn(db))' BY <1>1 DEF Tidy, Shaped, PointersOwn
<1>9. LeftNone(db', alive', badd) /\ \A s \in CoverThreads : Knows(db', alive', badd, creq'[s]) BY <1>1, <1>4, <1>6 DEF LeftNone
<1> QED BY <1>3, <1>7, <1>8, <1>9 DEF RowsInv

LEMMA DeletesKeep ==
  ASSUME RowsInv, (\E t \in CoverTracks : DeleteTrackCovers(t)) \/ DeleteAlbumCovers \/ DeleteArtistCovers
  PROVE  RowsInv'
<1>1. Tidy(db) /\ lost \subseteq Paths BY TidyDb DEF RowsInv, CoverTypes
<1>2. ASSUME NEW t \in CoverTracks, DeleteTrackCovers(t) PROVE RowsInv'
  <2>1. t \in Paths /\ Undeleted /\ lost' \subseteq Paths BY <1>1, <1>2, OwnersApart DEF DeleteTrackCovers
  <2>2. CASE Delete(DropRows(db, AlbumRowsAt(db, t)))
    <3>1. Loses(db, DropRows(db, AlbumRowsAt(db, t)), AlbumRowsAt(db, t)) BY <1>1, <2>1, DropsLoses
    <3> QED BY <2>1, <2>2, <3>1, DeleteKeeps
  <2>3. CASE Delete([DropRows(db, CoverRowsOf(t)) EXCEPT !.file[t] = NoContent])
    <3>1. Loses(db, [DropRows(db, CoverRowsOf(t)) EXCEPT !.file[t] = NoContent], CoverRowsOf(t)) BY <1>1, <2>1, DropsLoses
    <3> QED BY <2>1, <2>3, <3>1, DeleteKeeps
  <2> QED BY <1>2, <2>2, <2>3 DEF DeleteTrackCovers
<1>3. CASE DeleteAlbumCovers
  <2>1. Loses(db, DropRows(db, RowsOf(db, CoverAlbum)), RowsOf(db, CoverAlbum)) BY <1>1, OwnersApart, DropsLoses
  <2> QED BY <1>1, <1>3, <2>1, DeleteKeeps DEF DeleteAlbumCovers
<1>4. CASE DeleteArtistCovers
  <2>1. Loses(db, [DropRows(db, RowsOf(db, CoverArtist)) EXCEPT !.file[CoverArtist] = NoContent], RowsOf(db, CoverArtist))
    BY <1>1, OwnersApart, DropsLoses
  <2>2. lost' \subseteq Paths BY <1>1, <1>4 DEF DeleteArtistCovers
  <2> QED BY <1>4, <2>1, <2>2, DeleteKeeps DEF DeleteArtistCovers
<1> QED BY <1>2, <1>3, <1>4

LEMMA OwnerGoesKeeps ==
  ASSUME RowsInv, NEW o \in Owners, OwnerGoes(o)
  PROVE  RowsInv'
<1> DEFINE d == [db EXCEPT !.ptr[o] = NoImage]  ptrs == [db.ptr EXCEPT ![o] = NoImage]
<1>1. Tidy(db) /\ db \in CoverDb BY TidyDb
<1>2. ptrs \in [Owners -> 0..MaxImages] BY <1>1, CoverDbFields DEF NoImage
<1>3. d = [db EXCEPT !.ptr = ptrs] BY <1>1 DEF CoverDb
<1>4. d \in CoverDb /\ d.row = db.row /\ d.ptr = ptrs /\ d.last = db.last /\ d.file = db.file
  <2> HIDE DEF ptrs, d
  <2> QED BY <1>1, <1>2, <1>3 DEF CoverDb
<1>5. Tidy(d) BY <1>1, <1>4, CoverDbFields DEF Tidy, Shaped, PointersOwn
<1>6. db' = d /\ alive' = alive \ {o} /\ UNCHANGED <<embedded, creq, coverCrossed, torn, lost>> BY DEF OwnerGoes
<1> HIDE DEF d
<1>7. CoverTypes' BY <1>4, <1>6 DEF RowsInv, CoverTypes
<1>8. \A y : RowsOf(d, y) = RowsOf(db, y) BY <1>4 DEF RowsOf
<1>9. \A y \in Owners : SameFor(db, d, alive \ {o}, y) BY <1>1, <1>4, <1>8, CoverDbFields DEF SameFor
<1>10. LeftNone(d, alive \ {o}, coverCrossed \cup torn)
  <2> SUFFICES ASSUME NEW y \in Owners \ (coverCrossed \cup torn) PROVE LeftFor(d, alive \ {o}, y) BY DEF LeftNone
  <2> QED BY <1>9, LeftForSame DEF RowsInv, LeftNone
<1>11. Ages(db, d) BY <1>1, <1>4, CoverDbFields DEF Ages
<1>12. ASSUME NEW s \in CoverThreads PROVE Knows(d, alive \ {o}, coverCrossed \cup torn, creq[s])
  <2>1. Knows(db, alive, coverCrossed \cup torn, creq[s]) /\ creq[s] \in CoverRequest BY DEF RowsInv, CoverTypes
  <2>2. ReadOf(creq[s]) \subseteq Owners BY <2>1, OwnersApart DEF ReadOf, CoverRequest
  <2> QED BY <1>1, <1>5, <1>9, <1>11, <2>1, <2>2, StillKnows
<1>13. (Shaped(db) /\ PointersOwn(db))' BY <1>5, <1>6 DEF Tidy, Shaped, PointersOwn
<1>14. LeftNone(db', alive', (coverCrossed \cup torn)') /\ \A s \in CoverThreads : Knows(db', alive', (coverCrossed \cup torn)', creq'[s])
  BY <1>6, <1>10, <1>12
<1> QED BY <1>7, <1>13, <1>14 DEF RowsInv

LEMMA LoseFileKeeps ==
  ASSUME RowsInv, NEW p \in Paths, LoseFile(p)
  PROVE  RowsInv'
<1> DEFINE d == [db EXCEPT !.file[p] = NoContent]
<1>1. Writes(db, d, p, NoContent) /\ Tidy(d) BY TidyDb, WriteFacts
<1>2. db' = d /\ lost' \subseteq Paths /\ UNCHANGED <<alive, embedded, creq, coverCrossed, torn>> BY DEF LoseFile, RowsInv, CoverTypes
<1> HIDE DEF d
<1>3. db'.row = db.row /\ db'.ptr = db.ptr /\ db'.last = db.last /\ Tidy(db') BY <1>1, <1>2 DEF Writes
<1>4. CoverTypes' BY <1>2, <1>3 DEF RowsInv, CoverTypes, Tidy
<1> QED BY <1>2, <1>3, <1>4
        DEF RowsInv, Shaped, PointersOwn, LeftNone, LeftFor, RowsOf, Knows, Known, UpToDate

LEMMA RetagKeeps ==
  ASSUME RowsInv, NEW t \in CoverTracks, NEW c \in Embedded \cup {NoContent}, Retag(t, c)
  PROVE  RowsInv'
<1>1. CoverTypes' BY DEF Retag, RowsInv, CoverTypes
<1> QED BY <1>1 DEF Retag, RowsInv, Shaped, PointersOwn, LeftNone, LeftFor, RowsOf, Knows, Known, UpToDate

LEMMA RowsStep == RowsInv /\ [CoversNext]_coverVars => RowsInv'
<1> SUFFICES ASSUME RowsInv, [CoversNext]_coverVars PROVE RowsInv' OBVIOUS
<1>1. ASSUME NEW r \in CoverThreads, NEW t \in CoverTracks, NEW force \in BOOLEAN, AskEnsure(r, t, force) PROVE RowsInv'
  BY <1>1, AskEnsureKeeps
<1>2. ASSUME NEW r \in CoverThreads, EmbeddedCover(r) PROVE RowsInv' BY <1>2, EmbeddedKeeps
<1>3. ASSUME NEW r \in CoverThreads, PlatformCover(r) PROVE RowsInv' BY <1>3, PlatformKeeps
<1>4. ASSUME NEW r \in CoverThreads, NEW o \in Owners, AskURL(r, o) PROVE RowsInv' BY <1>4, AskURLKeeps
<1>5. ASSUME NEW r \in CoverThreads, CheckURL(r) PROVE RowsInv' BY <1>5, CheckKeeps
<1>6. ASSUME NEW r \in CoverThreads, ImportURL(r) PROVE RowsInv' BY <1>6, ImportURLKeeps
<1>7. ASSUME NEW r \in CoverThreads, NEW force \in BOOLEAN, AskBackfill(r, force) PROVE RowsInv' BY <1>7, AskBackfillKeeps
<1>8. ASSUME NEW r \in CoverThreads, BackfillAlbumCover(r) PROVE RowsInv' BY <1>8, BackfillKeeps
<1>9. ASSUME NEW r \in CoverThreads, StartSweep(r) PROVE RowsInv' BY <1>9, StartSweepKeeps
<1>10. ASSUME NEW r \in CoverThreads, AskShared(r) PROVE RowsInv' BY <1>10, AskSharedKeeps
<1>11. ASSUME NEW r \in CoverThreads, SweepOrphan(r) PROVE RowsInv' BY <1>11, SweepOrphanKeeps
<1>12. CASE (\E t \in CoverTracks : DeleteTrackCovers(t)) \/ DeleteAlbumCovers \/ DeleteArtistCovers BY <1>12, DeletesKeep
<1>13. ASSUME NEW o \in Owners, OwnerGoes(o) PROVE RowsInv' BY <1>13, OwnerGoesKeeps
<1>14. ASSUME NEW p \in Paths, LoseFile(p) PROVE RowsInv' BY <1>14, LoseFileKeeps
<1>15. ASSUME NEW t \in CoverTracks, NEW c \in Embedded \cup {NoContent}, Retag(t, c) PROVE RowsInv' BY <1>15, RetagKeeps
<1>16. CASE UNCHANGED coverVars
  <2>1. UNCHANGED <<db, alive, embedded, creq, coverCrossed, torn, lost>> BY <1>16 DEF coverVars
  <2>2. CoverTypes' BY <2>1 DEF RowsInv, CoverTypes
  <2> QED BY <2>1, <2>2 DEF RowsInv, Shaped, PointersOwn, LeftNone, LeftFor, RowsOf, Knows, Known, UpToDate
<1> QED BY <1>1, <1>2, <1>3, <1>4, <1>5, <1>6, <1>7, <1>8, <1>9, <1>10, <1>11, <1>12, <1>13, <1>14, <1>15, <1>16 DEF CoversNext

LEMMA RowsInit == CoversInit => RowsInv
<1> SUFFICES ASSUME CoversInit PROVE RowsInv OBVIOUS
<1>0. PICK t \in CoverTracks, c \in {CHOOSE x \in Embedded : TRUE} :
          /\ db = [row |-> [i \in 1..MaxImages |-> CASE i = 1 -> [owner |-> t, path |-> t, content |-> c]
                                                    [] i = 2 -> [owner |-> CoverAlbum, path |-> t, content |-> c]
                                                    [] OTHER -> NoRow],
                   ptr |-> [o \in Owners |-> CASE o = t -> 1 [] o = CoverAlbum -> 2 [] OTHER -> NoImage],
                   file |-> [p \in Paths |-> IF p = t THEN c ELSE NoContent],
                   last |-> 2]
          /\ embedded = [u \in CoverTracks |-> IF u = t THEN c ELSE NoContent]
  BY DEF CoversInit
<1>1. c \in Embedded /\ c \in Contents BY CoversAssumption DEF Contents
<1> DEFINE x == [owner |-> t, path |-> t, content |-> c]  y == [owner |-> CoverAlbum, path |-> t, content |-> c]
<1>2. t \in Owners /\ t \in Paths /\ CoverAlbum \in Owners /\ t # CoverAlbum BY OwnersApart, <1>0
<1>3. /\ x \in CoverRow /\ y \in CoverRow /\ x # NoRow /\ y # NoRow
      /\ x.owner = t /\ x.path = t /\ y.owner = CoverAlbum /\ y.path = t BY <1>1, <1>2, CoverRowFields
<1> HIDE DEF x, y
<1>4. MaxImages \in Nat /\ MaxImages >= 2 BY CoversAssumption
<1>5. db.row = [i \in 1..MaxImages |-> CASE i = 1 -> x [] i = 2 -> y [] OTHER -> NoRow] /\ db.last = 2
      /\ db.ptr = [o \in Owners |-> CASE o = t -> 1 [] o = CoverAlbum -> 2 [] OTHER -> NoImage]
      /\ db.file = [p \in Paths |-> IF p = t THEN c ELSE NoContent]
  BY <1>0 DEF x, y
<1>6. /\ db.row[1] = x /\ db.row[2] = y /\ (\A i \in 1..MaxImages : i # 1 /\ i # 2 => db.row[i] = NoRow)
      /\ db.ptr[t] = 1 /\ db.ptr[CoverAlbum] = 2 /\ \A o \in Owners : o # t /\ o # CoverAlbum => db.ptr[o] = 0
  BY <1>2, <1>4, <1>5 DEF NoImage
<1>7. db \in CoverDb
  <2>1. db.row \in [1..MaxImages -> CoverRow \cup {NoRow}] BY <1>3, <1>5
  <2>2. db.ptr \in [Owners -> 0..MaxImages] BY <1>4, <1>5 DEF NoImage
  <2>3. db.file \in [Paths -> Contents \cup {NoContent}] BY <1>1, <1>5
  <2>4. db = [row |-> db.row, ptr |-> db.ptr, file |-> db.file, last |-> 2] BY <1>0
  <2> QED BY <1>4, <2>1, <2>2, <2>3, <2>4 DEF CoverDb
<1>8. CoverTypes BY <1>0, <1>1, <1>7, AtRestKnows DEF CoverTypes, CoversInit
<1>9. Shaped(db) /\ PointersOwn(db) BY <1>2, <1>3, <1>4, <1>5, <1>6 DEF Shaped, PointersOwn, NoImage
<1>10. Tidy(db) BY <1>7, <1>9 DEF Tidy
<1>11. LeftNone(db, alive, coverCrossed \cup torn)
  <2> SUFFICES ASSUME NEW o \in Owners PROVE LeftFor(db, alive, o) BY DEF LeftNone
  <2>1. CASE o = t
    <3>1. \A i \in 1..MaxImages : (db.row[i] # NoRow /\ db.row[i].owner = t) <=> i = 1 BY <1>2, <1>3, <1>4, <1>6
    <3>2. RowsOf(db, t) = {1} BY <1>4, <1>10, <3>1, OnlyRow
    <3> QED BY <1>6, <2>1, <3>2 DEF LeftFor, NoImage
  <2>2. CASE o = CoverAlbum
    <3>1. \A i \in 1..MaxImages : (db.row[i] # NoRow /\ db.row[i].owner = CoverAlbum) <=> i = 2 BY <1>2, <1>3, <1>4, <1>6
    <3>2. RowsOf(db, CoverAlbum) = {2} BY <1>4, <1>10, <3>1, OnlyRow
    <3> QED BY <1>6, <2>2, <3>2 DEF LeftFor, NoImage
  <2>3. CASE o # t /\ o # CoverAlbum
    <3>1. \A i : i \notin RowsOf(db, o) BY <1>3, <1>6, <1>10, <2>3, RowsOfAre
    <3> QED BY <1>6, <2>3, <3>1 DEF LeftFor, NoImage
  <2> QED BY <2>1, <2>2, <2>3
<1>12. \A r \in CoverThreads : Knows(db, alive, coverCrossed \cup torn, creq[r]) BY AtRestKnows DEF CoversInit
<1> QED BY <1>8, <1>9, <1>11, <1>12 DEF RowsInv

LEMMA RowsImply == RowsInv => CoversTypeOK /\ NoRowIsLeft
<1> SUFFICES ASSUME RowsInv PROVE CoversTypeOK /\ NoRowIsLeft OBVIOUS
<1>1. CoversTypeOK
  <2>1. db \in CoverDb BY TidyDb
  <2> QED BY <2>1 DEF RowsInv, CoverTypes, CoverDb, CoverRow, CoverRequest, CoversTypeOK
<1>2. NoRowIsLeft BY DEF RowsInv, CoverTypes, LeftNone, LeftFor, NoRowIsLeft
<1> QED BY <1>1, <1>2

(* No row is left behind, whatever fails and whoever overlaps elsewhere.    *)
THEOREM NoRowIsEverLeft == CoversSpec => [](CoversTypeOK /\ NoRowIsLeft)
<1> QED BY RowsInit, RowsStep, RowsImply, PTL DEF CoversSpec

-----------------------------------------------------------------------------
(* What the platform gave fills gaps only.                                  *)
GapFilled(t) ==
    LET i == db.ptr[t]  j == db'.ptr[t] IN
    (j # i /\ j # NoImage /\ i # NoImage /\ db'.row[j].content \in Network /\ ImageFilesIntact(db, i))
    => \E r \in CoverThreads : creq[r].pc \in {"embedded", "platform"} /\ creq[r].owner = t /\ creq[r].force

(* A track's own row is at its own path: whether a file is there is the     *)
(* same for all of them.                                                    *)
LEMMA OneFile ==
  ASSUME Tidy(db), NEW t \in CoverTracks, NEW i \in RowsOf(db, t)
  PROVE  ImageFilesIntact(db, i) <=> db.file[t] # NoContent
<1>1. i \in 1..MaxImages /\ db.row[i] # NoRow /\ db.row[i].owner = t BY RowsOfAre
<1>2. db.row[i].path = t BY <1>1, OwnersApart DEF Tidy, Shaped
<1> QED BY <1>1, <1>2 DEF ImageFilesIntact, Exists, NoImage

LEMMA ImportFills ==
  ASSUME RowsInv, NEW r \in CoverThreads, NEW c \in Contents, Importing(creq[r]), Room,
         NEW x \in Import(creq[r], c), db' = x.db, NEW t \in CoverTracks,
         \/ creq[r].pc = "embedded" /\ c \in Embedded /\ (creq[r].force \/ ~ImageFilesIntact(db, creq[r].snap))
         \/ creq[r].pc = "platform" /\ (creq[r].force \/ ~InPlace(creq[r]))
         \/ creq[r].pc = "fetch" /\ ~InPlace(creq[r])
  PROVE  GapFilled(t)
<1> DEFINE q == creq[r]  o == q.owner  i == db.ptr[t]  j == db'.ptr[t]
<1> SUFFICES ASSUME j # i, j # NoImage, i # NoImage, db'.row[j].content \in Network, ImageFilesIntact(db, i),
                    ~(q.pc \in {"embedded", "platform"} /\ o = t /\ q.force)
             PROVE  FALSE
  BY DEF GapFilled
<1>1. /\ Tidy(db) /\ o \in Paths /\ Known(db, q.snap, o) /\ t \in Owners /\ t # CoverAlbum
  BY TidyDb, OwnersApart DEF RowsInv, Knows
<1>2. Imports(db, x.db, o, q.snap, c) BY <1>1, ImportFacts DEF Outcomes
<1>3. t = o BY <1>1, <1>2 DEF Imports
<1>4. i \in RowsOf(db, t) BY <1>1, CoverDbFields, RowsOfAre DEF Tidy, PointersOwn, NoImage
<1>5. ~(q.pc = "platform" \/ q.pc = "fetch") BY <1>3, <1>4 DEF InPlace
<1>6. q.pc = "embedded" /\ c \in Embedded /\ ~ImageFilesIntact(db, q.snap) BY <1>3, <1>5
<1>7. OwnPointer(db, x.db, o, q.snap, c) BY <1>2 DEF Imports
<1>8. c \notin Network BY <1>6, CoversAssumption
<1>9. q.snap # NoImage /\ db.row[q.snap] # NoRow BY <1>3, <1>7, <1>8 DEF OwnPointer
<1>10. q.snap \in RowsOf(db, t) BY <1>1, <1>3, <1>9, CoverDbFields, RowsOfAre DEF Known, Tidy, NoImage
<1> QED BY <1>1, <1>4, <1>6, <1>10, OneFile

LEMMA OtherStepsFill ==
  ASSUME Tidy(db), NEW d, NEW ids, Loses(db, d, ids), db' = d, NEW t \in CoverTracks
  PROVE  GapFilled(t)
BY OwnersApart DEF GapFilled, Loses

LEMMA SameFills ==
  ASSUME db'.ptr = db.ptr, NEW t \in CoverTracks
  PROVE  GapFilled(t)
BY DEF GapFilled

LEMMA StepFills ==
  ASSUME RowsInv, [CoversNext]_coverVars, NEW t \in CoverTracks
  PROVE  GapFilled(t)
<1>1. Tidy(db) /\ t \in Owners /\ t \in Paths /\ t # CoverAlbum /\ t # CoverArtist BY TidyDb, OwnersApart
<1>2. ASSUME NEW r \in CoverThreads, EmbeddedCover(r) PROVE GapFilled(t)
  <2> DEFINE q == creq[r]
  <2>1. CASE db' = db BY <2>1, SameFills
  <2>2. ASSUME q.force \/ ~ImageFilesIntact(db, q.snap), embedded[q.owner] # NoContent, Room,
               NEW x \in Import(q, embedded[q.owner]), db' = x.db
        PROVE GapFilled(t)
    <3>1. q.pc = "embedded" /\ Importing(q) /\ q.owner \in CoverTracks BY <1>2 DEF EmbeddedCover, Importing, RowsInv, Knows
    <3>2. embedded[q.owner] \in Embedded /\ embedded[q.owner] \in Contents BY <2>2, <3>1 DEF RowsInv, CoverTypes, Contents
    <3> QED BY <2>2, <3>1, <3>2, ImportFills
  <2> QED BY <1>2, <2>1, <2>2 DEF EmbeddedCover, Become, RequestEnded
<1>3. ASSUME NEW r \in CoverThreads, PlatformCover(r) PROVE GapFilled(t)
  <2> DEFINE q == creq[r]
  <2>1. CASE db' = db BY <2>1, SameFills
  <2>2. ASSUME q.force \/ ~InPlace(q), Room, NEW c \in Network, NEW x \in Import(q, c), db' = x.db PROVE GapFilled(t)
    <3>1. q.pc = "platform" /\ Importing(q) /\ c \in Contents BY <1>3 DEF PlatformCover, Importing, Contents
    <3> QED BY <2>2, <3>1, ImportFills
  <2> QED BY <1>3, <2>1, <2>2 DEF PlatformCover, Become, RequestEnded
<1>4. ASSUME NEW r \in CoverThreads, ImportURL(r) PROVE GapFilled(t)
  <2> DEFINE q == creq[r]
  <2>1. CASE db' = db BY <2>1, SameFills
  <2>2. ASSUME ~InPlace(q), Room, NEW c \in Network, NEW x \in Import(q, c), db' = x.db PROVE GapFilled(t)
    <3>1. q.pc = "fetch" /\ Importing(q) /\ c \in Contents BY <1>4 DEF ImportURL, Importing, Contents
    <3> QED BY <2>2, <3>1, ImportFills
  <2>3. ASSUME NEW i \in RowsOf(db, CoverArtist), db' = Point(db, CoverArtist, i) PROVE GapFilled(t)
    <3>1. i \in 1..MaxImages /\ db.row[i] # NoRow /\ db.row[i].owner = CoverArtist BY <1>1, RowsOfAre
    <3>2. Points(db, db', CoverArtist, i) BY <1>1, <2>3, <3>1, OwnersApart, PointFacts
    <3> QED BY <1>1, <3>2 DEF Points, GapFilled
  <2> QED BY <1>4, <2>1, <2>2, <2>3 DEF ImportURL, Become, RequestEnded, RepairPointer
<1>5. ASSUME NEW r \in CoverThreads, BackfillAlbumCover(r) PROVE GapFilled(t)
  <2> DEFINE q == creq[r]
  <2>1. CASE db' = db BY <2>1, SameFills
  <2>2. ASSUME NEW u \in Bearing, Room, db' = Retire(CreateAlbumImage(db, u, db.file[u]), q.album) PROVE GapFilled(t)
    <3> DEFINE f == CreateAlbumImage(db, u, db.file[u])
    <3>1. u \in CoverTracks /\ ImageFilesIntact(db, db.ptr[u]) /\ u \in Owners /\ u \in Paths BY OwnersApart DEF Bearing
    <3>2. db.ptr[u] \in RowsOf(db, u) BY <1>1, <3>1, CoverDbFields, RowsOfAre DEF ImageFilesIntact, Exists, Tidy, PointersOwn, NoImage
    <3>3. db.file[u] \in Contents BY <1>1, <3>1, <3>2, OneFile, CoverDbFields DEF Tidy
    <3>4. db.last + 1 <= MaxImages BY <1>1, <2>2, CoverDbFields DEF Room, Tidy
    <3>5. GivesAlbum(db, f, u, db.file[u]) /\ Tidy(f) BY <1>1, <3>1, <3>3, <3>4, CreateAlbumImageFacts
    <3> HIDE DEF f
    <3>6. LosesRows(f, db', {q.album} \ {NoImage}) BY <2>2, <3>5, DropRowFacts DEF Retire, f
    <3> QED BY <1>1, <3>5, <3>6 DEF LosesRows, GivesAlbum, GapFilled
  <2> QED BY <1>5, <2>1, <2>2 DEF BackfillAlbumCover, Become
<1>6. ASSUME NEW r \in CoverThreads, SweepOrphan(r) PROVE GapFilled(t)
  <2> DEFINE q == creq[r]
  <2>1. CASE db' = db BY <2>1, SameFills
  <2>2. ASSUME NEW x \in q.orphans, NEW gone, gone = db \/ gone = [db EXCEPT !.file[x[2]] = NoContent],
               db' = gone \/ db' = DropRow(gone, x[1])
        PROVE GapFilled(t)
    <3>1. x[2] \in Paths BY DEF RowsInv, CoverTypes, CoverRequest
    <3>2. Loses(db, gone, {}) /\ Loses(db, DropRow(gone, x[1]), {x[1]} \ {NoImage}) BY <1>1, <2>2, <3>1, SweepLoses
    <3> QED BY <1>1, <2>2, <3>2, OtherStepsFill
  <2> QED BY <1>6, <2>1, <2>2 DEF SweepOrphan, Become
<1>7. ASSUME NEW u \in CoverTracks, DeleteTrackCovers(u) PROVE GapFilled(t)
  <2>1. u \in Paths BY OwnersApart
  <2>2. \/ Loses(db, db', AlbumRowsAt(db, u)) \/ Loses(db, db', CoverRowsOf(u))
    BY <1>1, <1>7, <2>1, DropsLoses DEF DeleteTrackCovers, Delete
  <2> QED BY <1>1, <2>2, OtherStepsFill
<1>8. CASE DeleteAlbumCovers
  <2>1. Loses(db, db', RowsOf(db, CoverAlbum)) BY <1>1, <1>8, DropsLoses DEF DeleteAlbumCovers, Delete
  <2> QED BY <1>1, <2>1, OtherStepsFill
<1>9. CASE DeleteArtistCovers
  <2>1. Loses(db, db', RowsOf(db, CoverArtist)) BY <1>1, <1>9, OwnersApart, DropsLoses DEF DeleteArtistCovers, Delete
  <2> QED BY <1>1, <2>1, OtherStepsFill
<1>10. ASSUME NEW o \in Owners, OwnerGoes(o) PROVE GapFilled(t)
  <2>1. db' = [db EXCEPT !.ptr = [db.ptr EXCEPT ![o] = NoImage]] BY <1>1, <1>10 DEF OwnerGoes, Tidy, CoverDb
  <2>2. db'.ptr = [db.ptr EXCEPT ![o] = NoImage] BY <1>1, <2>1 DEF Tidy, CoverDb
  <2> QED BY <1>1, <2>2, CoverDbFields DEF Tidy, GapFilled
<1>11. ASSUME NEW p \in Paths, LoseFile(p) PROVE GapFilled(t)
  <2>1. db'.ptr = db.ptr BY <1>1, <1>11 DEF LoseFile, Tidy, CoverDb
  <2> QED BY <2>1, SameFills
<1>12. ASSUME NEW r \in CoverThreads, AskShared(r) \/ CheckURL(r) PROVE GapFilled(t)
  <2>1. db' = db BY <1>12 DEF AskShared, CheckURL, Become
  <2> QED BY <2>1, SameFills
<1>13. CASE OnlyAsks \/ UNCHANGED coverVars \/ \E u \in CoverTracks, c \in Embedded \cup {NoContent} : Retag(u, c)
  BY <1>13, SameFills DEF OnlyAsks, coverVars, Retag
<1> QED BY <1>2, <1>3, <1>4, <1>5, <1>6, <1>7, <1>8, <1>9, <1>10, <1>11, <1>12, <1>13
        DEF CoversNext, AskEnsure, AskURL, AskBackfill, StartSweep

LEMMA NetworkStep == RowsInv /\ [CoversNext]_coverVars =>
    [\A t \in CoverTracks :
        LET i == db.ptr[t]  j == db'.ptr[t] IN
        (j # i /\ j # NoImage /\ i # NoImage /\ db'.row[j].content \in Network /\ ImageFilesIntact(db, i))
        => \E r \in CoverThreads : creq[r].pc \in {"embedded", "platform"} /\ creq[r].owner = t /\ creq[r].force]_coverVars
BY StepFills DEF GapFilled

(* A platform's picture takes the place of one whose file is there only if *)
(* the request forces it (cover_manager.go, EnsureTrackCover).              *)
THEOREM NetworkNeverReplaces == CoversSpec => NetworkFillsGaps
<1> QED BY RowsInit, RowsStep, NetworkStep, PTL DEF CoversSpec, NetworkFillsGaps

-----------------------------------------------------------------------------
(* Files and rows agree, and a sweep takes no file that is needed.       *)
RowedDb(d, al) == \A t \in CoverTracks \cap al, i \in 1..MaxImages : AlbumRow(d, i, t) => HasARow(d, t)
LostGone(d, ls) == \A p \in ls : d.file[p] = NoContent

(* Its owner is gone, and nobody imports anything for it any more.          *)
Gone(al, cq, o) == o \notin al /\ \A s \in CoverThreads : Importing(cq[s]) => cq[s].owner # o

(* The orphans a sweep knows stay orphans.  Until it has asked for shared   *)
(* paths, a path of its orphans belongs to a row that is no orphan, or to   *)
(* nobody; then a path it takes to be unshared is nobody's.                 *)
Sweeps(d, al, cq, q) ==
    /\ q.pc \in {"shared", "sweep"} => \A x \in q.orphans :
          /\ x[1] <= d.last
          /\ d.row[x[1]] # NoRow => d.row[x[1]].path = x[2] /\ Gone(al, cq, d.row[x[1]].owner)
    /\ q.pc = "shared" => \A x \in q.orphans :
          \/ Gone(al, cq, x[2])
          \/ \E i \in 1..MaxImages : d.row[i] # NoRow /\ d.row[i].owner = x[2] /\ \A y \in q.orphans : y[1] # i
    /\ q.pc = "sweep" => \A x \in q.orphans : x[2] \notin q.shared =>
          /\ Gone(al, cq, x[2])
          /\ \A i \in 1..MaxImages : d.row[i] # NoRow /\ d.row[i].path = x[2] => d.row[i].owner \notin al

(* All rows at a path agree, and the file with them, unless it is missing*)
(* and nobody alive misses it or it was taken from outside.                 *)
At(d, i, p) == d.row[i] # NoRow /\ d.row[i].path = p
Coherent(d, al, ls, p) ==
    /\ \A i, j \in 1..MaxImages : At(d, i, p) /\ At(d, j, p) => d.row[i].content = d.row[j].content
    /\ \A i \in 1..MaxImages : At(d, i, p) =>
          \/ d.file[p] = d.row[i].content
          \/ d.file[p] = NoContent /\ (d.row[i].owner \in al => p \in ls)
Twice(d, al, cr, p) == (\E i, j \in RowsOf(d, p) : i # j) \/ p \in cr \ al
Coherence(d, al, cr, tn, ls) == \A p \in Paths \ tn : ~Twice(d, al, cr, p) => Coherent(d, al, ls, p)

FilesInv ==
    /\ RowedDb(db, alive) /\ LostGone(db, lost)
    /\ \A r \in CoverThreads : Sweeps(db, alive, creq, creq[r])
    /\ Coherence(db, alive, coverCrossed, torn, lost)

(* What may happen to the rows while others sweep.                       *)
Safe(d, e, al, cq) ==
    /\ Ages(d, e)
    /\ \A i \in 1..MaxImages : d.row[i] # NoRow /\ e.row[i] = NoRow /\ d.row[i].owner \in Paths =>
          HasNewRow(d, e, d.row[i].owner) \/ Gone(al, cq, d.row[i].owner)
    /\ \A i \in 1..MaxImages : i > d.last /\ e.row[i] # NoRow => ~Gone(al, cq, e.row[i].path)
Quieter(al, cq, al2, cq2) ==
    /\ al2 \subseteq al
    /\ \A s \in CoverThreads : Importing(cq2[s]) =>
          (Importing(cq[s]) /\ cq2[s].owner = cq[s].owner) \/ cq2[s].owner \in al

LEMMA GoneStays ==
  ASSUME NEW al, NEW cq, NEW al2, NEW cq2, Quieter(al, cq, al2, cq2), NEW o, Gone(al, cq, o)
  PROVE  Gone(al2, cq2, o)
BY DEF Gone, Quieter

LEMMA SweepsStay ==
  ASSUME NEW d, Tidy(d), NEW e, Tidy(e), NEW al, NEW cq, NEW al2, NEW cq2, Quieter(al, cq, al2, cq2),
         Safe(d, e, al, cq), NEW q \in CoverRequest, Sweeps(d, al, cq, q)
  PROVE  Sweeps(e, al2, cq2, q)
<1>1. d.last \in Nat /\ e.last \in Nat /\ MaxImages \in Nat /\ d.last <= e.last BY CoverDbFields DEF Tidy, Safe, Ages
<1>2. \A x \in q.orphans : x[1] \in 1..MaxImages /\ x[2] \in Paths BY DEF CoverRequest
<1>3. \A o : Gone(al, cq, o) => Gone(al2, cq2, o) BY GoneStays
<1>4. al2 \subseteq al BY DEF Quieter
<1>5. ASSUME q.pc \in {"shared", "sweep"}, NEW x \in q.orphans
      PROVE  /\ x[1] <= e.last /\ x[1] <= d.last
             /\ e.row[x[1]] # NoRow => e.row[x[1]].path = x[2] /\ Gone(al2, cq2, e.row[x[1]].owner)
  <2>1. x[1] <= d.last /\ (d.row[x[1]] # NoRow => d.row[x[1]].path = x[2] /\ Gone(al, cq, d.row[x[1]].owner)) BY <1>5 DEF Sweeps
  <2> QED BY <1>1, <1>2, <1>3, <2>1 DEF Safe, Ages
<1>6. ASSUME q.pc = "shared", NEW x \in q.orphans
      PROVE  \/ Gone(al2, cq2, x[2])
             \/ \E i \in 1..MaxImages : e.row[i] # NoRow /\ e.row[i].owner = x[2] /\ \A y \in q.orphans : y[1] # i
  <2>1. CASE Gone(al, cq, x[2]) BY <1>3, <2>1
  <2>2. ASSUME NEW i \in 1..MaxImages, d.row[i] # NoRow, d.row[i].owner = x[2], \A y \in q.orphans : y[1] # i
        PROVE  \/ Gone(al2, cq2, x[2])
               \/ \E j \in 1..MaxImages : e.row[j] # NoRow /\ e.row[j].owner = x[2] /\ \A y \in q.orphans : y[1] # j
    <3>1. CASE e.row[i] # NoRow
      <4>1. i <= d.last BY <2>2 DEF Tidy, Shaped
      <4>2. e.row[i].owner = x[2] BY <2>2, <3>1, <4>1 DEF Safe, Ages
      <4> QED BY <2>2, <3>1, <4>2
    <3>2. CASE e.row[i] = NoRow
      <4>1. HasNewRow(d, e, x[2]) \/ Gone(al, cq, x[2]) BY <1>2, <2>2, <3>2 DEF Safe
      <4>2. CASE HasNewRow(d, e, x[2])
        <5> PICK j \in 1..MaxImages : j > d.last /\ e.row[j] # NoRow /\ e.row[j].owner = x[2] BY <4>2 DEF HasNewRow
        <5>1. \A y \in q.orphans : y[1] <= d.last BY <1>5, <1>6
        <5>2. \A y \in q.orphans : y[1] # j BY <1>1, <1>2, <5>1
        <5> QED BY <5>2
      <4> QED BY <1>3, <4>1, <4>2
    <3> QED BY <3>1, <3>2
  <2> QED BY <1>6, <2>1, <2>2 DEF Sweeps
<1>7. ASSUME q.pc = "sweep", NEW x \in q.orphans, x[2] \notin q.shared
      PROVE  /\ Gone(al2, cq2, x[2])
             /\ \A i \in 1..MaxImages : e.row[i] # NoRow /\ e.row[i].path = x[2] => e.row[i].owner \notin al2
  <2>1. Gone(al, cq, x[2]) /\ \A i \in 1..MaxImages : d.row[i] # NoRow /\ d.row[i].path = x[2] => d.row[i].owner \notin al
    BY <1>7 DEF Sweeps
  <2>2. ASSUME NEW i \in 1..MaxImages, e.row[i] # NoRow, e.row[i].path = x[2] PROVE e.row[i].owner \notin al2
    <3>1. i <= d.last BY <1>1, <2>1, <2>2 DEF Safe
    <3> QED BY <1>4, <2>1, <2>2, <3>1 DEF Safe, Ages
  <2> QED BY <1>3, <2>1, <2>2
<1> QED BY <1>5, <1>6, <1>7 DEF Sweeps

LEMMA NoSweep == \A d, al, cq, q : q.pc \notin {"shared", "sweep"} => Sweeps(d, al, cq, q)
BY DEF Sweeps

(* A path where nothing is new, and whose file is as it was.                *)
LEMMA CoherentStays ==
  ASSUME NEW d, NEW e, NEW al, NEW al2, al2 \subseteq al, NEW ls, NEW ls2, NEW p,
         \A i \in 1..MaxImages : At(e, i, p) => e.row[i] = d.row[i],
         e.file[p] = d.file[p], p \in ls => p \in ls2, Coherent(d, al, ls, p)
  PROVE  Coherent(e, al2, ls2, p)
BY DEF Coherent, At

LEMMA TwiceStays ==
  ASSUME NEW d, NEW e, NEW al, NEW al2, al2 \subseteq al, NEW cr, NEW cr2, cr \subseteq cr2, NEW p,
         RowsOf(e, p) = RowsOf(d, p), Twice(d, al, cr, p)
  PROVE  Twice(e, al2, cr2, p)
BY DEF Twice

(* A request's step that changes the tables to d.                           *)
LEMMA BecomeSafe ==
  ASSUME RowsInv, FilesInv, NEW r \in CoverThreads, NEW d, NEW q, Become(r, d, q), Tidy(d),
         Importing(q) => Importing(creq[r]) /\ q.owner = creq[r].owner,
         RowedDb(d, alive), Safe(db, d, alive, creq), LostGone(d, lost'),
         Sweeps(d, alive, creq', q), Coherence(d, alive, coverCrossed', torn', lost')
  PROVE  FilesInv'
<1>1. db' = d /\ creq' = [creq EXCEPT ![r] = q] /\ alive' = alive BY DEF Become
<1>2. creq \in [CoverThreads -> CoverRequest] /\ Tidy(db) BY TidyDb DEF RowsInv, CoverTypes
<1>3. Quieter(alive, creq, alive, creq') BY <1>1, <1>2 DEF Quieter
<1>4. ASSUME NEW s \in CoverThreads PROVE Sweeps(d, alive, creq', creq'[s])
  <2>1. CASE s = r BY <1>1, <1>2, <2>1
  <2>2. CASE s # r
    <3>1. creq'[s] = creq[s] /\ creq[s] \in CoverRequest BY <1>1, <1>2, <2>2
    <3>2. Sweeps(db, alive, creq, creq[s]) BY DEF FilesInv
    <3> QED BY <1>2, <1>3, <3>1, <3>2, SweepsStay
  <2> QED BY <2>1, <2>2
<1> QED BY <1>1, <1>4 DEF FilesInv

(* Imports.                                                                 *)
LEMMA ImportSafe ==
  ASSUME NEW d, NEW e, NEW o \in Paths, NEW s, NEW c, Tidy(d), Imports(d, e, o, s, c), NEW al, RowedDb(d, al),
         NEW cq, ~Gone(al, cq, o)
  PROVE  RowedDb(e, al) /\ Safe(d, e, al, cq)
<1>1. Tidy(e) /\ Ages(d, e) BY ImportsAge
<1>2. o # CoverAlbum /\ CoverAlbum \notin Paths /\ d.last \in Nat /\ \A i \in 1..MaxImages : i > d.last => d.row[i] = NoRow
  BY OwnersApart, NextIdIsFree, CoverDbFields DEF Tidy
<1>3. ASSUME NEW i \in 1..MaxImages, d.row[i] # NoRow, e.row[i] = NoRow PROVE d.row[i].owner = o /\ HasNewRow(d, e, o)
  BY <1>2, <1>3 DEF Imports, AlbumRow
<1>4. Safe(d, e, al, cq) BY <1>1, <1>3 DEF Safe, Imports
<1>5. ASSUME NEW t \in CoverTracks \cap al, NEW i \in 1..MaxImages, AlbumRow(e, i, t) PROVE HasARow(e, t)
  <2>1. CASE i > d.last BY <1>2, <1>5, <2>1 DEF Imports, AlbumRow
  <2>2. CASE i <= d.last
    <3>1. AlbumRow(d, i, t) BY <1>1, <1>5, <2>2 DEF Ages, AlbumRow
    <3> PICK j \in 1..MaxImages : d.row[j] # NoRow /\ d.row[j].owner = t BY <3>1 DEF RowedDb, HasARow
    <3>2. t # CoverAlbum BY OwnersApart
    <3>3. j <= d.last BY DEF Tidy, Shaped
    <3>4. CASE e.row[j] = NoRow BY <1>3, <3>4 DEF HasNewRow, HasARow
    <3>5. CASE e.row[j] # NoRow BY <1>1, <3>3, <3>5 DEF Ages, HasARow
    <3> QED BY <3>4, <3>5
  <2> QED BY <1>1, <1>2, <2>1, <2>2
<1>6. RowedDb(e, al) BY <1>5 DEF RowedDb
<1> QED BY <1>4, <1>6

(* Elsewhere all is as it was; where it failed, too; and where it went well *)
(* all rows at the path have the new content, if the owner has but one.  *)
LEMMA ImportElsewhere ==
  ASSUME NEW d, NEW e, NEW o, NEW s, NEW c, Tidy(d), Imports(d, e, o, s, c),
         NEW al, NEW ls, NEW ls2, NEW p \in Paths \ {o}, p \in ls => p \in ls2, Coherent(d, al, ls, p)
  PROVE  Coherent(e, al, ls2, p)
<1>1. e.file[p] = d.file[p] BY DEF Imports
<1>2. \A i \in 1..MaxImages : At(e, i, p) => e.row[i] = d.row[i]
  <2> SUFFICES ASSUME NEW i \in 1..MaxImages, At(e, i, p) PROVE e.row[i] = d.row[i] OBVIOUS
  <2>1. CASE i <= d.last BY <2>1 DEF Imports, At, AlbumRow
  <2>2. CASE i > d.last BY <2>2 DEF Imports, At
  <2>3. d.last \in Nat BY CoverDbFields DEF Tidy
  <2> QED BY <2>1, <2>2, <2>3
<1> QED BY <1>1, <1>2, CoherentStays

LEMMA DoneCoherent ==
  ASSUME NEW d, NEW e, NEW o \in Paths, NEW s, NEW a, NEW c, Tidy(d), Tidy(e), Imports(d, e, o, s, c), Done(d, e, o, s, a, c),
         NEW al, NEW ls, NEW ls2, ~Twice(d, al, {}, o) => Coherent(d, al, ls, o), s \in 0..d.last,
         \A i, j \in RowsOf(e, o) : i = j
  PROVE  Coherent(e, al, ls2, o)
<1>1. \A i \in 1..MaxImages : At(e, i, o) => AlbumRow(e, i, o) \/ e.row[i].owner = o
  BY DEF At, AlbumRow, Tidy, Shaped
<1>2. \A i \in RowsOf(e, o) : i \in 1..MaxImages BY RowsOfAre
<1>3. CASE OwnReplaced(d, e, o, s, c)
  <2> PICK n \in 1..MaxImages : /\ e.row[n] # NoRow /\ e.row[n].owner = o /\ e.row[n].content = c
                                /\ \A i \in 1..MaxImages : AlbumRow(e, i, o) => e.row[i].content = c
    BY <1>3 DEF OwnReplaced
  <2>1. n \in RowsOf(e, o) BY RowsOfAre
  <2>2. \A i \in 1..MaxImages : At(e, i, o) /\ e.row[i].owner = o => i = n
    <3> SUFFICES ASSUME NEW i \in 1..MaxImages, At(e, i, o), e.row[i].owner = o PROVE i = n OBVIOUS
    <3>1. i \in RowsOf(e, o) BY RowsOfAre DEF At
    <3> QED BY <2>1, <3>1
  <2>3. \A i \in 1..MaxImages : At(e, i, o) => e.row[i].content = c BY <1>1, <2>2
  <2> QED BY <2>3 DEF Done, Coherent
<1>4. CASE OwnKept(d, e, o, s, c)
  <2>1. \A i \in 1..MaxImages : e.row[i] # d.row[i] => d.row[i] = NoRow /\ AlbumRow(e, i, o) /\ e.row[i].content = c
    BY <1>4, NextIdIsFree DEF OwnKept
  <2>2. o # CoverAlbum BY OwnersApart
  <2>3. \A i \in 1..MaxImages : (e.row[i] # NoRow /\ e.row[i].owner = o) <=> (d.row[i] # NoRow /\ d.row[i].owner = o)
    BY <2>1, <2>2 DEF AlbumRow
  <2>4. RowsOf(e, o) = RowsOf(d, o) BY <2>3, SameRows
  <2>5. Coherent(d, al, ls, o) BY <2>4 DEF Twice
  <2>6. s \in 1..MaxImages /\ At(d, s, o) /\ d.row[s].content = c
    <3>1. s \in 1..MaxImages BY <1>4, CoverDbFields DEF OwnKept, Tidy, NoImage
    <3> QED BY <1>4, <2>2, <3>1 DEF OwnKept, At, Tidy, Shaped
  <2>7. \A i \in 1..MaxImages : At(d, i, o) => d.row[i].content = c BY <2>5, <2>6 DEF Coherent
  <2>8. \A i \in 1..MaxImages : At(e, i, o) => e.row[i].content = c BY <2>1, <2>7 DEF At
  <2> QED BY <2>8 DEF Done, Coherent
<1> QED BY <1>3, <1>4 DEF Done

LEMMA ImportFiles ==
  ASSUME RowsInv, FilesInv, NEW r \in CoverThreads, NEW c \in Contents, Importing(creq[r]), Room,
         NEW x \in Import(creq[r], c), NEW next, next = AtRest \/ next = [creq[r] EXCEPT !.pc = "platform"],
         RequestEnded(r, x, next)
  PROVE  FilesInv'
<1> DEFINE q == creq[r]  o == q.owner  e == x.db  s == q.snap
<1>1. /\ q \in CoverRequest /\ o \in Paths /\ o \in Owners /\ Known(db, s, o) /\ (o \notin coverCrossed \cup torn => UpToDate(db, alive, o, s))
      /\ (CoverAlbum \notin coverCrossed \cup torn /\ CoverAlbum \in alive => UpToDate(db, alive, CoverAlbum, q.album))
      /\ Tidy(db) /\ db \in CoverDb
  BY TidyDb, OwnersApart DEF RowsInv, CoverTypes, Knows
<1>2. Outcomes(o, s, q.album, c, x) BY <1>1, ImportFacts
<1>3. Imports(db, e, o, s, c) BY <1>2 DEF Outcomes
<1>4. /\ Tidy(e) /\ Ages(db, e) /\ \A y \in Owners \ {o, CoverAlbum} : RowsOf(e, y) = RowsOf(db, y) /\ e.ptr[y] = db.ptr[y]
  BY <1>1, <1>3, ImportsAge
<1>5. /\ torn' = (IF x.how \in {"crash", "stuck", "half"} THEN torn \cup {o, CoverAlbum} ELSE torn)
      /\ lost' = (IF x.db.file # db.file THEN lost \ {o} ELSE lost)
      /\ coverCrossed \subseteq coverCrossed' /\ db' = e /\ alive' = alive
  BY DEF RequestEnded, Become
<1>6. ~Gone(alive, creq, o) BY DEF Gone
<1>7. RowedDb(e, alive) /\ Safe(db, e, alive, creq) BY <1>1, <1>3, <1>6, ImportSafe DEF FilesInv
<1>8. LostGone(e, lost')
  <2>1. \A p \in lost : p \in Paths /\ db.file[p] = NoContent BY DEF FilesInv, LostGone, RowsInv, CoverTypes
  <2>2. CASE e.file = db.file BY <1>5, <2>1, <2>2 DEF LostGone
  <2>3. CASE e.file # db.file BY <1>3, <1>5, <2>1, <2>3 DEF LostGone, Imports
  <2> QED BY <2>2, <2>3
<1>9. ASSUME NEW p \in Paths \ torn', ~Twice(e, alive, coverCrossed', p) PROVE Coherent(e, alive, lost', p)
  <2>0. p \notin torn /\ p # CoverAlbum /\ p \in Owners BY <1>1, <1>5, <1>9, OwnersApart
  <2>1. CASE p # o
    <3>1. RowsOf(e, p) = RowsOf(db, p) BY <1>4, <2>0, <2>1
    <3>2. ~Twice(db, alive, coverCrossed, p) BY <1>5, <1>9, <3>1, TwiceStays
    <3>3. Coherent(db, alive, lost, p) BY <2>0, <3>2 DEF FilesInv, Coherence
    <3>4. p \in lost => p \in lost' BY <1>5, <2>1
    <3> QED BY <1>1, <1>3, <2>1, <3>3, <3>4, ImportElsewhere
  <2>2. CASE p = o /\ x.how = "failed"
    <3>1. Failed(db, e, o, s) BY <1>2, <2>2 DEF Outcomes
    <3>2. RowsOf(e, p) = RowsOf(db, p) BY <1>1, <1>4, <3>1, SameRows DEF Failed
    <3>3. ~Twice(db, alive, coverCrossed, p) BY <1>5, <1>9, <3>2, TwiceStays
    <3>4. Coherent(db, alive, lost, p) BY <2>0, <3>3 DEF FilesInv, Coherence
    <3>5. e.file = db.file
      <4>1. e.file \in [Paths -> Contents \cup {NoContent}] /\ db.file \in [Paths -> Contents \cup {NoContent}]
        BY <1>1, <1>4, CoverDbFields DEF Tidy
      <4> QED BY <3>1, <4>1 DEF Failed
    <3> QED BY <1>5, <3>1, <3>4, <3>5, CoherentStays DEF Failed
  <2>3. CASE p = o /\ x.how = "ok"
    <3>1. Done(db, e, o, s, q.album, c) BY <1>2, <2>3 DEF Outcomes
    <3>2. \A i, j \in RowsOf(e, o) : i = j BY <1>9, <2>3 DEF Twice
    <3>3. s \in 0..db.last BY <1>1 DEF Known
    <3>4. ~Twice(db, alive, {}, o) => Coherent(db, alive, lost, o)
      BY <1>5, <1>9, <2>0, <2>3 DEF FilesInv, Coherence, Twice
    <3> QED BY <1>1, <1>3, <1>4, <2>3, <3>1, <3>2, <3>3, <3>4, DoneCoherent
  <2>4. CASE p = o /\ x.how \notin {"ok", "failed"} BY <1>2, <1>5, <1>9, <2>4 DEF Outcomes, Hows
  <2> QED BY <2>1, <2>2, <2>3, <2>4
<1>10. Coherence(e, alive, coverCrossed', torn', lost') BY <1>9 DEF Coherence
<1> HIDE DEF e
<1>11. CASE x.how # "crash"
  <2> DEFINE z == IF x.how = "ok" THEN AtRest ELSE next
  <2>1. Become(r, e, z) BY <1>11 DEF RequestEnded, e
  <2>2. z.pc \notin {"shared", "sweep"} /\ (Importing(z) => z.owner = o) BY <1>1, AtRestKnows DEF CoverRequest
  <2> HIDE DEF z
  <2>3. Sweeps(e, alive, creq', z) BY <2>2, NoSweep
  <2> QED BY <1>4, <1>7, <1>8, <1>10, <2>1, <2>2, <2>3, BecomeSafe
<1>12. CASE x.how = "crash"
  <2>1. creq' = [y \in CoverThreads |-> AtRest] BY <1>12 DEF RequestEnded
  <2>2. \A y \in CoverThreads : Sweeps(e, alive, creq', creq'[y]) BY <2>1, AtRestKnows, NoSweep
  <2>3. db' = e BY <1>5 DEF e
  <2> QED BY <1>5, <1>7, <1>8, <1>10, <2>2, <2>3 DEF FilesInv
<1> QED BY <1>11, <1>12

(* The other steps.                                                         *)
LEMMA NoChangeSafe ==
  ASSUME Tidy(db), NEW al, NEW cq
  PROVE  Safe(db, db, al, cq)
BY CoverDbFields, NextIdIsFree DEF Safe, Ages, Tidy

LEMMA SameDbSafe ==
  ASSUME RowsInv, FilesInv, NEW r \in CoverThreads, NEW q, creq' = [creq EXCEPT ![r] = q],
         UNCHANGED <<db, alive, torn, lost>>, coverCrossed \subseteq coverCrossed',
         Importing(q) => q.owner \in alive \/ (Importing(creq[r]) /\ q.owner = creq[r].owner),
         Sweeps(db, alive, creq', q)
  PROVE  FilesInv'
<1>1. creq \in [CoverThreads -> CoverRequest] /\ Tidy(db) BY TidyDb DEF RowsInv, CoverTypes
<1>2. Quieter(alive, creq, alive, creq') BY <1>1 DEF Quieter
<1>3. Safe(db, db, alive, creq) BY <1>1, NoChangeSafe
<1>4. ASSUME NEW s \in CoverThreads PROVE Sweeps(db, alive, creq', creq'[s])
  <2>1. CASE s = r BY <1>1, <2>1
  <2>2. CASE s # r
    <3>1. creq'[s] = creq[s] /\ creq[s] \in CoverRequest BY <1>1, <2>2
    <3>2. Sweeps(db, alive, creq, creq[s]) BY DEF FilesInv
    <3> QED BY <1>1, <1>2, <1>3, <3>1, <3>2, SweepsStay
  <2> QED BY <2>1, <2>2
<1>5. Coherence(db, alive, coverCrossed', torn, lost) BY DEF FilesInv, Coherence, Twice
<1> QED BY <1>4, <1>5 DEF FilesInv

LEMMA BecomeSame ==
  ASSUME RowsInv, FilesInv, NEW r \in CoverThreads, NEW q, Become(r, db, q), UNCHANGED <<torn, lost>>,
         Importing(q) => Importing(creq[r]) /\ q.owner = creq[r].owner, Sweeps(db, alive, creq', q)
  PROVE  FilesInv'
BY SameDbSafe DEF Become

LEMMA RestSafe ==
  ASSUME RowsInv, FilesInv, NEW r \in CoverThreads, Become(r, db, AtRest), UNCHANGED <<torn, lost>>
  PROVE  FilesInv'
<1>1. Sweeps(db, alive, creq', AtRest) BY AtRestKnows, NoSweep
<1> QED BY <1>1, AtRestKnows, BecomeSame

LEMMA AsksSafe ==
  ASSUME RowsInv, FilesInv, NEW r \in CoverThreads
  PROVE  /\ \A t \in CoverTracks, force \in BOOLEAN : AskEnsure(r, t, force) => FilesInv'
         /\ \A o \in Owners : AskURL(r, o) => FilesInv'
         /\ \A force \in BOOLEAN : AskBackfill(r, force) => FilesInv'
<1>1. ASSUME NEW q, q.pc \notin {"shared", "sweep"}, Importing(q) => q.owner \in alive, Started(r, q), OnlyAsks PROVE FilesInv'
  <2>1. Sweeps(db, alive, creq', q) BY <1>1, NoSweep
  <2> QED BY <1>1, <2>1, SameDbSafe DEF Started, OnlyAsks
<1>2. ASSUME NEW t \in CoverTracks, NEW force \in BOOLEAN, AskEnsure(r, t, force) PROVE FilesInv'
  <2> DEFINE q == [AtRest EXCEPT !.pc = "embedded", !.owner = t, !.force = force, !.snap = db.ptr[t], !.album = db.ptr[CoverAlbum]]
  <2>1. q.pc = "embedded" /\ q.owner = t BY DEF AtRest
  <2>2. t \in alive /\ Started(r, q) /\ OnlyAsks BY <1>2 DEF AskEnsure
  <2> HIDE DEF q
  <2> QED BY <1>1, <2>1, <2>2
<1>3. ASSUME NEW o \in Owners, AskURL(r, o) PROVE FilesInv'
  <2> DEFINE q == [AtRest EXCEPT !.pc = "check", !.owner = o, !.snap = db.ptr[o], !.album = db.ptr[CoverAlbum]]
  <2>1. q.pc = "check" /\ q.owner = o BY DEF AtRest
  <2>2. o \in alive /\ Started(r, q) /\ OnlyAsks BY <1>3 DEF AskURL
  <2> HIDE DEF q
  <2> QED BY <1>1, <2>1, <2>2
<1>4. ASSUME NEW force \in BOOLEAN, AskBackfill(r, force) PROVE FilesInv'
  <2> DEFINE q == [AtRest EXCEPT !.pc = "backfill", !.force = force, !.album = db.ptr[CoverAlbum]]
  <2>1. q.pc = "backfill" /\ ~Importing(q) BY DEF AtRest, Importing
  <2>2. Started(r, q) /\ OnlyAsks BY <1>4 DEF AskBackfill
  <2> HIDE DEF q
  <2> QED BY <1>1, <2>1, <2>2
<1> QED BY <1>2, <1>3, <1>4

LEMMA RequestsSafe ==
  ASSUME RowsInv, FilesInv, NEW r \in CoverThreads
  PROVE  /\ EmbeddedCover(r) => FilesInv'
         /\ PlatformCover(r) => FilesInv'
         /\ CheckURL(r) => FilesInv'
         /\ ImportURL(r) => FilesInv'
<1> DEFINE q == creq[r]
<1>1. q \in CoverRequest BY DEF RowsInv, CoverTypes
<1>2. ASSUME EmbeddedCover(r) PROVE FilesInv'
  <2> DEFINE later == [q EXCEPT !.pc = "platform"]
  <2>1. q.pc = "embedded" /\ Importing(q) /\ q.owner \in CoverTracks BY <1>2 DEF EmbeddedCover, Importing, RowsInv, Knows
  <2>2. CASE Become(r, db, AtRest) /\ UNCHANGED <<torn, lost>> BY <2>2, RestSafe
  <2>3. CASE Become(r, db, later) /\ UNCHANGED <<torn, lost>>
    <3>1. later.pc = "platform" /\ later.owner = q.owner BY <1>1 DEF CoverRequest
    <3>2. Become(r, db, later) BY <2>3
    <3> HIDE DEF later
    <3>3. Sweeps(db, alive, creq', later) BY <3>1, NoSweep
    <3> QED BY <2>1, <2>3, <3>1, <3>2, <3>3, BecomeSame
  <2>4. CASE embedded[q.owner] # NoContent /\ Room /\ \E x \in Import(q, embedded[q.owner]) : RequestEnded(r, x, later)
    <3>1. embedded[q.owner] \in Contents BY <2>1, <2>4 DEF RowsInv, CoverTypes, Contents
    <3> QED BY <2>1, <2>4, <3>1, ImportFiles
  <2> QED BY <1>2, <2>2, <2>3, <2>4 DEF EmbeddedCover
<1>3. ASSUME PlatformCover(r) PROVE FilesInv'
  <2>1. Importing(q) BY <1>3 DEF PlatformCover, Importing
  <2>2. CASE Become(r, db, AtRest) /\ UNCHANGED <<torn, lost>> BY <2>2, RestSafe
  <2>3. CASE Room /\ \E c \in Network : \E x \in Import(q, c) : RequestEnded(r, x, AtRest)
    BY <2>1, <2>3, ImportFiles DEF Contents
  <2> QED BY <1>3, <2>2, <2>3 DEF PlatformCover
<1>4. ASSUME CheckURL(r) PROVE FilesInv'
  <2> DEFINE later == [q EXCEPT !.pc = "fetch"]
  <2>1. later.pc = "fetch" /\ later.owner = q.owner /\ Importing(q) BY <1>1, <1>4 DEF CoverRequest, CheckURL, Importing
  <2>2. UNCHANGED <<torn, lost>> /\ (Become(r, db, AtRest) \/ Become(r, db, later)) BY <1>4 DEF CheckURL
  <2> HIDE DEF later
  <2>3. Sweeps(db, alive, creq', later) BY <2>1, NoSweep
  <2> QED BY <2>1, <2>2, <2>3, RestSafe, BecomeSame
<1>5. ASSUME ImportURL(r) PROVE FilesInv'
  <2>1. Importing(q) /\ Tidy(db) BY <1>5, TidyDb DEF ImportURL, Importing
  <2>2. CASE Become(r, db, AtRest) /\ UNCHANGED <<torn, lost>> BY <2>2, RestSafe
  <2>3. CASE Room /\ \E c \in Network : \E x \in Import(q, c) : RequestEnded(r, x, AtRest)
    BY <2>1, <2>3, ImportFiles DEF Contents
  <2>4. ASSUME NEW i \in RowsOf(db, CoverArtist), Become(r, Point(db, CoverArtist, i), AtRest), UNCHANGED <<torn, lost>>
        PROVE  FilesInv'
    <3> DEFINE d == Point(db, CoverArtist, i)
    <3>1. i \in 1..MaxImages /\ db.row[i] # NoRow /\ db.row[i].owner = CoverArtist BY <2>1, RowsOfAre
    <3>2. Points(db, d, CoverArtist, i) /\ Tidy(d) BY <2>1, <3>1, OwnersApart, PointFacts
    <3> HIDE DEF d
    <3>3. d.row = db.row /\ d.file = db.file /\ d.last = db.last BY <3>2 DEF Points
    <3>4. Become(r, d, AtRest) BY <2>4 DEF d
    <3>5. RowedDb(d, alive) BY <3>3 DEF FilesInv, RowedDb, AlbumRow, HasARow
    <3>6. Safe(db, d, alive, creq) BY <2>1, <3>3, NoChangeSafe DEF Safe, Ages
    <3>7. LostGone(d, lost') BY <2>4, <3>3 DEF FilesInv, LostGone
    <3>8. Sweeps(d, alive, creq', AtRest) BY AtRestKnows, NoSweep
    <3>9. coverCrossed \subseteq coverCrossed' BY <3>4 DEF Become
    <3>10. Coherence(d, alive, coverCrossed', torn', lost')
      BY <2>4, <3>3, <3>9 DEF FilesInv, Coherence, Twice, RowsOf, Coherent, At
    <3> QED BY <3>2, <3>4, <3>5, <3>6, <3>7, <3>8, <3>10, AtRestKnows, BecomeSafe
  <2>5. CASE (\E d \in RepairPointer(q) : Become(r, d, AtRest)) /\ UNCHANGED <<torn, lost>>
    BY <2>2, <2>4, <2>5 DEF RepairPointer
  <2> QED BY <1>5, <2>2, <2>3, <2>5 DEF ImportURL
<1> QED BY <1>2, <1>3, <1>4, <1>5

LEMMA BackfillSafe ==
  ASSUME RowsInv, FilesInv, NEW r \in CoverThreads, BackfillAlbumCover(r)
  PROVE  FilesInv'
<1> DEFINE q == creq[r]
<1>1. /\ Tidy(db) /\ CoverAlbum \in Owners /\ UNCHANGED <<torn, lost>> /\ CoverAlbum \notin Paths /\ Known(db, q.album, CoverAlbum)
  BY TidyDb, OwnersApart DEF BackfillAlbumCover, RowsInv, Knows
<1>2. CASE Become(r, db, AtRest) BY <1>1, <1>2, RestSafe
<1>3. ASSUME NEW t \in Bearing, Room, Become(r, Retire(CreateAlbumImage(db, t, db.file[t]), q.album), AtRest)
      PROVE  FilesInv'
  <2> DEFINE c == db.file[t]  f == CreateAlbumImage(db, t, c)  d == Retire(f, q.album)  n == db.last + 1
  <2>1. t \in CoverTracks /\ t \in Paths /\ t \in Owners /\ t \in alive /\ ImageFilesIntact(db, db.ptr[t]) BY OwnersApart DEF Bearing
  <2>2. /\ db.ptr[t] \in 1..MaxImages /\ db.row[db.ptr[t]] # NoRow /\ db.row[db.ptr[t]].owner = t /\ db.row[db.ptr[t]].path = t
        /\ db.ptr[t] \in RowsOf(db, t)
    BY <1>1, <2>1, CoverDbFields, RowsOfAre DEF ImageFilesIntact, Exists, Tidy, PointersOwn, Shaped, NoImage
  <2>3. c # NoContent /\ c \in Contents BY <1>1, <2>1, <2>2, CoverDbFields DEF ImageFilesIntact, Tidy
  <2>4. n \in 1..MaxImages /\ n > db.last /\ db.last \in Nat /\ n # NoImage /\ MaxImages \in Nat BY <1>1, <1>3, CoverDbFields DEF Room, Tidy, NoImage
  <2>5. GivesAlbum(db, f, t, c) /\ Tidy(f) BY <1>1, <2>1, <2>3, <2>4, CreateAlbumImageFacts DEF Tidy
  <2> HIDE DEF f
  <2>6. LosesRows(f, d, {q.album} \ {NoImage}) /\ Tidy(d) BY <2>5, DropRowFacts DEF Retire
  <2> HIDE DEF d
  <2>7. Become(r, d, AtRest) BY <1>3 DEF d, f
  <2> DEFINE y == [owner |-> CoverAlbum, path |-> t, content |-> c]
  <2>8. y # NoRow /\ y.owner = CoverAlbum /\ y.path = t /\ y.content = c BY <1>1, <2>1, <2>3, RowNew
  <2> HIDE DEF y
  <2>9. /\ d.last = n /\ n # q.album /\ d.row[n] = y /\ d.file = db.file
        /\ \A i \in 1..MaxImages : i # n => d.row[i] = IF i \in {q.album} \ {NoImage} THEN NoRow ELSE db.row[i]
    <3>1. n # q.album BY <1>1, <2>4 DEF Known
    <3>2. f.row[n] = y /\ f.last = n /\ f.file = db.file /\ \A i \in 1..MaxImages : i # n => f.row[i] = db.row[i] BY <2>5 DEF GivesAlbum, y
    <3> QED BY <2>4, <2>6, <3>1, <3>2 DEF LosesRows
  <2>10. \A i \in 1..MaxImages : i # n => d.row[i] = db.row[i] \/ (d.row[i] = NoRow /\ (db.row[i] # NoRow => db.row[i].owner = CoverAlbum))
    BY <1>1, <2>9 DEF Known
  <2>11. \A i \in 1..MaxImages : (i <= db.last => i # n) /\ (i > n => d.row[i] = NoRow) BY <2>4, <2>6, <2>9, NextIdIsFree
  <2>12. Ages(db, d) BY <2>4, <2>9, <2>10, <2>11 DEF Ages
  <2>13. Safe(db, d, alive, creq)
    <3>1. \A i \in 1..MaxImages : i > db.last => i = n \/ i > n BY <2>4
    <3>2. ~Gone(alive, creq, t) BY <2>1 DEF Gone
    <3>3. db.row[n] = NoRow BY <1>1, <2>4, NextIdIsFree
    <3>4. \A i \in 1..MaxImages : db.row[i] # NoRow /\ d.row[i] = NoRow => db.row[i].owner \notin Paths BY <1>1, <2>10, <3>3
    <3> QED BY <2>8, <2>9, <2>11, <2>12, <3>1, <3>2, <3>4 DEF Safe
  <2>14. RowedDb(d, alive)
    <3> SUFFICES ASSUME NEW u \in CoverTracks \cap alive, NEW i \in 1..MaxImages, AlbumRow(d, i, u) PROVE HasARow(d, u) BY DEF RowedDb
    <3>1. HasARow(db, u)
      <4>1. CASE i = n BY <2>2, <2>8, <2>9, <4>1 DEF AlbumRow, HasARow
      <4>2. CASE i # n BY <2>10, <4>2 DEF FilesInv, RowedDb, AlbumRow
      <4> QED BY <4>1, <4>2
    <3>2. db.row[n] = NoRow /\ u # CoverAlbum BY <1>1, <2>4, NextIdIsFree, OwnersApart
    <3> PICK j \in 1..MaxImages : db.row[j] # NoRow /\ db.row[j].owner = u BY <3>1 DEF HasARow
    <3>3. d.row[j] = db.row[j] BY <2>10, <3>2
    <3> QED BY <3>3 DEF HasARow
  <2>15. LostGone(d, lost') BY <1>1, <2>9 DEF FilesInv, LostGone
  <2>16. Sweeps(d, alive, creq', AtRest) BY AtRestKnows, NoSweep
  <2>17. coverCrossed \subseteq coverCrossed' BY <2>7 DEF Become
  <2>18. ASSUME NEW p \in Paths \ torn', ~Twice(d, alive, coverCrossed', p) PROVE Coherent(d, alive, lost', p)
    <3>1. p # CoverAlbum /\ p \notin torn BY <1>1, <2>18
    <3>2. db.row[n] = NoRow BY <1>1, <2>4, NextIdIsFree
    <3>3. \A i \in 1..MaxImages : (d.row[i] # NoRow /\ d.row[i].owner = p) <=> (db.row[i] # NoRow /\ db.row[i].owner = p)
      BY <2>8, <2>9, <2>10, <3>1, <3>2
    <3>4. RowsOf(d, p) = RowsOf(db, p) BY <1>1, <2>6, <3>3, SameRows
    <3>5. ~Twice(db, alive, coverCrossed, p) BY <2>17, <2>18, <3>4, TwiceStays
    <3>6. Coherent(db, alive, lost, p) BY <2>18, <3>1, <3>5 DEF FilesInv, Coherence
    <3>7. CASE p # t
      <4>1. \A i \in 1..MaxImages : At(d, i, p) => d.row[i] = db.row[i] BY <2>8, <2>9, <2>10, <3>7 DEF At
      <4> QED BY <1>1, <2>9, <3>6, <4>1, CoherentStays
    <3>8. CASE p = t
      <4>1. \A i \in 1..MaxImages : At(db, i, t) => db.row[i].content = c BY <2>3, <3>6, <3>8 DEF Coherent
      <4>2. \A i \in 1..MaxImages : At(d, i, t) => d.row[i].content = c BY <2>8, <2>9, <2>10, <4>1 DEF At
      <4> QED BY <2>9, <3>8, <4>2 DEF Coherent
    <3> QED BY <3>7, <3>8
  <2>19. Coherence(d, alive, coverCrossed', torn', lost') BY <2>18 DEF Coherence
  <2> QED BY <2>6, <2>7, <2>13, <2>14, <2>15, <2>16, <2>19, AtRestKnows, BecomeSafe
<1> QED BY <1>2, <1>3 DEF BackfillAlbumCover

(* The sweep.  Nobody was importing for an owner that had gone when it began. *)
LEMMA StartSweepSafe ==
  ASSUME RowsInv, FilesInv, SweepAlone, NEW r \in CoverThreads, StartSweep(r)
  PROVE  FilesInv'
<1> DEFINE orphans == {<<i, db.row[i].path>> : i \in FindOrphans}
           q == [AtRest EXCEPT !.pc = "shared", !.orphans = orphans]
<1>1. Tidy(db) /\ db.last \in 2..MaxImages /\ MaxImages \in Nat BY TidyDb, CoverDbFields
<1>2. q.pc = "shared" /\ q.orphans = orphans /\ ~Importing(q) BY DEF AtRest, Importing
<1> HIDE DEF q
<1>3. creq' = [creq EXCEPT ![r] = q] /\ UNCHANGED <<db, alive, torn, lost, coverCrossed>> BY DEF StartSweep, Started, OnlyAsks, q
<1>4. creq \in [CoverThreads -> CoverRequest] BY DEF RowsInv, CoverTypes
<1>5. \A o \in Owners \ alive : Gone(alive, creq', o) BY <1>2, <1>3, <1>4 DEF StartSweep, Gone, Importing
<1>6. \A i \in FindOrphans : /\ i \in 1..MaxImages /\ i <= db.last /\ db.row[i] # NoRow
                             /\ db.row[i].owner \in Owners \ alive /\ db.row[i].path \in Paths /\ db.row[i].path \in Owners
  BY <1>1, TidyDb, CoverDbFields, OwnersApart DEF FindOrphans, Tidy
<1>7. \A x \in orphans : x[1] \in FindOrphans /\ x[2] = db.row[x[1]].path OBVIOUS
<1> HIDE DEF orphans
<1>8. ASSUME NEW x \in orphans
      PROVE  \/ Gone(alive, creq', x[2])
             \/ \E i \in 1..MaxImages : db.row[i] # NoRow /\ db.row[i].owner = x[2] /\ \A y \in orphans : y[1] # i
  <2>1. CASE x[2] \notin alive BY <1>5, <1>6, <1>7, <2>1
  <2>2. CASE x[2] \in alive
    <3>1. AlbumRow(db, x[1], x[2]) /\ x[2] \in CoverTracks BY <1>1, <1>6, <1>7, <2>2 DEF AlbumRow, Tidy, Shaped
    <3> PICK j \in 1..MaxImages : db.row[j] # NoRow /\ db.row[j].owner = x[2]
      BY <1>6, <1>7, <2>2, <3>1 DEF FilesInv, RowedDb, HasARow
    <3>2. \A y \in orphans : y[1] # j BY <1>6, <1>7, <2>2
    <3> QED BY <3>2
  <2> QED BY <2>1, <2>2
<1>9. Sweeps(db, alive, creq', q) BY <1>2, <1>5, <1>6, <1>7, <1>8 DEF Sweeps
<1> QED BY <1>2, <1>3, <1>9, SameDbSafe

LEMMA AskSharedSafe ==
  ASSUME RowsInv, FilesInv, NEW r \in CoverThreads, AskShared(r)
  PROVE  FilesInv'
<1> DEFINE q == creq[r]  next == [q EXCEPT !.pc = "sweep", !.shared = SharedPaths(q.orphans)]
<1>1. q \in CoverRequest /\ q.pc = "shared" /\ UNCHANGED <<torn, lost>> /\ Tidy(db) /\ creq \in [CoverThreads -> CoverRequest]
  BY TidyDb DEF RowsInv, CoverTypes, AskShared
<1>2. CASE Become(r, db, AtRest) BY <1>1, <1>2, RestSafe
<1>3. CASE Become(r, db, next)
  <2>1. next.pc = "sweep" /\ next.orphans = q.orphans /\ next.shared = SharedPaths(q.orphans) /\ ~Importing(next)
    BY <1>1 DEF CoverRequest, Importing
  <2> HIDE DEF next
  <2>2. Quieter(alive, creq, alive, creq') BY <1>1, <1>3, <2>1 DEF Quieter, Become
  <2>3. \A o : Gone(alive, creq, o) => Gone(alive, creq', o) BY <2>2, GoneStays
  <2>4. Sweeps(db, alive, creq, q) BY DEF FilesInv
  <2>5. ASSUME NEW x \in q.orphans, x[2] \notin SharedPaths(q.orphans)
        PROVE  /\ Gone(alive, creq, x[2])
               /\ \A i \in 1..MaxImages : db.row[i] # NoRow /\ db.row[i].path = x[2] => db.row[i].owner \notin alive
    <3>1. x[2] \in Paths /\ x[2] # CoverAlbum BY <1>1, OwnersApart DEF CoverRequest
    <3>2. db.last \in Nat /\ \A i \in 1..MaxImages : db.row[i] # NoRow => i \in 1..db.last BY <1>1, CoverDbFields DEF Tidy, Shaped
    <3>3. \A i \in 1..MaxImages : db.row[i] # NoRow /\ db.row[i].path = x[2] => \E y \in q.orphans : y[1] = i
      BY <2>5, <3>2 DEF SharedPaths
    <3>4. Gone(alive, creq, x[2]) BY <1>1, <2>4, <3>1, <3>3 DEF Sweeps, Tidy, Shaped
    <3>5. \A i \in 1..MaxImages : db.row[i] # NoRow /\ db.row[i].path = x[2] => db.row[i].owner \notin alive
      BY <1>1, <2>4, <3>3 DEF Sweeps, Gone
    <3> QED BY <3>4, <3>5
  <2>6. Sweeps(db, alive, creq', next) BY <1>1, <2>1, <2>3, <2>4, <2>5 DEF Sweeps
  <2> QED BY <1>1, <1>3, <2>1, <2>6, BecomeSame
<1> QED BY <1>2, <1>3 DEF AskShared

(* Rows go, and no file but those nobody alive misses.                      *)
LEMMA LosesCoherence ==
  ASSUME RowsInv, FilesInv, NEW d, NEW ids, Loses(db, d, ids), NEW ls, lost \subseteq ls, NEW cr, coverCrossed \subseteq cr,
         \A p \in Paths : d.file[p] = db.file[p] \/
             (d.file[p] = NoContent /\ \A i \in 1..MaxImages : At(d, i, p) => db.row[i].owner \notin alive),
         \A i \in ids : i \in 1..MaxImages /\ db.row[i] # NoRow => db.row[i].owner \notin alive
  PROVE  Coherence(d, alive, cr, torn, ls)
<1> SUFFICES ASSUME NEW p \in Paths \ torn, ~Twice(d, alive, cr, p) PROVE Coherent(d, alive, ls, p) BY DEF Coherence
<1>1. Tidy(db) /\ p \in Owners /\ \A i \in 1..MaxImages : At(d, i, p) => d.row[i] = db.row[i] /\ At(db, i, p)
  BY TidyDb, OwnersApart DEF Loses, At
<1>2. ~Twice(db, alive, coverCrossed, p)
  <2> SUFFICES ASSUME NEW i \in RowsOf(db, p), NEW j \in RowsOf(db, p), i # j PROVE FALSE BY DEF Twice
  <2>1. i \in 1..MaxImages /\ db.row[i] # NoRow /\ db.row[i].owner = p /\ j \in 1..MaxImages /\ db.row[j] # NoRow /\ db.row[j].owner = p
    BY <1>1, RowsOfAre
  <2>2. RowsOf(d, p) = RowsOf(db, p) \ ids BY <1>1, LosesFacts
  <2>3. i \in ids \/ j \in ids BY <2>2 DEF Twice
  <2>4. p \notin alive BY <2>1, <2>3
  <2>5. p \in coverCrossed BY <1>1, <2>4 DEF RowsInv, LeftNone, LeftFor
  <2> QED BY <2>4, <2>5 DEF Twice
<1>3. Coherent(db, alive, lost, p) BY <1>2 DEF FilesInv, Coherence
<1>4. CASE d.file[p] = db.file[p] BY <1>1, <1>3, <1>4, CoherentStays
<1>5. CASE d.file[p] = NoContent /\ \A i \in 1..MaxImages : At(d, i, p) => db.row[i].owner \notin alive
  BY <1>1, <1>3, <1>5 DEF Coherent
<1> QED BY <1>4, <1>5

LEMMA SweepOrphanSafe ==
  ASSUME RowsInv, FilesInv, NEW r \in CoverThreads, SweepOrphan(r)
  PROVE  FilesInv'
<1> DEFINE q == creq[r]
<1>1. /\ q \in CoverRequest /\ q.pc = "sweep" /\ UNCHANGED <<torn, lost>> /\ Tidy(db)
      /\ creq \in [CoverThreads -> CoverRequest] /\ Sweeps(db, alive, creq, q)
  BY TidyDb DEF RowsInv, CoverTypes, SweepOrphan, FilesInv
<1>2. CASE Become(r, db, AtRest) BY <1>1, <1>2, RestSafe
<1>3. ASSUME NEW x \in q.orphans, NEW gone, gone = IF x[2] \in q.shared THEN db ELSE [db EXCEPT !.file[x[2]] = NoContent],
             NEW d, d = db \/ d = gone \/ d = DropRow(gone, x[1]), Become(r, d, [q EXCEPT !.orphans = @ \ {x}])
      PROVE  FilesInv'
  <2> DEFINE next == [q EXCEPT !.orphans = @ \ {x}]
  <2>1. next.pc = "sweep" /\ next.orphans = q.orphans \ {x} /\ next.shared = q.shared /\ ~Importing(next) BY <1>1 DEF CoverRequest, Importing
  <2> HIDE DEF next
  <2>2. Become(r, d, next) BY <1>3 DEF next
  <2>3. x[1] \in 1..MaxImages /\ x[2] \in Paths BY <1>1 DEF CoverRequest
  <2>4. \A p \in Paths : gone.file[p] = db.file[p] \/ (gone.file[p] = NoContent /\ p = x[2] /\ x[2] \notin q.shared)
    <3>1. Writes(db, [db EXCEPT !.file[x[2]] = NoContent], x[2], NoContent) BY <1>1, <2>3, WriteFacts
    <3> QED BY <1>3, <3>1 DEF Writes
  <2>a. /\ Loses(db, db, {}) /\ Loses(db, gone, {}) /\ Loses(db, DropRow(gone, x[1]), {x[1]} \ {NoImage})
        /\ DropRow(gone, x[1]).file = gone.file
    <3>1. gone = db \/ gone = [db EXCEPT !.file[x[2]] = NoContent] BY <1>3
    <3> QED BY <1>1, <2>3, <3>1, SweepLoses
  <2>5. d.file = gone.file \/ d.file = db.file BY <1>3, <2>a
  <2>6. PICK ids \in SUBSET {x[1]} : Loses(db, d, ids) BY <1>3, <2>a
  <2>7. Tidy(d) BY <2>6 DEF Loses
  <2>8. db.row[x[1]] # NoRow => Gone(alive, creq, db.row[x[1]].owner) BY <1>1 DEF Sweeps
  <2>9. Safe(db, d, alive, creq)
    <3>1. Ages(db, d) BY <1>1, <2>6, LosesFacts, OwnersApart
    <3>2. \A i \in 1..MaxImages : i > db.last => d.row[i] = NoRow BY <1>1, <2>6, NextIdIsFree DEF Loses
    <3> QED BY <2>6, <2>8, <3>1, <3>2 DEF Safe, Loses
  <2>10. RowedDb(d, alive)
    <3> SUFFICES ASSUME NEW t \in CoverTracks \cap alive, NEW i \in 1..MaxImages, AlbumRow(d, i, t) PROVE HasARow(d, t) BY DEF RowedDb
    <3>1. AlbumRow(db, i, t) BY <2>6 DEF Loses, AlbumRow
    <3> PICK j \in 1..MaxImages : db.row[j] # NoRow /\ db.row[j].owner = t BY <3>1 DEF FilesInv, RowedDb, HasARow
    <3>2. j \notin ids BY <2>6, <2>8 DEF Gone
    <3> QED BY <2>6, <3>2 DEF Loses, HasARow
  <2>11. LostGone(d, lost')
    <3>1. lost' = lost /\ \A p \in lost : p \in Paths /\ db.file[p] = NoContent BY <1>1 DEF FilesInv, LostGone, RowsInv, CoverTypes
    <3> QED BY <2>4, <2>5, <3>1 DEF LostGone
  <2>12. Sweeps(d, alive, creq', next)
    <3>1. Quieter(alive, creq, alive, creq') BY <1>1, <2>1, <2>2 DEF Quieter, Become
    <3>2. Sweeps(d, alive, creq', q) BY <1>1, <2>7, <2>9, <3>1, SweepsStay
    <3> QED BY <1>1, <2>1, <3>2 DEF Sweeps
  <2>13. Coherence(d, alive, coverCrossed', torn', lost')
    <3>1. coverCrossed \subseteq coverCrossed' /\ lost \subseteq lost' /\ torn' = torn BY <1>1, <2>2 DEF Become
    <3>2. \A i \in ids : i \in 1..MaxImages /\ db.row[i] # NoRow => db.row[i].owner \notin alive BY <2>6, <2>8 DEF Gone
    <3>3. x[2] \notin q.shared => \A i \in 1..MaxImages : At(d, i, x[2]) => db.row[i].owner \notin alive
      BY <1>1, <2>6 DEF Sweeps, At, Loses
    <3>4. \A p \in Paths : d.file[p] = db.file[p] \/
             (d.file[p] = NoContent /\ \A i \in 1..MaxImages : At(d, i, p) => db.row[i].owner \notin alive)
      BY <2>4, <2>5, <3>3
    <3> QED BY <2>6, <3>1, <3>2, <3>4, LosesCoherence
  <2> QED BY <2>1, <2>2, <2>7, <2>9, <2>10, <2>11, <2>12, <2>13, BecomeSafe
<1> QED BY <1>2, <1>3 DEF SweepOrphan

(* Deletions, while nobody sweeps: where a file goes, all its rows do.   *)
DeletesAt(d, ids, P) ==
    /\ Loses(db, d, ids) /\ P \subseteq Paths
    /\ \A p \in Paths : IF p \in P THEN d.file[p] = NoContent ELSE d.file[p] = db.file[p]
    /\ \A i \in ids : i \in 1..MaxImages /\ db.row[i] # NoRow /\ db.row[i].owner \in P \cup {CoverAlbum}
    /\ \A i \in 1..MaxImages : db.row[i] # NoRow /\ db.row[i].path \in P => i \in ids

LEMMA DeleteSafe ==
  ASSUME RowsInv, FilesInv, ~Sweeping, NEW d, NEW ids, NEW P, DeletesAt(d, ids, P), Delete(d), Undeleted, lost' = lost \ P
  PROVE  FilesInv'
<1>1. /\ Tidy(db) /\ Tidy(d) /\ db' = d /\ UNCHANGED <<alive, embedded, creq, torn>> /\ coverCrossed \subseteq coverCrossed'
  BY TidyDb DEF DeletesAt, Loses, Delete, Undeleted
<1>2. RowedDb(d, alive)
  <2> SUFFICES ASSUME NEW t \in CoverTracks \cap alive, NEW i \in 1..MaxImages, AlbumRow(d, i, t) PROVE HasARow(d, t) BY DEF RowedDb
  <2>1. AlbumRow(db, i, t) /\ i \notin ids BY DEF DeletesAt, Loses, AlbumRow
  <2> PICK j \in 1..MaxImages : db.row[j] # NoRow /\ db.row[j].owner = t BY <2>1 DEF FilesInv, RowedDb, HasARow
  <2>2. t \notin P /\ t # CoverAlbum BY <2>1, OwnersApart DEF AlbumRow, DeletesAt
  <2>3. j \notin ids BY <2>2 DEF DeletesAt
  <2> QED BY <2>3 DEF DeletesAt, Loses, HasARow
<1>3. LostGone(d, lost')
  <2>1. \A p \in lost : p \in Paths /\ db.file[p] = NoContent BY DEF FilesInv, LostGone, RowsInv, CoverTypes
  <2> QED BY <2>1 DEF DeletesAt, LostGone
<1>4. ASSUME NEW p \in Paths \ torn, ~Twice(d, alive, coverCrossed', p) PROVE Coherent(d, alive, lost', p)
  <2>1. p \in Owners /\ p # CoverAlbum BY OwnersApart
  <2>2. \A i \in 1..MaxImages : At(d, i, p) => d.row[i] = db.row[i] /\ At(db, i, p) /\ i \notin ids BY DEF DeletesAt, Loses, At
  <2>3. CASE p \in P BY <2>2, <2>3 DEF DeletesAt, Coherent, At
  <2>4. CASE p \notin P
    <3>1. \A i \in RowsOf(db, p) : i \notin ids BY <1>1, <2>1, <2>4, RowsOfAre DEF DeletesAt
    <3>0. RowsOf(d, p) = RowsOf(db, p) \ ids BY <1>1, <2>1, LosesFacts DEF DeletesAt
    <3>2. RowsOf(d, p) = RowsOf(db, p) BY <3>0, <3>1
    <3>3. ~Twice(db, alive, coverCrossed, p) BY <1>1, <1>4, <3>2, TwiceStays
    <3>4. Coherent(db, alive, lost, p) BY <3>3 DEF FilesInv, Coherence
    <3>5. d.file[p] = db.file[p] /\ (p \in lost => p \in lost') BY <2>4 DEF DeletesAt
    <3> QED BY <2>2, <3>5, <3>4, CoherentStays
  <2> QED BY <2>3, <2>4
<1>5. \A s \in CoverThreads : Sweeps(d, alive, creq, creq[s]) BY NoSweep DEF Sweeping
<1> QED BY <1>1, <1>2, <1>3, <1>4, <1>5 DEF FilesInv, Coherence

LEMMA DeletesSafe ==
  ASSUME RowsInv, FilesInv, SweepAlone, (\E t \in CoverTracks : DeleteTrackCovers(t)) \/ DeleteAlbumCovers \/ DeleteArtistCovers
  PROVE  FilesInv'
<1>1. Tidy(db) /\ ~Sweeping BY TidyDb DEF DeleteTrackCovers, DeleteAlbumCovers, DeleteArtistCovers, MayDelete
<1>2. \A o \in Owners : \A i \in RowsOf(db, o) : i \in 1..MaxImages /\ db.row[i] # NoRow /\ db.row[i].owner = o BY <1>1, RowsOfAre
<1>3. ASSUME NEW P \in SUBSET Paths, NEW ids, NEW p \in Paths
      PROVE  /\ Loses(db, DropRows(db, ids), ids) /\ DropRows(db, ids).file = db.file
             /\ LET e == [DropRows(db, ids) EXCEPT !.file[p] = NoContent] IN
                Loses(db, e, ids) /\ \A x \in Paths : IF x \in {p} THEN e.file[x] = NoContent ELSE e.file[x] = db.file[x]
  <2> DEFINE f == DropRows(db, ids)  e == [f EXCEPT !.file[p] = NoContent]
  <2>1. Loses(db, f, ids) /\ Loses(db, e, ids) BY <1>1, DropsLoses
  <2>2. LosesRows(db, f, ids) /\ Tidy(f) BY <1>1, DropsFacts
  <2> HIDE DEF f
  <2>3. Writes(f, e, p, NoContent) BY <2>2, WriteFacts
  <2> QED BY <2>1, <2>2, <2>3 DEF Writes, LosesRows, f
<1>4. CASE DeleteAlbumCovers
  <2> DEFINE d == DropRows(db, RowsOf(db, CoverAlbum))
  <2>1. Loses(db, d, RowsOf(db, CoverAlbum)) /\ d.file = db.file BY <1>3, OwnersApart
  <2>2. Delete(d) /\ Undeleted /\ lost' = lost \ {} BY <1>4 DEF DeleteAlbumCovers
  <2>3. DeletesAt(d, RowsOf(db, CoverAlbum), {}) BY <1>2, <2>1, OwnersApart DEF DeletesAt
  <2> HIDE DEF d
  <2> QED BY <1>1, <2>2, <2>3, DeleteSafe
<1>5. CASE DeleteArtistCovers
  <2> DEFINE ids == RowsOf(db, CoverArtist)  d == [DropRows(db, ids) EXCEPT !.file[CoverArtist] = NoContent]
  <2>1. CoverArtist \in Paths /\ CoverArtist \in Owners /\ CoverArtist \notin CoverTracks BY CoversAssumption DEF Paths, Owners
  <2>2. Loses(db, d, ids) /\ \A x \in Paths : IF x \in {CoverArtist} THEN d.file[x] = NoContent ELSE d.file[x] = db.file[x]
    BY <1>3, <2>1
  <2>3. Delete(d) /\ Undeleted /\ lost' = lost \ {CoverArtist} BY <1>5 DEF DeleteArtistCovers
  <2>4. \A i \in 1..MaxImages : db.row[i] # NoRow /\ db.row[i].path = CoverArtist => i \in ids
    BY <1>1, <2>1, RowsOfAre DEF Tidy, Shaped
  <2> HIDE DEF d
  <2>5. \A i \in ids : i \in 1..MaxImages /\ db.row[i] # NoRow /\ db.row[i].owner \in {CoverArtist} \cup {CoverAlbum} BY <1>2, <2>1
  <2> HIDE DEF ids
  <2>6. DeletesAt(d, ids, {CoverArtist}) BY <2>1, <2>2, <2>4, <2>5 DEF DeletesAt
  <2> QED BY <1>1, <2>3, <2>6, DeleteSafe
<1>6. ASSUME NEW t \in CoverTracks, DeleteTrackCovers(t) PROVE FilesInv'
  <2>1. t \in Paths /\ t \in Owners /\ CoverAlbum \in Owners BY OwnersApart
  <2>2. CASE Delete(DropRows(db, AlbumRowsAt(db, t))) /\ UNCHANGED lost
    <3> DEFINE ids == AlbumRowsAt(db, t)  d == DropRows(db, ids)
    <3>1. Loses(db, d, ids) /\ d.file = db.file BY <1>3, <2>1
    <3>2. Delete(d) /\ Undeleted /\ lost' = lost \ {} BY <1>6, <2>2 DEF DeleteTrackCovers
    <3>3. \A i \in ids : i \in 1..MaxImages /\ db.row[i] # NoRow /\ db.row[i].owner = CoverAlbum BY <1>2, <2>1 DEF AlbumRowsAt
    <3> HIDE DEF d, ids
    <3>4. DeletesAt(d, ids, {}) BY <3>1, <3>3 DEF DeletesAt
    <3> QED BY <1>1, <3>2, <3>4, DeleteSafe
  <2>3. CASE Delete([DropRows(db, CoverRowsOf(t)) EXCEPT !.file[t] = NoContent]) /\ lost' = lost \ {t}
    <3> DEFINE ids == CoverRowsOf(t)  d == [DropRows(db, ids) EXCEPT !.file[t] = NoContent]
    <3>1. Loses(db, d, ids) /\ \A x \in Paths : IF x \in {t} THEN d.file[x] = NoContent ELSE d.file[x] = db.file[x]
      BY <1>3, <2>1
    <3>2. Delete(d) /\ Undeleted BY <1>6, <2>3 DEF DeleteTrackCovers
    <3>3. \A i \in ids : i \in 1..MaxImages /\ db.row[i] # NoRow /\ db.row[i].owner \in {t} \cup {CoverAlbum}
      BY <1>2, <2>1 DEF AlbumRowsAt, CoverRowsOf
    <3>4. \A i \in 1..MaxImages : db.row[i] # NoRow /\ db.row[i].path \in {t} => i \in ids
      BY <1>1, <2>1, RowsOfAre DEF Tidy, Shaped, CoverRowsOf, AlbumRowsAt
    <3> HIDE DEF d, ids
    <3>5. DeletesAt(d, ids, {t}) BY <2>1, <3>1, <3>3, <3>4 DEF DeletesAt
    <3> QED BY <1>1, <2>3, <3>2, <3>5, DeleteSafe
  <2> QED BY <1>6, <2>2, <2>3 DEF DeleteTrackCovers
<1> QED BY <1>4, <1>5, <1>6

LEMMA UpsetsSafe ==
  ASSUME RowsInv, FilesInv
  PROVE  /\ \A o \in Owners : OwnerGoes(o) => FilesInv'
         /\ \A p \in Paths : LoseFile(p) => FilesInv'
         /\ \A t \in CoverTracks, c \in Embedded \cup {NoContent} : Retag(t, c) => FilesInv'
         /\ UNCHANGED coverVars => FilesInv'
<1>1. Tidy(db) /\ creq \in [CoverThreads -> CoverRequest] /\ lost \subseteq Paths BY TidyDb DEF RowsInv, CoverTypes
<1>2. ASSUME Tidy(db'), db'.row = db.row, db'.last = db.last, alive' \subseteq alive, UNCHANGED <<creq, coverCrossed, torn>>,
             LostGone(db', lost'),
             \A p \in Paths : (db'.file[p] = db.file[p] /\ (p \in lost => p \in lost')) \/ (db'.file[p] = NoContent /\ p \in lost')
      PROVE  FilesInv'
  <2>1. Quieter(alive, creq, alive', creq) BY <1>2 DEF Quieter
  <2>2. Safe(db, db', alive, creq) BY <1>1, <1>2, NoChangeSafe DEF Safe, Ages, HasNewRow
  <2>3. \A s \in CoverThreads : Sweeps(db', alive', creq, creq[s])
    <3> SUFFICES ASSUME NEW s \in CoverThreads PROVE Sweeps(db', alive', creq, creq[s]) OBVIOUS
    <3>1. Sweeps(db, alive, creq, creq[s]) /\ creq[s] \in CoverRequest BY <1>1 DEF FilesInv
    <3> QED BY <1>1, <1>2, <2>1, <2>2, <3>1, SweepsStay
  <2>4. RowedDb(db', alive') BY <1>2 DEF FilesInv, RowedDb, AlbumRow, HasARow
  <2>5. ASSUME NEW p \in Paths \ torn, ~Twice(db', alive', coverCrossed, p) PROVE Coherent(db', alive', lost', p)
    <3>1. RowsOf(db', p) = RowsOf(db, p) BY <1>2 DEF RowsOf
    <3>2. ~Twice(db, alive, coverCrossed, p) BY <1>2, <2>5, <3>1, TwiceStays
    <3>3. Coherent(db, alive, lost, p) BY <3>2 DEF FilesInv, Coherence
    <3>4. CASE db'.file[p] = db.file[p] /\ (p \in lost => p \in lost') BY <1>2, <3>3, <3>4, CoherentStays
    <3>5. CASE db'.file[p] = NoContent /\ p \in lost' BY <1>2, <3>3, <3>5 DEF Coherent, At
    <3> QED BY <1>2, <3>4, <3>5
  <2>6. Coherence(db', alive', coverCrossed', torn', lost') BY <1>2, <2>5 DEF Coherence
  <2>7. \A s \in CoverThreads : Sweeps(db', alive', creq', creq'[s]) BY <1>2, <2>3
  <2> QED BY <1>2, <2>4, <2>6, <2>7 DEF FilesInv
<1>3. ASSUME NEW o \in Owners, OwnerGoes(o) PROVE FilesInv'
  <2>1. Tidy(db') BY <1>3, OwnerGoesKeeps, TidyDb DEF RowsInv, CoverTypes, Tidy
  <2>2. db'.row = db.row /\ db'.last = db.last /\ db'.file = db.file BY <1>1, <1>3 DEF OwnerGoes, Tidy, CoverDb
  <2>3. alive' \subseteq alive /\ UNCHANGED <<creq, coverCrossed, torn, lost>> BY <1>3 DEF OwnerGoes
  <2>4. LostGone(db', lost') BY <2>2, <2>3 DEF FilesInv, LostGone
  <2> QED BY <1>2, <2>1, <2>2, <2>3, <2>4
<1>4. ASSUME NEW p \in Paths, LoseFile(p) PROVE FilesInv'
  <2> DEFINE d == [db EXCEPT !.file[p] = NoContent]
  <2>1. Writes(db, d, p, NoContent) /\ Tidy(d) BY <1>1, WriteFacts
  <2>2. db' = d /\ lost' = lost \cup {p} /\ UNCHANGED <<alive, creq, coverCrossed, torn>> BY <1>4 DEF LoseFile
  <2> HIDE DEF d
  <2>3. LostGone(db', lost') BY <1>1, <2>1, <2>2 DEF FilesInv, LostGone, Writes
  <2> QED BY <1>2, <2>1, <2>2, <2>3 DEF Writes
<1>5. ASSUME UNCHANGED <<db, alive, creq, coverCrossed, torn, lost>> PROVE FilesInv'
  <2>1. LostGone(db', lost') BY <1>5 DEF FilesInv, LostGone
  <2> QED BY <1>1, <1>2, <1>5, <2>1
<1> QED BY <1>3, <1>4, <1>5 DEF Retag, coverVars

LEMMA FilesStep == SweepAlone /\ RowsInv /\ FilesInv /\ [CoversNext]_coverVars => FilesInv'
<1> SUFFICES ASSUME SweepAlone, RowsInv, FilesInv, [CoversNext]_coverVars PROVE FilesInv' OBVIOUS
<1>1. ASSUME NEW r \in CoverThreads, \/ \E t \in CoverTracks, force \in BOOLEAN : AskEnsure(r, t, force)
                                     \/ \E o \in Owners : AskURL(r, o)
                                     \/ \E force \in BOOLEAN : AskBackfill(r, force)
      PROVE FilesInv'
  BY <1>1, AsksSafe
<1>2. ASSUME NEW r \in CoverThreads, EmbeddedCover(r) \/ PlatformCover(r) \/ CheckURL(r) \/ ImportURL(r) PROVE FilesInv'
  BY <1>2, RequestsSafe
<1>3. ASSUME NEW r \in CoverThreads, BackfillAlbumCover(r) PROVE FilesInv' BY <1>3, BackfillSafe
<1>4. ASSUME NEW r \in CoverThreads, StartSweep(r) PROVE FilesInv' BY <1>4, StartSweepSafe
<1>5. ASSUME NEW r \in CoverThreads, AskShared(r) PROVE FilesInv' BY <1>5, AskSharedSafe
<1>6. ASSUME NEW r \in CoverThreads, SweepOrphan(r) PROVE FilesInv' BY <1>6, SweepOrphanSafe
<1>7. CASE (\E t \in CoverTracks : DeleteTrackCovers(t)) \/ DeleteAlbumCovers \/ DeleteArtistCovers BY <1>7, DeletesSafe
<1>8. CASE \/ \E o \in Owners : OwnerGoes(o)
           \/ \E p \in Paths : LoseFile(p)
           \/ \E t \in CoverTracks, c \in Embedded \cup {NoContent} : Retag(t, c)
           \/ UNCHANGED coverVars
  BY <1>8, UpsetsSafe
<1> QED BY <1>1, <1>2, <1>3, <1>4, <1>5, <1>6, <1>7, <1>8 DEF CoversNext

LEMMA FilesInit == CoversInit => FilesInv
<1> SUFFICES ASSUME CoversInit PROVE FilesInv OBVIOUS
<1>0. PICK t \in CoverTracks, c \in {CHOOSE x \in Embedded : TRUE} :
          db = [row |-> [i \in 1..MaxImages |-> CASE i = 1 -> [owner |-> t, path |-> t, content |-> c]
                                                  [] i = 2 -> [owner |-> CoverAlbum, path |-> t, content |-> c]
                                                  [] OTHER -> NoRow],
                ptr |-> [o \in Owners |-> CASE o = t -> 1 [] o = CoverAlbum -> 2 [] OTHER -> NoImage],
                file |-> [p \in Paths |-> IF p = t THEN c ELSE NoContent],
                last |-> 2]
  BY DEF CoversInit
<1>1. MaxImages \in Nat /\ MaxImages >= 2 /\ t \in Paths /\ t # CoverAlbum BY CoversAssumption, OwnersApart
<1>2. /\ db.row[1] = [owner |-> t, path |-> t, content |-> c]
      /\ db.row[2] = [owner |-> CoverAlbum, path |-> t, content |-> c]
      /\ \A i \in 1..MaxImages : i # 1 /\ i # 2 => db.row[i] = NoRow
      /\ db.file[t] = c
  BY <1>0, <1>1
<1>3. db.row[1] # NoRow /\ db.row[1].owner = t BY <1>1, <1>2, RowsInit, TidyDb, CoversAssumption, CoverRowFields, OwnersApart DEF Contents
<1>4. RowedDb(db, alive) BY <1>1, <1>2, <1>3 DEF RowedDb, AlbumRow, HasARow
<1>5. LostGone(db, lost) BY DEF CoversInit, LostGone
<1>6. \A r \in CoverThreads : Sweeps(db, alive, creq, creq[r]) BY AtRestKnows, NoSweep DEF CoversInit
<1>7. Coherence(db, alive, coverCrossed, torn, lost)
  <2> SUFFICES ASSUME NEW p \in Paths PROVE Coherent(db, alive, lost, p) BY DEF Coherence
  <2>1. \A i \in 1..MaxImages : At(db, i, p) => p = t /\ db.row[i].content = c BY <1>2 DEF At
  <2> QED BY <1>2, <2>1 DEF Coherent
<1> QED BY <1>4, <1>5, <1>6, <1>7 DEF FilesInv

LEMMA FilesImply == RowsInv /\ FilesInv => CoverIsThere
<1> SUFFICES ASSUME RowsInv, FilesInv, NEW o \in alive, db.ptr[o] # NoImage,
                    db.row[db.ptr[o]].path \notin lost \cup torn \cup Doubled
             PROVE  db.file[db.row[db.ptr[o]].path] = db.row[db.ptr[o]].content
  BY DEF CoverIsThere
<1> DEFINE i == db.ptr[o]  p == db.row[i].path
<1>1. Tidy(db) /\ o \in Owners BY TidyDb DEF RowsInv, CoverTypes
<1>2. i \in 1..MaxImages /\ db.row[i] # NoRow /\ db.row[i].owner = o /\ p \in Paths
  BY <1>1, CoverDbFields DEF Tidy, PointersOwn, NoImage
<1>3. ~Twice(db, alive, coverCrossed, p) BY <1>2 DEF Twice, Doubled
<1>4. Coherent(db, alive, lost, p) BY <1>2, <1>3 DEF FilesInv, Coherence
<1> QED BY <1>2, <1>4 DEF Coherent, At

(* The rows are right, and the files are what the rows say, if no covers *)
(* are deleted during a sweep or imported for who was gone before it.        *)
THEOREM CoversAreSound == ASSUME SweepAlone PROVE CoversSpec => []CoversSound
<1>1. CoversInit => RowsInv /\ FilesInv BY RowsInit, FilesInit
<1>2. RowsInv /\ FilesInv /\ [CoversNext]_coverVars => RowsInv' /\ FilesInv' BY RowsStep, FilesStep
<1>3. RowsInv /\ FilesInv => CoversSound BY RowsImply, FilesImply DEF CoversSound
<1> QED BY <1>1, <1>2, <1>3, PTL DEF CoversSpec
================================================================================
