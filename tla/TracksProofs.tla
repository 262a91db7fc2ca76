----------------------------- MODULE TracksProofs -------------------------------
(***************************************************************************)
(* Proofs about the tracks and what their listeners keep of them: UserData *)
(* for any tracks, playlists, overlapping requests and clients that leave; *)
(* Tracks for any files and ids, and any order of scans, merges, edits and *)
(* plays.                                                                  *)
(***************************************************************************)
EXTENDS UserData, Tracks, FiniteSetTheorems, SequenceTheorems, WellFoundedInduction, TLAPS

-----------------------------------------------------------------------------
(* The entries at chosen positions. *)
Place(K, p) == Cardinality({q \in K : q <= p})

\* The chosen positions are counted off from the least: every number up to
\* their count is the place of exactly one.
LEMMA PlacesCount ==
  ASSUME NEW n \in Nat, NEW K \in SUBSET (1..n)
  PROVE  /\ IsFiniteSet(K) /\ Cardinality(K) \in Nat /\ Cardinality(K) <= n
         /\ \A p \in K : Place(K, p) \in 1..Cardinality(K)
         /\ \A i \in 1..Cardinality(K) : \E p \in K : Place(K, p) = i
         /\ \A p, q \in K : p < q => Place(K, p) < Place(K, q)
<1> DEFINE m == Cardinality(K)
           up(p) == {q \in K : q <= p}
           f == [p \in K |-> Place(K, p)]
<1>1. IsFiniteSet(1..n) /\ Cardinality(1..n) = n BY FS_Interval
<1>2. IsFiniteSet(K) /\ m \in Nat /\ m <= n BY <1>1, FS_Subset, FS_CardinalityType
<1>3. \A p \in K : IsFiniteSet(up(p)) /\ Cardinality(up(p)) \in Nat /\ Cardinality(up(p)) <= m
  BY <1>2, FS_Subset, FS_CardinalityType
<1>4. \A p \in K : Place(K, p) \in 1..m
  <2> TAKE p \in K
  <2>1. p \in up(p) OBVIOUS
  <2>2. Cardinality(up(p)) # 0 BY <1>3, <2>1, FS_EmptySet
  <2> QED BY <1>2, <1>3, <2>2 DEF Place
<1>5. \A p, q \in K : p < q => Place(K, p) < Place(K, q)
  <2> SUFFICES ASSUME NEW p \in K, NEW q \in K, p < q PROVE Place(K, p) < Place(K, q) OBVIOUS
  <2>0. p \in Int /\ q \in Int /\ \A x \in K : x \in Int OBVIOUS
  <2>1. up(p) \in SUBSET up(q) /\ q \in up(q) /\ q \notin up(p)
    <3>1. \A x \in K : x <= p => x <= q BY <2>0
    <3>2. ~(q <= p) /\ q <= q BY <2>0
    <3> QED BY <3>1, <3>2
  <2>2. Cardinality(up(p)) <= Cardinality(up(q)) /\ (Cardinality(up(q)) = Cardinality(up(p)) => up(q) = up(p))
    BY <1>3, <2>1, FS_Subset
  <2> HIDE DEF up
  <2>3. Cardinality(up(p)) < Cardinality(up(q)) BY <1>3, <2>1, <2>2
  <2> QED BY <2>3 DEF Place, up
<1>6. f \in Injection(K, 1..m)
  <2>1. \A p, q \in K : Place(K, p) = Place(K, q) => p = q
    <3> SUFFICES ASSUME NEW p \in K, NEW q \in K, Place(K, p) = Place(K, q) PROVE p = q OBVIOUS
    <3>1. Place(K, p) \in Int /\ ~(Place(K, p) < Place(K, q)) /\ ~(Place(K, q) < Place(K, p)) BY <1>4, <1>2
    <3>2. ~(p < q) /\ ~(q < p) BY <1>5, <3>1
    <3> QED BY <3>2
  <2>2. f \in [K -> 1..m] BY <1>4
  <2> QED BY <2>1, <2>2, <1>4 DEF Injection, IsInjective
<1>7. IsFiniteSet(1..m) /\ Cardinality(1..m) = m BY <1>2, FS_Interval
<1>8. f \in Surjection(K, 1..m) BY <1>6, <1>7, FS_Injection
<1>9. \A i \in 1..m : \E p \in K : Place(K, p) = i BY <1>8 DEF Surjection
<1> QED BY <1>2, <1>4, <1>5, <1>9

\* What is picked from a sequence: its entries at the positions, each once.
LEMMA PickedFacts ==
  ASSUME NEW U, NEW s \in Seq(U), NEW K \in SUBSET DOMAIN s
  PROVE  /\ Picked(s, K) \in Seq(U) /\ Len(Picked(s, K)) = Cardinality(K) /\ Cardinality(K) <= Len(s)
         /\ DOMAIN Picked(s, K) = 1..Cardinality(K) /\ Cardinality(K) \in Nat
         /\ ToSet(Picked(s, K)) = {s[p] : p \in K}
         /\ (\A p, q \in K : s[p] = s[q] => p = q) => IsInjective(Picked(s, K))
<1> DEFINE m == Cardinality(K)
           nth(i) == CHOOSE p \in K : Place(K, p) = i
<1>1. DOMAIN s = 1..Len(s) /\ Len(s) \in Nat OBVIOUS
<1>2. /\ m \in Nat /\ m <= Len(s) /\ \A i \in 1..m : \E p \in K : Place(K, p) = i
      /\ \A p \in K : Place(K, p) \in 1..m
      /\ \A p, q \in K : p < q => Place(K, p) < Place(K, q) BY <1>1, PlacesCount
<1>3. \A i \in 1..m : nth(i) \in K /\ Place(K, nth(i)) = i BY <1>2
<1>4. \A p \in K : nth(Place(K, p)) = p
  <2> TAKE p \in K
  <2> DEFINE q == nth(Place(K, p))
  <2>1. q \in K /\ Place(K, q) = Place(K, p) /\ Place(K, p) \in Int BY <1>2, <1>3
  <2>2. ~(p < q) /\ ~(q < p) BY <1>2, <2>1
  <2>3. p \in Int /\ q \in Int BY <2>1, <1>1
  <2> QED BY <2>2, <2>3
<1>5. Picked(s, K) = [i \in 1..m |-> s[nth(i)]] BY DEF Picked, Place
<1>6. \A p \in K : s[p] \in U BY <1>1
<1> HIDE DEF nth, m
<1>7. Picked(s, K) \in [1..m -> U] BY <1>3, <1>5, <1>6
<1>8. Picked(s, K) \in Seq(U) /\ Len(Picked(s, K)) = m /\ DOMAIN Picked(s, K) = 1..m BY <1>2, <1>7
<1>9. ToSet(Picked(s, K)) = {s[p] : p \in K}
  <2>1. \A i \in 1..m : \E p \in K : Picked(s, K)[i] = s[p] BY <1>3, <1>5
  <2>2. \A p \in K : \E i \in 1..m : Picked(s, K)[i] = s[p]
    <3> TAKE p \in K
    <3>1. Place(K, p) \in 1..m BY <1>2
    <3>2. Picked(s, K)[Place(K, p)] = s[p] BY <1>4, <1>5, <3>1
    <3> QED BY <3>1, <3>2
  <2> DEFINE v == Picked(s, K)
  <2>3. DOMAIN v = 1..m BY <1>8
  <2>4. (\A i \in 1..m : \E p \in K : v[i] = s[p]) /\ \A p \in K : \E i \in 1..m : v[i] = s[p] BY <2>1, <2>2
  <2> HIDE DEF v
  <2>5. {v[i] : i \in 1..m} = {s[p] : p \in K}
    <3>1. \A x \in {v[i] : i \in 1..m} : x \in {s[p] : p \in K} BY <2>4
    <3>2. \A x \in {s[p] : p \in K} : x \in {v[i] : i \in 1..m} BY <2>4
    <3> QED BY <3>1, <3>2
  <2> QED BY <2>3, <2>5 DEF ToSet, v
<1>10. (\A p, q \in K : s[p] = s[q] => p = q) => IsInjective(Picked(s, K))
  <2> SUFFICES ASSUME \A p, q \in K : s[p] = s[q] => p = q PROVE IsInjective(Picked(s, K)) OBVIOUS
  <2>1. \A i, j \in 1..m : s[nth(i)] = s[nth(j)] => i = j
    <3> SUFFICES ASSUME NEW i \in 1..m, NEW j \in 1..m, s[nth(i)] = s[nth(j)] PROVE i = j OBVIOUS
    <3>1. nth(i) = nth(j) BY <1>3
    <3> QED BY <1>3, <3>1
  <2> QED BY <1>5, <1>8, <2>1 DEF IsInjective
<1>11. m = Cardinality(K) BY DEF m
<1> QED BY <1>2, <1>8, <1>9, <1>10, <1>11, Zenon

\* What is left of a sequence without some entries.
LEMMA WithoutFacts ==
  ASSUME NEW U, NEW s \in Seq(U), NEW T
  PROVE  /\ Without(s, T) \in Seq(U) /\ ToSet(Without(s, T)) = ToSet(s) \ T
         /\ IsInjective(s) => IsInjective(Without(s, T))
<1> DEFINE K == {i \in DOMAIN s : s[i] \notin T}
<1>1. K \in SUBSET DOMAIN s OBVIOUS
<1>2. IsInjective(s) => \A p, q \in K : s[p] = s[q] => p = q BY DEF IsInjective
<1>3. {s[p] : p \in K} = ToSet(s) \ T BY DEF ToSet
<1> HIDE DEF K
<1>4. /\ Picked(s, K) \in Seq(U) /\ ToSet(Picked(s, K)) = {s[p] : p \in K}
      /\ (\A p, q \in K : s[p] = s[q] => p = q) => IsInjective(Picked(s, K)) BY <1>1, PickedFacts
<1>5. Without(s, T) = Picked(s, K) BY DEF Without, K
<1> QED BY <1>2, <1>3, <1>4, <1>5

\* The first occurrences are all the entries, each once.
LEMMA FirstOnesFacts ==
  ASSUME NEW U, NEW s \in Seq(U)
  PROVE  /\ Picked(s, FirstOnes(s)) \in Seq(U) /\ ToSet(Picked(s, FirstOnes(s))) = ToSet(s)
         /\ IsInjective(Picked(s, FirstOnes(s)))
<1> DEFINE K == FirstOnes(s)
<1>1. DOMAIN s = 1..Len(s) /\ Len(s) \in Nat OBVIOUS
<1>2. K \in SUBSET DOMAIN s BY DEF FirstOnes
<1>3. \A p, q \in K : s[p] = s[q] => p = q
  <2> SUFFICES ASSUME NEW p \in K, NEW q \in K, p < q PROVE s[p] # s[q] BY <1>1, <1>2
  <2>1. p \in 1..(q - 1) /\ q \in K BY <1>1, <1>2
  <2> QED BY <2>1 DEF FirstOnes
<1>4. \A i \in DOMAIN s : \E p \in K : s[p] = s[i]
  <2> TAKE i \in DOMAIN s
  <2> DEFINE T == {j \in 1..Len(s) : s[j] = s[i]}
  <2>1. T \in SUBSET Nat /\ T # {} BY <1>1
  <2>2. PICK p \in T : \A q \in T : ~(<<q, p>> \in OpToRel(<, Nat))
    BY <2>1, NatLessThanWellFounded, WFMin
  <2>3. \A q \in T : ~(q < p) BY <2>1, <2>2 DEF OpToRel
  <2>4. \A j \in 1..(p - 1) : s[j] # s[p]
    <3> SUFFICES ASSUME NEW j \in 1..(p - 1), s[j] = s[p] PROVE FALSE OBVIOUS
    <3>1. j \in T /\ j < p BY <1>1
    <3> QED BY <2>3, <3>1
  <2>5. p \in K BY <1>1, <2>4 DEF FirstOnes
  <2> QED BY <2>5
<1>5. {s[p] : p \in K} = ToSet(s) BY <1>2, <1>4 DEF ToSet
<1> HIDE DEF K
<1>6. /\ Picked(s, K) \in Seq(U) /\ ToSet(Picked(s, K)) = {s[p] : p \in K}
      /\ (\A p, q \in K : s[p] = s[q] => p = q) => IsInjective(Picked(s, K)) BY <1>2, PickedFacts
<1> QED BY <1>3, <1>5, <1>6 DEF K

LEMMA AppendNewFacts ==
  ASSUME NEW U, NEW s \in Seq(U), NEW new \in Seq(U)
  PROVE  /\ AppendNew(s, new) \in Seq(U) /\ ToSet(AppendNew(s, new)) = ToSet(s) \cup ToSet(new)
         /\ IsInjective(s) => IsInjective(AppendNew(s, new))
<1> DEFINE f == Picked(new, FirstOnes(new))
           w == Without(f, ToSet(s))
<1>1. f \in Seq(U) /\ ToSet(f) = ToSet(new) /\ IsInjective(f) BY FirstOnesFacts
<1>2. w \in Seq(U) /\ ToSet(w) = ToSet(new) \ ToSet(s) /\ IsInjective(w)
  <2> HIDE DEF f
  <2> QED BY <1>1, WithoutFacts
<1>3. AppendNew(s, new) = s \o w BY DEF AppendNew
<1> HIDE DEF w, f
<1>4. s \o w \in Seq(U) /\ Len(s \o w) = Len(s) + Len(w) BY <1>2
<1>5. \A i \in 1..Len(s) : (s \o w)[i] = s[i] BY <1>2
<1>6. \A i \in 1..Len(w) : (s \o w)[Len(s) + i] = w[i] BY <1>2
<1>7. \A i \in (1..Len(s \o w)) \ (1..Len(s)) : i - Len(s) \in 1..Len(w) /\ (s \o w)[i] = w[i - Len(s)]
  BY <1>2, <1>4
<1>8. ToSet(s \o w) = ToSet(s) \cup ToSet(w)
  <2>1. \A i \in DOMAIN (s \o w) : (s \o w)[i] \in ToSet(s) \cup ToSet(w)
    <3> TAKE i \in DOMAIN (s \o w)
    <3>1. i \in 1..Len(s \o w) BY <1>4
    <3>2. CASE i \in 1..Len(s) BY <1>5, <3>2 DEF ToSet
    <3>3. CASE i \notin 1..Len(s)
      <4>1. i - Len(s) \in DOMAIN w /\ (s \o w)[i] = w[i - Len(s)] BY <1>2, <1>7, <3>1, <3>3
      <4> QED BY <4>1 DEF ToSet
    <3> QED BY <3>2, <3>3
  <2>2. \A x \in ToSet(s) : x \in ToSet(s \o w)
    <3>1. \A i \in DOMAIN s : i \in DOMAIN (s \o w) /\ (s \o w)[i] = s[i] BY <1>2, <1>4, <1>5
    <3> QED BY <3>1 DEF ToSet
  <2>3. \A x \in ToSet(w) : x \in ToSet(s \o w)
    <3>1. \A i \in DOMAIN w : Len(s) + i \in DOMAIN (s \o w) /\ (s \o w)[Len(s) + i] = w[i] BY <1>2, <1>4, <1>6
    <3> QED BY <3>1 DEF ToSet
  <2> QED BY <2>1, <2>2, <2>3 DEF ToSet
<1>9. ASSUME IsInjective(s) PROVE IsInjective(s \o w)
  <2> DEFINE n == Len(s \o w)
  <2> SUFFICES ASSUME NEW i \in 1..n, NEW j \in 1..n, (s \o w)[i] = (s \o w)[j] PROVE i = j
    BY <1>4 DEF IsInjective
  <2>1. CASE i \in 1..Len(s) /\ j \in 1..Len(s) BY <1>5, <1>9, <2>1 DEF IsInjective
  <2>2. CASE i \notin 1..Len(s) /\ j \notin 1..Len(s)
    <3>1. w[i - Len(s)] = w[j - Len(s)] /\ i - Len(s) \in DOMAIN w /\ j - Len(s) \in DOMAIN w BY <1>2, <1>7, <2>2
    <3>2. i - Len(s) = j - Len(s) BY <1>2, <3>1 DEF IsInjective
    <3> QED BY <3>2, <1>4
  <2>3. ASSUME NEW a \in 1..Len(s), NEW b \in (1..n) \ (1..Len(s)) PROVE (s \o w)[a] # (s \o w)[b]
    <3>1. s[a] \in ToSet(s) BY DEF ToSet
    <3>2. w[b - Len(s)] \in ToSet(w) BY <1>2, <1>7 DEF ToSet
    <3> QED BY <1>2, <1>5, <1>7, <3>1, <3>2
  <2> QED BY <2>1, <2>2, <2>3
<1> QED BY <1>2, <1>3, <1>4, <1>8, <1>9

\* A sequence without repetition is no longer than its elements are many.
LEMMA ShortWithoutRepetition ==
  ASSUME NEW s \in Seq(UserTracks), IsInjective(s)
  PROVE  s \in UserSeqs
<1>1. IsFiniteSet(UserTracks) /\ Cardinality(UserTracks) \in Nat BY UserConstants, FS_CardinalityType
<1>2. s \in Injection(1..Len(s), UserTracks) BY DEF Injection, IsInjective
<1>3. Cardinality(1..Len(s)) <= Cardinality(UserTracks) BY <1>1, <1>2, FS_Injection
<1>4. Cardinality(1..Len(s)) = Len(s)
  <2>1. 1 \in Int /\ Len(s) \in Int /\ Len(s) \in Nat OBVIOUS
  <2>2. Cardinality(1..Len(s)) = IF 1 > Len(s) THEN 0 ELSE Len(s) - 1 + 1 BY <2>1, FS_Interval
  <2> QED BY <2>1, <2>2
<1>5. Len(s) \in 0..Cardinality(UserTracks) /\ s \in [1..Len(s) -> UserTracks] BY <1>1, <1>3, <1>4
<1> QED BY <1>5 DEF UserSeqs

LEMMA UserSeqsAreSeqs == \A s \in UserSeqs : s \in Seq(UserTracks) /\ Len(s) \in Nat /\ s # NoList
<1>1. Cardinality(UserTracks) \in Nat BY UserConstants, FS_CardinalityType
<1>2. \A s \in UserSeqs : \E n \in Nat : s \in [1..n -> UserTracks]
  <2> SUFFICES ASSUME NEW s \in UserSeqs PROVE \E n \in Nat : s \in [1..n -> UserTracks] OBVIOUS
  <2>1. PICK S \in {[1..n -> UserTracks] : n \in 0..Cardinality(UserTracks)} : s \in S BY Zenon DEF UserSeqs
  <2>2. PICK n \in 0..Cardinality(UserTracks) : S = [1..n -> UserTracks] BY <2>1, Zenon
  <2>3. n \in Nat BY <1>1
  <2> QED BY <2>1, <2>2, <2>3
<1>3. \A n \in Nat : \A s \in [1..n -> UserTracks] : s \in Seq(UserTracks) /\ Len(s) \in Nat OBVIOUS
<1> QED BY <1>2, <1>3, UserConstants

------------------------------------------------------------------------------
(* What holds of requests and tables in between.                            *)

Requests == [pc : UserPcs, kind : FavKinds \cup ListKinds \cup {"none", "played"}, ids : Seq(UserTracks),
             on : Lists \cup {NoList}, read : Seq(UserTracks), add : SUBSET UserTracks, sub : SUBSET UserTracks]

\* A request is at a statement of its own kind.
FitsKind(q) ==
    /\ q.pc = "insert" => q.kind \in {"favorite", "star"}
    /\ q.pc \in {"delete", "reverse"} => q.kind \in {"unfavorite", "unstar"}
    /\ q.pc = "award" => q.kind \in {"favorite", "star"} \cup ListKinds
    /\ q.pc \in {"read", "write"} => q.kind \in ListKinds
    /\ q.pc = "read" => q.kind # "create"
    /\ q.pc \in {"erase", "row"} => q.kind = "played" /\ q.ids # <<>> /\ ToSet(q.ids) \subseteq ToSet(q.read)
    /\ q.pc # "idle" /\ q.kind \in FavKinds => q.ids # <<>> /\ ToSet(q.ids) \subseteq ToSet(q.read)
    /\ q.pc # "idle" /\ q.kind \in ListKinds => q.on \in Lists
    /\ q.pc = "write" /\ q.kind # "create" => IsInjective(q.read) /\ q.read # NoList

TablesInv ==
    /\ shelf \subseteq UserTracks /\ favorites \subseteq UserTracks
    /\ \A p \in Lists : playlist[p] # NoList => playlist[p] \in UserSeqs /\ IsInjective(playlist[p])
    /\ playlist \in [Lists -> UserSeqs \cup {NoList}]
    /\ log \subseteq ({"fav"} \cup Lists) \X UserTracks
    /\ heat \in [UserTracks -> Int] /\ history \in [UserTracks -> Nat]
    /\ player.ids \in UserSeqs /\ player.idx \in Nat
    /\ asked \in 0..MaxUserRequests /\ starred \subseteq UserTracks /\ clash \subseteq UserTracks \cup Lists
RequestsInv == ureq \in [UserThreads -> Requests] /\ \A r \in UserThreads : FitsKind(ureq[r])

\* Requests at work on the same thing are in `clash`.
Works(r, x) == ureq[r].pc # "idle" /\ x \in Touched(ureq[r])
ApartInv == \A r, q \in UserThreads, x \in UserTracks \cup Lists : r # q /\ Works(r, x) /\ Works(q, x) => x \in clash

\* Between the row and the event of a favorite one request awaits the other.
Gives(r, t) == ureq[r].pc = "award" /\ ureq[r].kind \in FavKinds /\ Head(ureq[r].ids) = t
Takes(r, t) == ureq[r].pc = "reverse" /\ Head(ureq[r].ids) = t
FavoriteInv ==
    \A t \in shelf \ clash :
        /\ \A r \in UserThreads : (Gives(r, t) => t \in favorites) /\ (Takes(r, t) => t \notin favorites)
        /\ (\A r \in UserThreads : ~Gives(r, t) /\ ~Takes(r, t)) => (t \in favorites <=> <<"fav", t>> \in log)

\* The same for a playlist: what is still to award is in it, what is still to
\* reverse is not.
Rewards(r, p) == ureq[r].pc = "award" /\ ureq[r].kind \in ListKinds /\ ureq[r].on = p
Holds(p, t) == playlist[p] # NoList /\ t \in ToSet(playlist[p])
ListsInv ==
    \A p \in Lists \ clash :
        /\ \A r \in UserThreads :
            /\ ureq[r].pc = "write" /\ ureq[r].kind # "create" /\ ureq[r].on = p => playlist[p] = ureq[r].read
            /\ Rewards(r, p) => \A t \in shelf :
                /\ t \in ureq[r].add => Holds(p, t)
                /\ t \in ureq[r].sub => ~Holds(p, t)
                /\ t \notin ureq[r].add \cup ureq[r].sub => (Holds(p, t) <=> <<p, t>> \in log)
        /\ (\A r \in UserThreads : ~Rewards(r, p)) => \A t \in shelf : Holds(p, t) <=> <<p, t>> \in log

\* The versions of a recording: a request on one works on all, in turn.
TheVersions == Group \cap shelf
OnVersions(r) == ureq[r].pc # "idle" /\ ureq[r].kind \in FavKinds /\ ToSet(ureq[r].read) \cap TheVersions # {}
GroupCalm == Main \in shelf /\ (starred \cup clash) \cap Group = {}
SpreadInv ==
    \A r \in UserThreads :
        /\ ureq[r].pc # "idle" /\ ureq[r].kind \in {"star", "unstar"} => ToSet(ureq[r].read) \subseteq starred
        /\ OnVersions(r) /\ ureq[r].kind \in {"favorite", "unfavorite"} => TheVersions \subseteq ToSet(ureq[r].read)
VersionsInv ==
    GroupCalm =>
        /\ \A r \in UserThreads : OnVersions(r) => \A t \in TheVersions \ ToSet(ureq[r].ids) :
            t \in favorites <=> ureq[r].kind = "favorite"
        /\ (\A r \in UserThreads : ~OnVersions(r)) => \A t \in TheVersions : t \in favorites <=> Main \in favorites

HistoryInv ==
    \A t \in UserTracks \ clash :
        /\ history[t] <= 1
        /\ \A r \in UserThreads : ureq[r].pc = "row" /\ Head(ureq[r].ids) = t => history[t] = 0

UserInv ==
    /\ TablesInv /\ RequestsInv /\ ApartInv /\ HeatIsItsEvents
    /\ FavoriteInv /\ ListsInv /\ SpreadInv /\ VersionsInv /\ HistoryInv

------------------------------------------------------------------------------
(* The invariant says what the properties say.                              *)

Paged(s, per, n) ==
    LET shown == Page(s, n, per) IN
    /\ Len(shown) <= per
    /\ \A j \in 1..per :
        IF (n - 1) * per + j \in DOMAIN s THEN j \in DOMAIN shown /\ shown[j] = s[(n - 1) * per + j]
        ELSE j \notin DOMAIN shown

LEMMA PagesFollow ==
  ASSUME NEW s \in Seq(UserTracks), NEW per \in 1..3, NEW n \in Nat \ {0}
  PROVE  Paged(s, per, n)
<1> DEFINE b == (n - 1) * per
           L == Len(s)
           start == IF b > L THEN L ELSE b
           end == IF start + per > L THEN L ELSE start + per
<1>1. b \in Nat
  <2>1. CASE per = 1 BY <2>1
  <2>2. CASE per = 2 BY <2>2
  <2>3. CASE per = 3 BY <2>3
  <2> QED BY <2>1, <2>2, <2>3
<1>2. L \in Nat /\ DOMAIN s = 1..L OBVIOUS
<1>3. Page(s, n, per) = SubSeq(s, start + 1, end) BY DEF Page
<1> HIDE DEF b, L
<1>4. start \in Nat /\ end \in Nat /\ start <= end /\ end <= L /\ end - start <= per BY <1>1, <1>2
<1>5. \A i \in start + 1..end : s[i] \in UserTracks BY <1>2, <1>4
<1>6. /\ SubSeq(s, start + 1, end) \in Seq(UserTracks) /\ Len(SubSeq(s, start + 1, end)) = end - start
      /\ \A j \in 1..(end - start) : SubSeq(s, start + 1, end)[j] = s[start + j]
  <2> HIDE DEF start, end
  <2>1. start + 1 \in Int /\ end \in Int BY <1>4
  <2>2. /\ SubSeq(s, start + 1, end) \in Seq(UserTracks)
        /\ Len(SubSeq(s, start + 1, end)) = IF start + 1 <= end THEN end - (start + 1) + 1 ELSE 0
        /\ \A i \in 1..end - (start + 1) + 1 : SubSeq(s, start + 1, end)[i] = s[start + 1 + i - 1]
    BY <1>5, <2>1, SubSeqProperties
  <2>3. end - (start + 1) + 1 = end - start /\ (~(start + 1 <= end) => end - start = 0) BY <1>4
  <2>4. \A j \in 1..(end - start) : start + 1 + j - 1 = start + j BY <1>4
  <2> QED BY <2>2, <2>3, <2>4
<1>7. \A j \in 1..per : (b + j \in 1..L) <=> (j \in 1..(end - start)) BY <1>1, <1>2
<1>8. \A j \in 1..per : j \in 1..(end - start) => start = b BY <1>1, <1>2
<1>9. \A j \in 1..per : IF b + j \in 1..L THEN j \in 1..(end - start) /\ s[start + j] = s[b + j]
                        ELSE j \notin 1..(end - start)
  <2> HIDE DEF start, end
  <2> TAKE j \in 1..per
  <2>1. j \in 1..(end - start) => s[start + j] = s[b + j] BY <1>8
  <2> QED BY <1>7, <2>1
<1> HIDE DEF start, end
<1>10. /\ Len(Page(s, n, per)) = end - start /\ DOMAIN Page(s, n, per) = 1..(end - start)
       /\ \A j \in 1..(end - start) : Page(s, n, per)[j] = s[start + j] BY <1>3, <1>4, <1>6
<1> QED BY <1>2, <1>4, <1>9, <1>10 DEF b, Paged

\* What a request holds.
LEMMA UserRequestTypes ==
  ASSUME RequestsInv, NEW r \in UserThreads
  PROVE  /\ ureq[r] \in Requests /\ FitsKind(ureq[r])
         /\ ureq[r].pc \in UserPcs /\ ureq[r].kind \in FavKinds \cup ListKinds \cup {"none", "played"}
         /\ ureq[r].ids \in Seq(UserTracks) /\ ureq[r].on \in Lists \cup {NoList} /\ ureq[r].read \in Seq(UserTracks)
         /\ ureq[r].add \subseteq UserTracks /\ ureq[r].sub \subseteq UserTracks
BY DEF RequestsInv, Requests

LEMMA InvMeansSound == UserInv => UserSound
<1> SUFFICES ASSUME UserInv PROVE UserSound OBVIOUS
<1> USE DEF UserInv
<1>1. UserTypeOK
  <2>1. \A r \in UserThreads : /\ ureq[r].pc \in UserPcs /\ ureq[r].ids \in Seq(UserTracks)
                               /\ ureq[r].add \cup ureq[r].sub \subseteq UserTracks BY UserRequestTypes
  <2>2. \A p \in Lists : playlist[p] \in UserSeqs \cup {NoList} BY DEF TablesInv
  <2> QED BY <2>1, <2>2 DEF TablesInv, UserTypeOK
<1>2. HeatIsItsEvents OBVIOUS
<1>3. FavoritesEarnHeat BY DEF FavoritesEarnHeat, FavoriteInv, UserQuiet, Gives, Takes
<1>4. PlaylistsEarnHeat BY DEF PlaylistsEarnHeat, ListsInv, UserQuiet, Rewards, Holds
<1>5. PlaylistsHaveNoDuplicates BY DEF PlaylistsHaveNoDuplicates, TablesInv
<1>6. FavoritesAreListed
  <2> SUFFICES ASSUME UserQuiet, (starred \cup clash) \cap Group = {}, Main \in shelf
               PROVE  (Group \cap shelf \cap favorites # {}) <=> Main \in FavoritesView BY DEF FavoritesAreListed
  <2>1. \A t \in TheVersions : t \in favorites <=> Main \in favorites
    BY DEF VersionsInv, GroupCalm, OnVersions, UserQuiet
  <2>2. Main \in Group BY UserConstants
  <2> QED BY <2>1, <2>2 DEF TheVersions, FavoritesView
<1>7. HistoryOnce BY DEF HistoryOnce, HistoryInv
<1>8. QueueIdxInRange
  <2> DEFINE w == Without(player.ids, UserTracks \ shelf)
             ts == AppendNew(<<>>, w)
  <2>1. player.ids \in Seq(UserTracks) /\ player.idx \in Nat BY UserSeqsAreSeqs DEF TablesInv
  <2>2. w \in Seq(UserTracks) BY <2>1, WithoutFacts
  <2> HIDE DEF w
  <2>3. ts \in Seq(UserTracks)
    <3>1. <<>> \in Seq(UserTracks) OBVIOUS
    <3> QED BY <2>2, <3>1, AppendNewFacts
  <2>4. QueueView.tracks = ts /\ QueueView.idx = IF player.idx >= Len(ts) THEN 0 ELSE player.idx BY DEF QueueView, w
  <2> HIDE DEF ts
  <2>5. ts # <<>> => Len(ts) > 0 BY <2>3
  <2>6. Len(ts) \in Nat BY <2>3
  <2>7. ts # <<>> => (IF player.idx >= Len(ts) THEN 0 ELSE player.idx) < Len(ts) BY <2>1, <2>5, <2>6
  <2> QED BY <2>4, <2>7 DEF QueueIdxInRange
<1>9. PagesAreThePlaylist
  <2>1. Cardinality(UserTracks) \in Nat BY UserConstants, FS_CardinalityType
  <2>2. \A n \in 1..Cardinality(UserTracks) + 1 : n \in Nat \ {0} BY <2>1
  <2>3. \A p \in Lists : playlist[p] # NoList => playlist[p] \in Seq(UserTracks) BY UserSeqsAreSeqs DEF TablesInv
  <2>4. \A s \in Seq(UserTracks), per \in 1..3, n \in Nat \ {0} : Paged(s, per, n) BY PagesFollow DEF Paged
  <2> QED BY <2>2, <2>3, <2>4 DEF PagesAreThePlaylist, Paged
<1> QED BY <1>1, <1>2, <1>3, <1>4, <1>5, <1>6, <1>7, <1>8, <1>9 DEF UserSound

------------------------------------------------------------------------------
(* What a step leaves as it was.                                            *)

\* The other requests do not move.
MovesOnly(r) == \A o \in UserThreads \ {r} : ureq'[o] = ureq[o]

LEMMA RequestMoves ==
  ASSUME RequestsInv, NEW r \in UserThreads, NEW q \in Requests, FitsKind(q), Becomes(r, q)
  PROVE  RequestsInv' /\ MovesOnly(r) /\ ureq'[r] = q
BY DEF RequestsInv, MovesOnly, Becomes

LEMMA RestingFits == Resting \in Requests /\ FitsKind(Resting)
BY DEF Resting, Requests, FitsKind, UserPcs, FavKinds, ListKinds

LEMMA KindsDiffer == FavKinds \cap ListKinds = {} /\ {"none", "played"} \cap (FavKinds \cup ListKinds) = {}
                     /\ Drops \subseteq ListKinds
BY DEF FavKinds, ListKinds, Drops

\* A request that works on no more than it did.
LEMMA ApartKept ==
  ASSUME ApartInv, NEW r \in UserThreads, MovesOnly(r), clash \subseteq clash',
         \A x \in UserTracks \cup Lists : x \in clash' \/ (Works(r, x)' => Works(r, x))
  PROVE  ApartInv'
<1>1. \A o \in UserThreads \ {r}, x \in UserTracks \cup Lists : Works(o, x)' => Works(o, x)
  BY DEF Works, MovesOnly, Touched
<1> QED BY <1>1, Zenon DEF ApartInv

LEMMA FavoriteKept ==
  ASSUME FavoriteInv, shelf' \subseteq shelf, clash \subseteq clash', favorites' = favorites,
         \A t \in shelf' \ clash' : <<"fav", t>> \in log' <=> <<"fav", t>> \in log,
         \A o \in UserThreads, t \in shelf' \ clash' : (Gives(o, t)' <=> Gives(o, t)) /\ (Takes(o, t)' <=> Takes(o, t))
  PROVE  FavoriteInv'
<1> SUFFICES ASSUME NEW t \in shelf' \ clash'
             PROVE  /\ \A o \in UserThreads : (Gives(o, t)' => t \in favorites') /\ (Takes(o, t)' => t \notin favorites')
                    /\ (\A o \in UserThreads : ~Gives(o, t)' /\ ~Takes(o, t)')
                        => (t \in favorites' <=> <<"fav", t>> \in log')
  BY DEF FavoriteInv
<1>1. t \in shelf \ clash OBVIOUS
<1> QED BY <1>1 DEF FavoriteInv

\* A request for something else than favorites.
LEMMA OtherThanFavorites ==
  ASSUME NEW r \in UserThreads, MovesOnly(r), RequestsInv, RequestsInv',
         NEW T, \A t \in T : ~Gives(r, t) /\ ~Takes(r, t),
         ureq'[r].pc # "reverse", ureq'[r].pc = "award" => ureq'[r].kind \notin FavKinds
  PROVE  \A o \in UserThreads, t \in T : (Gives(o, t)' <=> Gives(o, t)) /\ (Takes(o, t)' <=> Takes(o, t))
BY DEF MovesOnly, Gives, Takes

SameRequest(o, p) ==
    /\ Rewards(o, p)' <=> Rewards(o, p)
    /\ Rewards(o, p) => ureq'[o].add = ureq[o].add /\ ureq'[o].sub = ureq[o].sub
    /\ ureq'[o].pc = "write" /\ ureq'[o].kind # "create" /\ ureq'[o].on = p =>
        \/ ureq[o].pc = "write" /\ ureq[o].kind # "create" /\ ureq[o].on = p /\ ureq'[o].read = ureq[o].read
        \/ ureq'[o].read = playlist[p]

LEMMA ListsKept ==
  ASSUME ListsInv, shelf' \subseteq shelf, clash \subseteq clash',
         \A p \in Lists \ clash' :
            /\ playlist'[p] = playlist[p]
            /\ \A t \in shelf' : <<p, t>> \in log' <=> <<p, t>> \in log
            /\ \A o \in UserThreads : SameRequest(o, p)
  PROVE  ListsInv'
<1> SUFFICES ASSUME NEW p \in Lists \ clash'
             PROVE  /\ \A o \in UserThreads :
                        /\ ureq'[o].pc = "write" /\ ureq'[o].kind # "create" /\ ureq'[o].on = p
                             => playlist'[p] = ureq'[o].read
                        /\ Rewards(o, p)' => \A t \in shelf' :
                            /\ t \in ureq'[o].add => Holds(p, t)'
                            /\ t \in ureq'[o].sub => ~Holds(p, t)'
                            /\ t \notin ureq'[o].add \cup ureq'[o].sub => (Holds(p, t)' <=> <<p, t>> \in log')
                    /\ (\A o \in UserThreads : ~Rewards(o, p)') => \A t \in shelf' : Holds(p, t)' <=> <<p, t>> \in log'
  BY DEF ListsInv
<1>1. p \in Lists \ clash OBVIOUS
<1>2. \A t \in shelf' : t \in shelf /\ (Holds(p, t)' <=> Holds(p, t)) BY DEF Holds
<1>3. ASSUME NEW o \in UserThreads, ureq'[o].pc = "write", ureq'[o].kind # "create", ureq'[o].on = p
      PROVE  playlist'[p] = ureq'[o].read
  BY <1>1, <1>3 DEF ListsInv, SameRequest
<1>4. ASSUME NEW o \in UserThreads, Rewards(o, p)', NEW t \in shelf'
      PROVE  /\ t \in ureq'[o].add => Holds(p, t)'
             /\ t \in ureq'[o].sub => ~Holds(p, t)'
             /\ t \notin ureq'[o].add \cup ureq'[o].sub => (Holds(p, t)' <=> <<p, t>> \in log')
  <2>1. Rewards(o, p) /\ ureq'[o].add = ureq[o].add /\ ureq'[o].sub = ureq[o].sub BY <1>4 DEF SameRequest
  <2>2. /\ t \in ureq[o].add => Holds(p, t)
        /\ t \in ureq[o].sub => ~Holds(p, t)
        /\ t \notin ureq[o].add \cup ureq[o].sub => (Holds(p, t) <=> <<p, t>> \in log)
    BY <1>1, <1>2, <1>4, <2>1 DEF ListsInv
  <2> QED BY <1>2, <1>4, <2>1, <2>2
<1>5. ASSUME \A o \in UserThreads : ~Rewards(o, p)', NEW t \in shelf' PROVE Holds(p, t)' <=> <<p, t>> \in log'
  <2>1. \A o \in UserThreads : ~Rewards(o, p) BY <1>5 DEF SameRequest
  <2> QED BY <1>1, <1>2, <1>5, <2>1 DEF ListsInv
<1> QED BY <1>3, <1>4, <1>5

\* A request for something else than playlists.
LEMMA OtherThanLists ==
  ASSUME NEW r \in UserThreads, MovesOnly(r), NEW p,
         ~Rewards(r, p), ~Rewards(r, p)', ureq'[r].pc = "write" => ureq'[r].kind = "create"
  PROVE  \A o \in UserThreads : SameRequest(o, p)
BY DEF MovesOnly, Rewards, SameRequest

LEMMA SpreadKept ==
  ASSUME SpreadInv, NEW r \in UserThreads, MovesOnly(r), shelf' \subseteq shelf, starred \subseteq starred',
         \/ ureq'[r] = ureq[r] \/ ureq'[r].pc = "idle" \/ ureq'[r].kind \notin FavKinds
         \/ ureq[r].pc # "idle" /\ ureq'[r].kind = ureq[r].kind /\ ureq'[r].read = ureq[r].read
  PROVE  SpreadInv'
<1> SUFFICES ASSUME NEW o \in UserThreads
             PROVE  /\ ureq'[o].pc # "idle" /\ ureq'[o].kind \in {"star", "unstar"} => ToSet(ureq'[o].read) \subseteq starred'
                    /\ OnVersions(o)' /\ ureq'[o].kind \in {"favorite", "unfavorite"} => TheVersions' \subseteq ToSet(ureq'[o].read)
  BY DEF SpreadInv
<1>1. TheVersions' \subseteq TheVersions BY DEF TheVersions
<1>2. CASE ureq'[o].pc = "idle" \/ ureq'[o].kind \notin FavKinds BY <1>2 DEF OnVersions, FavKinds
<1>3. CASE ureq[o].pc # "idle" /\ ureq'[o].kind = ureq[o].kind /\ ureq'[o].read = ureq[o].read /\ ureq'[o].kind \in FavKinds
  <2>1. OnVersions(o)' => OnVersions(o) BY <1>1, <1>3 DEF OnVersions
  <2> QED BY <1>1, <1>3, <2>1 DEF SpreadInv
<1>4. CASE ureq'[o] = ureq[o] /\ ureq'[o].pc # "idle" /\ ureq'[o].kind \in FavKinds
  <2>1. OnVersions(o)' => OnVersions(o) BY <1>1, <1>4 DEF OnVersions
  <2> QED BY <1>1, <1>4, <2>1 DEF SpreadInv
<1> QED BY <1>2, <1>3, <1>4 DEF MovesOnly

LEMMA VersionsKept ==
  ASSUME VersionsInv, shelf' \subseteq shelf, starred \subseteq starred', clash \subseteq clash',
         GroupCalm' => /\ \A t \in TheVersions' : t \in favorites' <=> t \in favorites
                  /\ \A o \in UserThreads : (OnVersions(o)' <=> OnVersions(o))
                                            /\ (OnVersions(o) => ureq'[o].ids = ureq[o].ids /\ ureq'[o].kind = ureq[o].kind)
  PROVE  VersionsInv'
<1> SUFFICES ASSUME GroupCalm'
             PROVE  /\ \A o \in UserThreads : OnVersions(o)' => \A t \in TheVersions' \ ToSet(ureq'[o].ids) :
                        t \in favorites' <=> ureq'[o].kind = "favorite"
                    /\ (\A o \in UserThreads : ~OnVersions(o)') =>
                        \A t \in TheVersions' : t \in favorites' <=> Main \in favorites'
  BY DEF VersionsInv
<1>1. GroupCalm BY DEF GroupCalm
<1>2. TheVersions' \subseteq TheVersions /\ Main \in TheVersions' BY UserConstants DEF TheVersions, GroupCalm
<1>3. ASSUME NEW o \in UserThreads, OnVersions(o)', NEW t \in TheVersions' \ ToSet(ureq'[o].ids)
      PROVE  t \in favorites' <=> ureq'[o].kind = "favorite"
  BY <1>1, <1>2, <1>3 DEF VersionsInv
<1>4. ASSUME \A o \in UserThreads : ~OnVersions(o)', NEW t \in TheVersions'
      PROVE  t \in favorites' <=> Main \in favorites'
  BY <1>1, <1>2, <1>4 DEF VersionsInv
<1> QED BY <1>3, <1>4

LEMMA HistoryKept ==
  ASSUME HistoryInv, NEW r \in UserThreads, MovesOnly(r), clash \subseteq clash', history' = history,
         ureq'[r].pc # "row"
  PROVE  HistoryInv'
BY DEF HistoryInv, MovesOnly

------------------------------------------------------------------------------
(* The beginning, and heat.                                                 *)

LEMMA ListsOfTrack == \A t, es : IsFiniteSet({p \in Lists : <<p, t>> \in es}) /\ Cardinality({p \in Lists : <<p, t>> \in es}) \in Nat
<1> TAKE t, es
<1>1. {p \in Lists : <<p, t>> \in es} \in SUBSET Lists OBVIOUS
<1> QED BY <1>1, UserConstants, FS_Subset, FS_CardinalityType

ListsWith(t, es) == {p \in Lists : <<p, t>> \in es}
LEMMA HeatFormula == \A t, es : HeatOf(t, es) = (IF <<"fav", t>> \in es THEN 5 ELSE 0) + 2 * Cardinality(ListsWith(t, es))
<1> TAKE t, es
<1>1. WeightOf(<<"fav", t>>) = 5 BY DEF WeightOf
<1> QED BY <1>1, Zenon DEF HeatOf, ListsWith

LEMMA HeatType == \A t, es : HeatOf(t, es) \in Int
<1> TAKE t, es
<1>1. Cardinality(ListsWith(t, es)) \in Nat BY ListsOfTrack DEF ListsWith
<1>2. HeatOf(t, es) = (IF <<"fav", t>> \in es THEN 5 ELSE 0) + 2 * Cardinality(ListsWith(t, es)) BY HeatFormula
<1> QED BY <1>1, <1>2

\* A new event adds its weight to the heat of its track.
LEMMA HeatAdds ==
  ASSUME NEW t, NEW es, NEW k \in {"fav"} \cup Lists, NEW u, <<k, u>> \notin es
  PROVE  HeatOf(t, es \cup {<<k, u>>}) = HeatOf(t, es) + (IF t = u THEN WeightOf(<<k, u>>) ELSE 0)
<1> DEFINE e == <<k, u>>
           L(s) == ListsWith(t, s)
<1>1. IsFiniteSet(L(es)) /\ Cardinality(L(es)) \in Nat BY ListsOfTrack DEF ListsWith
<1>2. "fav" \notin Lists BY UserConstants
<1>3. WeightOf(e) = IF k = "fav" THEN 5 ELSE 2 BY DEF WeightOf
<1>4. /\ HeatOf(t, es) = (IF <<"fav", t>> \in es THEN 5 ELSE 0) + 2 * Cardinality(L(es))
      /\ HeatOf(t, es \cup {e}) = (IF <<"fav", t>> \in es \cup {e} THEN 5 ELSE 0) + 2 * Cardinality(L(es \cup {e}))
  BY HeatFormula
<1>5. CASE t # u
  <2>1. L(es \cup {e}) = L(es) /\ (<<"fav", t>> \in es \cup {e} <=> <<"fav", t>> \in es) BY <1>5 DEF ListsWith
  <2> HIDE DEF e, L
  <2> QED BY <1>1, <1>4, <1>5, <2>1 DEF e
<1>6. CASE t = u /\ k = "fav"
  <2>1. L(es \cup {e}) = L(es) BY <1>2, <1>6 DEF ListsWith
  <2>2. <<"fav", t>> \in es \cup {e} /\ <<"fav", t>> \notin es BY <1>6
  <2> HIDE DEF L
  <2> QED BY <1>1, <1>3, <1>4, <1>6, <2>1, <2>2
<1>7. CASE t = u /\ k \in Lists
  <2>1. L(es \cup {e}) = L(es) \cup {k} /\ k \notin L(es) BY <1>7 DEF ListsWith
  <2>2. <<"fav", t>> \in es \cup {e} <=> <<"fav", t>> \in es BY <1>2, <1>7
  <2> HIDE DEF L
  <2>3. Cardinality(L(es \cup {e})) = Cardinality(L(es)) + 1 BY <1>1, <2>1, FS_AddElement
  <2> QED BY <1>1, <1>2, <1>3, <1>4, <1>7, <2>2, <2>3
<1> QED BY <1>5, <1>6, <1>7

\* Events that go take with them what they had given.
LEMMA HeatLoses ==
  ASSUME NEW t, NEW es, NEW ds
  PROVE  HeatOf(t, es \ ds) = HeatOf(t, es) - HeatOf(t, ds \cap es)
<1> DEFINE L(s) == ListsWith(t, s)
<1>1. IsFiniteSet(L(es)) /\ Cardinality(L(es)) \in Nat BY ListsOfTrack DEF ListsWith
<1>2. L(es \ ds) = L(es) \ L(ds \cap es) /\ L(es) \cap L(ds \cap es) = L(ds \cap es) BY DEF ListsWith
<1>3. <<"fav", t>> \in es \ ds <=> <<"fav", t>> \in es /\ <<"fav", t>> \notin ds \cap es OBVIOUS
<1>4. <<"fav", t>> \in ds \cap es => <<"fav", t>> \in es OBVIOUS
<1>5. Cardinality(L(ds \cap es)) \in Nat BY ListsOfTrack DEF ListsWith
<1>6. \A s : HeatOf(t, s) = (IF <<"fav", t>> \in s THEN 5 ELSE 0) + 2 * Cardinality(L(s)) BY HeatFormula
<1> HIDE DEF L
<1>7. Cardinality(L(es \ ds)) = Cardinality(L(es)) - Cardinality(L(ds \cap es)) BY <1>1, <1>2, FS_Difference
<1>8. /\ HeatOf(t, es) = (IF <<"fav", t>> \in es THEN 5 ELSE 0) + 2 * Cardinality(L(es))
      /\ HeatOf(t, ds \cap es) = (IF <<"fav", t>> \in ds \cap es THEN 5 ELSE 0) + 2 * Cardinality(L(ds \cap es))
      /\ HeatOf(t, es \ ds) = (IF <<"fav", t>> \in es \ ds THEN 5 ELSE 0) + 2 * Cardinality(L(es \ ds)) BY <1>6
<1> QED BY <1>1, <1>3, <1>4, <1>5, <1>7, <1>8

LEMMA AwardKeeps ==
  ASSUME TablesInv, HeatIsItsEvents, NEW k \in {"fav"} \cup Lists, NEW u \in UserTracks, AwardEvent(<<k, u>>),
         shelf' = shelf
  PROVE  /\ log' \subseteq ({"fav"} \cup Lists) \X UserTracks /\ heat' \in [UserTracks -> Int]
         /\ log \subseteq log' /\ log' \subseteq log \cup {<<k, u>>} /\ (u \in shelf => <<k, u>> \in log')
         /\ HeatIsItsEvents'
<1> DEFINE e == <<k, u>>
<1>1. e[2] = u /\ e \in ({"fav"} \cup Lists) \X UserTracks OBVIOUS
<1>2. CASE e \in log \/ u \notin shelf
  <2>1. log' = log /\ heat' = heat BY <1>1, <1>2 DEF AwardEvent
  <2> QED BY <1>2, <2>1 DEF TablesInv, HeatIsItsEvents
<1>3. CASE e \notin log /\ u \in shelf
  <2>1. log' = log \cup {e} /\ heat' = [heat EXCEPT ![u] = @ + WeightOf(e)] BY <1>1, <1>3 DEF AwardEvent
  <2>2. WeightOf(e) \in Int BY DEF WeightOf
  <2>3. heat \in [UserTracks -> Int] /\ shelf \subseteq UserTracks BY DEF TablesInv
  <2>4. \A t \in UserTracks : heat'[t] = heat[t] + (IF t = u THEN WeightOf(e) ELSE 0)
    <3> HIDE DEF e
    <3> QED BY <2>1, <2>2, <2>3
  <2>5. HeatIsItsEvents' BY <1>3, <2>1, <2>3, <2>4, HeatAdds DEF HeatIsItsEvents
  <2>6. heat' \in [UserTracks -> Int] BY <2>1, <2>2, <2>3
  <2> QED BY <1>1, <2>1, <2>5, <2>6 DEF TablesInv
<1> QED BY <1>2, <1>3

LEMMA ReverseKeeps ==
  ASSUME TablesInv, HeatIsItsEvents, NEW es, ReverseEvents(es), shelf' = shelf
  PROVE  /\ log' \subseteq ({"fav"} \cup Lists) \X UserTracks /\ heat' \in [UserTracks -> Int]
         /\ log' = log \ es /\ HeatIsItsEvents'
<1>1. log' = log \ es /\ heat' = [t \in UserTracks |-> heat[t] - HeatOf(t, es \cap log)] BY DEF ReverseEvents
<1>2. heat \in [UserTracks -> Int] /\ shelf \subseteq UserTracks BY DEF TablesInv
<1>3. heat' \in [UserTracks -> Int] BY <1>1, <1>2, HeatType
<1>4. \A t \in shelf : heat'[t] = HeatOf(t, log \ es)
  <2> TAKE t \in shelf
  <2>1. HeatOf(t, log \ es) = HeatOf(t, log) - HeatOf(t, es \cap log) BY HeatLoses
  <2>2. heat[t] = HeatOf(t, log) BY DEF HeatIsItsEvents
  <2>3. heat'[t] = heat[t] - HeatOf(t, es \cap log) BY <1>1, <1>2
  <2> QED BY <2>1, <2>2, <2>3
<1> QED BY <1>1, <1>3, <1>4 DEF TablesInv, HeatIsItsEvents

LEMMA InitUser == UserInit => UserInv
<1> SUFFICES ASSUME UserInit PROVE UserInv OBVIOUS
<1> USE DEF UserInit
<1>1. \A r \in UserThreads : ureq[r] = Resting /\ ureq[r].pc = "idle" BY DEF Resting
<1>2. /\ <<Main>> \in UserSeqs /\ <<>> \in UserSeqs /\ IsInjective(<<Main>>) /\ ToSet(<<Main>>) = {Main}
      /\ Main \in UserTracks /\ Main \in Group /\ Group \subseteq UserTracks
  <2>1. <<Main>> \in Seq(UserTracks) /\ <<>> \in Seq(UserTracks) BY UserConstants
  <2>2. IsInjective(<<Main>>) /\ IsInjective(<<>>) BY DEF IsInjective
  <2>3. ToSet(<<Main>>) = {Main} BY DEF ToSet
  <2>4. <<Main>> \in UserSeqs /\ <<>> \in UserSeqs BY <2>1, <2>2, ShortWithoutRepetition
  <2> QED BY <2>2, <2>3, <2>4, UserConstants
<1>3. NoList # <<Main>> BY <1>2, UserConstants
<1>4. log \subseteq ({"fav"} \cup Lists) \X UserTracks BY <1>2
<1>5. TablesInv
  <2>1. heat \in [UserTracks -> Int] BY HeatType
  <2>2. playlist \in [Lists -> UserSeqs \cup {NoList}] /\ \A p \in Lists : playlist[p] # NoList => playlist[p] = <<Main>> BY <1>2
  <2>3. player.ids = <<>> /\ player.idx = 0 OBVIOUS
  <2>4. asked \in 0..MaxUserRequests BY UserConstants
  <2>5. shelf \subseteq UserTracks /\ favorites \subseteq UserTracks BY <1>2
  <2>6. history \in [UserTracks -> Nat] OBVIOUS
  <2> QED BY <1>2, <1>4, <2>1, <2>2, <2>3, <2>4, <2>5, <2>6 DEF TablesInv
<1>6. RequestsInv BY <1>1, RestingFits DEF RequestsInv
<1>7. ApartInv BY <1>1 DEF ApartInv, Works
<1>8. HeatIsItsEvents BY DEF HeatIsItsEvents
<1>9. "fav" \notin Lists BY UserConstants
<1>10. FavoriteInv
  <2>1. \A t : t \in favorites <=> <<"fav", t>> \in log BY <1>9
  <2> QED BY <1>1, <2>1 DEF FavoriteInv, Gives, Takes
<1>11. ListsInv
  <2>1. \A p \in Lists, t \in UserTracks : <<p, t>> \in log <=> playlist[p] = <<t>> BY <1>9
  <2>2. \A p \in Lists, t \in UserTracks : playlist[p] = <<t>> <=> Holds(p, t)
    <3> TAKE p \in Lists, t \in UserTracks
    <3>1. playlist[p] = NoList \/ playlist[p] = <<Main>> OBVIOUS
    <3>2. <<t>> \in UserSeqs
      <4>1. <<t>> \in Seq(UserTracks) /\ IsInjective(<<t>>) BY DEF IsInjective
      <4> QED BY <4>1, ShortWithoutRepetition
    <3>3. <<t>> # NoList BY <3>2, UserConstants
    <3>4. <<t>> = <<Main>> <=> t = Main OBVIOUS
    <3> QED BY <1>2, <1>3, <3>1, <3>3, <3>4 DEF Holds
  <2> QED BY <1>1, <2>1, <2>2 DEF ListsInv, Rewards
<1>12. SpreadInv BY <1>1 DEF SpreadInv, OnVersions
<1>13. VersionsInv BY <1>1, <1>2 DEF VersionsInv, OnVersions, TheVersions
<1>14. HistoryInv BY <1>1 DEF HistoryInv
<1> QED BY <1>5, <1>6, <1>7, <1>8, <1>10, <1>11, <1>12, <1>13, <1>14 DEF UserInv

------------------------------------------------------------------------------
(* A request is made.                                                       *)

LEMMA HeadAndTail ==
  ASSUME NEW U, NEW s \in Seq(U), s # <<>>
  PROVE  /\ Head(s) \in U /\ Tail(s) \in Seq(U)
         /\ Head(s) \in ToSet(s) /\ ToSet(Tail(s)) \subseteq ToSet(s) /\ ToSet(s) \subseteq {Head(s)} \cup ToSet(Tail(s))
<1>1. Len(s) \in Nat \ {0} /\ DOMAIN s = 1..Len(s) /\ Head(s) = s[1] OBVIOUS
<1>2. Head(s) \in U /\ Tail(s) \in Seq(U) /\ Len(Tail(s)) = Len(s) - 1 BY HeadTailProperties
<1>3. \A i \in 1..Len(Tail(s)) : Tail(s)[i] = s[i + 1] BY HeadTailProperties
<1>4. DOMAIN Tail(s) = 1..(Len(s) - 1) BY <1>2
<1>5. ToSet(Tail(s)) \subseteq ToSet(s)
  <2>1. \A i \in DOMAIN Tail(s) : i + 1 \in DOMAIN s /\ Tail(s)[i] = s[i + 1] BY <1>1, <1>2, <1>3, <1>4
  <2> QED BY <2>1 DEF ToSet
<1>6. ToSet(s) \subseteq {Head(s)} \cup ToSet(Tail(s))
  <2>1. \A i \in DOMAIN s : i # 1 => i - 1 \in DOMAIN Tail(s) /\ Tail(s)[i - 1] = s[i]
    <3> TAKE i \in DOMAIN s
    <3> HAVE i # 1
    <3>1. i - 1 \in 1..(Len(s) - 1) /\ (i - 1) + 1 = i BY <1>1
    <3> QED BY <1>2, <1>3, <1>4, <3>1
  <2> QED BY <1>1, <2>1 DEF ToSet
<1>7. 1 \in DOMAIN s BY <1>1
<1>8. Head(s) \in ToSet(s) BY <1>1, <1>7 DEF ToSet
<1> QED BY <1>2, <1>5, <1>6, <1>8

\* The tracks of a request are tracks.
LEMMA EntriesAreTracks == \A s \in Seq(UserTracks) : ToSet(s) \subseteq UserTracks
BY DEF ToSet

LEMMA TouchedAreThings ==
  ASSUME RequestsInv, NEW r \in UserThreads, ureq[r].pc # "idle"
  PROVE  Touched(ureq[r]) \subseteq UserTracks \cup Lists
BY UserRequestTypes, EntriesAreTracks DEF Touched, FitsKind

LEMMA AskingKeeps ==
  ASSUME UserInv, NEW r \in UserThreads, NEW q \in Requests, FitsKind(q), Asks(r, q),
         starred \subseteq starred', starred' \subseteq UserTracks,
         q.pc \in {"insert", "delete", "read", "write", "erase"}, q.pc = "write" => q.kind = "create",
         q.kind \in {"star", "unstar"} => ToSet(q.read) \subseteq starred',
         q.kind \in {"favorite", "unfavorite"} =>
            q.ids = q.read /\ (ToSet(q.read) \cap TheVersions = {} \/ TheVersions \subseteq ToSet(q.read))
  PROVE  UserInv'
<1> USE DEF UserInv
<1>1. /\ ureq[r].pc = "idle" /\ Becomes(r, q) /\ clash' = clash \cup (Touched(q) \cap Busy(r))
      /\ asked \in 0..MaxUserRequests /\ asked' = asked + 1 /\ asked < MaxUserRequests
      /\ UNCHANGED <<shelf, favorites, playlist, log, heat, history, player>> BY DEF Asks, TablesInv
<1>2. RequestsInv' /\ MovesOnly(r) /\ ureq'[r] = q BY <1>1, RequestMoves
<1>3. clash \subseteq clash' /\ clash' \subseteq UserTracks \cup Lists
  <2>1. Touched(ureq'[r]) \subseteq UserTracks \cup Lists BY <1>2, UserRequestTypes, EntriesAreTracks DEF Touched, FitsKind, RequestsInv, Requests
  <2> QED BY <1>1, <1>2, <2>1 DEF TablesInv
<1>4. TablesInv'
  <2>1. asked' \in 0..MaxUserRequests BY <1>1, UserConstants
  <2> QED BY <1>1, <1>3, <2>1 DEF TablesInv
<1>5. HeatIsItsEvents' BY <1>1 DEF HeatIsItsEvents
<1>6. \A o \in UserThreads \ {r} : \A x : Works(o, x) /\ x \in Touched(q) => x \in clash' BY <1>1 DEF Works, Busy
<1>7. ApartInv'
  <2>1. \A o \in UserThreads \ {r}, x \in UserTracks \cup Lists : Works(o, x)' => Works(o, x)
    BY <1>2 DEF Works, MovesOnly, Touched
  <2>2. \A x \in UserTracks \cup Lists : Works(r, x)' => x \in Touched(q) BY <1>2 DEF Works, Touched
  <2> QED BY <1>3, <1>6, <2>1, <2>2, Zenon DEF ApartInv
<1>8. FavoriteInv'
  <2>1. \A o \in UserThreads, t \in shelf' \ clash' : (Gives(o, t)' <=> Gives(o, t)) /\ (Takes(o, t)' <=> Takes(o, t))
    BY <1>1, <1>2 DEF MovesOnly, Gives, Takes
  <2> QED BY <1>1, <1>3, <2>1, FavoriteKept
<1>9. ListsInv'
  <2>1. \A p \in Lists \ clash' : \A o \in UserThreads : SameRequest(o, p)
    BY <1>1, <1>2 DEF MovesOnly, Rewards, SameRequest
  <2> QED BY <1>1, <1>3, <2>1, ListsKept
<1>10. SpreadInv'
  <2>1. TheVersions' = TheVersions BY <1>1 DEF TheVersions
  <2>2. \A o \in UserThreads \ {r} : OnVersions(o)' <=> OnVersions(o) BY <1>2, <2>1 DEF MovesOnly, OnVersions
  <2>3. ASSUME NEW o \in UserThreads
        PROVE  /\ ureq'[o].pc # "idle" /\ ureq'[o].kind \in {"star", "unstar"} => ToSet(ureq'[o].read) \subseteq starred'
               /\ OnVersions(o)' /\ ureq'[o].kind \in {"favorite", "unfavorite"} => TheVersions' \subseteq ToSet(ureq'[o].read)
    <3>1. CASE o = r BY <1>2, <2>1, <3>1 DEF OnVersions
    <3>2. CASE o # r BY <1>2, <2>1, <2>2, <3>2 DEF SpreadInv, MovesOnly
    <3> QED BY <3>1, <3>2
  <2> QED BY <2>3 DEF SpreadInv
<1>11. VersionsInv'
  <2>1. TheVersions' = TheVersions BY <1>1 DEF TheVersions
  <2>2. ~OnVersions(r) BY <1>1 DEF OnVersions
  <2>3. \A o \in UserThreads \ {r} : OnVersions(o)' <=> OnVersions(o) BY <1>2, <2>1 DEF MovesOnly, OnVersions
  <2>4. CASE ~OnVersions(r)'
    <3>1. \A o \in UserThreads : (OnVersions(o)' <=> OnVersions(o))
              /\ (OnVersions(o) => ureq'[o].ids = ureq[o].ids /\ ureq'[o].kind = ureq[o].kind)
      BY <1>2, <2>2, <2>3, <2>4 DEF MovesOnly
    <3> QED BY <1>1, <1>3, <3>1, VersionsKept
  <2>5. CASE OnVersions(r)'
    <3> SUFFICES ASSUME GroupCalm'
                 PROVE  \A o \in UserThreads : OnVersions(o)' => o = r /\ TheVersions' \ ToSet(ureq'[o].ids) = {}
      BY <2>5 DEF VersionsInv
    <3>1. Main \in TheVersions' /\ Main \notin clash' /\ starred' \cap Group = {} /\ Main \in UserTracks
      BY UserConstants DEF TheVersions, GroupCalm
    <3>2. q.kind \in {"favorite", "unfavorite"} BY <1>2, <2>5, <3>1 DEF OnVersions, FavKinds, TheVersions
    <3>3. TheVersions' \subseteq ToSet(q.ids) /\ Main \in Touched(q)
      BY <1>2, <2>1, <2>5, <3>1, <3>2, KindsDiffer DEF OnVersions, Touched, FavKinds
    <3>4. ASSUME NEW o \in UserThreads \ {r}, OnVersions(o) PROVE FALSE
      <4>1. ureq[o].kind \in {"favorite", "unfavorite"}
        BY <1>2, <3>1, <3>4 DEF OnVersions, SpreadInv, FavKinds, TheVersions
      <4>2. Main \in Touched(ureq[o]) /\ ureq[o].pc # "idle"
        BY <2>1, <3>1, <3>4, <4>1, KindsDiffer DEF OnVersions, SpreadInv, FavKinds, Touched
      <4> QED BY <1>6, <3>1, <3>3, <4>2 DEF Works
    <3> QED BY <1>2, <2>3, <3>3, <3>4
  <2> QED BY <2>4, <2>5
<1>12. HistoryInv' BY <1>1, <1>2, <1>3, HistoryKept
<1> QED BY <1>2, <1>4, <1>5, <1>7, <1>8, <1>9, <1>10, <1>11, <1>12

LEMMA SetInSequence ==
  ASSUME NEW S \in SUBSET UserTracks
  PROVE  SetToSeq(S) \in Seq(UserTracks) /\ ToSet(SetToSeq(S)) = S /\ (S # {} => SetToSeq(S) # <<>>)
<1> DEFINE n == Cardinality(S)
<1>1. IsFiniteSet(S) BY UserConstants, FS_Subset
<1>2. n \in Nat /\ ExistsBijection(1..n, S) BY <1>1, FS_CardinalityType
<1>3. \E f \in [1..n -> S] : f \in Surjection(1..n, S) /\ IsInjective(f)
  BY <1>2 DEF ExistsBijection, Bijection, Injection
<1>4. PICK f \in Bijection(1..n, S) : TRUE BY <1>2 DEF ExistsBijection
<1>5. f \in [1..n -> S] /\ IsInjective(f) /\ \A x \in S : \E i \in 1..n : f[i] = x
  BY <1>4 DEF Bijection, Injection, Surjection
<1>6. SetToSeq(S) \in [1..n -> S] /\ IsInjective(SetToSeq(S)) BY <1>5, Zenon DEF SetToSeq
<1> HIDE DEF n
<1>7. SetToSeq(S) \in Injection(1..n, S) BY <1>6 DEF Injection, IsInjective
<1>8. Cardinality(1..n) = n BY <1>2, FS_Interval
<1>9. SetToSeq(S) \in Surjection(1..n, S) BY <1>1, <1>7, <1>8, FS_Injection DEF n
<1>10. ToSet(SetToSeq(S)) = S BY <1>6, <1>9 DEF Surjection, ToSet
<1>11. SetToSeq(S) \in Seq(UserTracks) BY <1>2, <1>6
<1>12. S # {} => SetToSeq(S) # <<>> BY <1>10 DEF ToSet
<1> QED BY <1>10, <1>11, <1>12

LEMMA VersionsAreOne == \A t \in UserTracks :
    /\ ExpandTrackVersions(t) \in Seq(UserTracks) /\ ExpandTrackVersions(t) # <<>>
    /\ ToSet(ExpandTrackVersions(t)) \cap TheVersions = {} \/ TheVersions \subseteq ToSet(ExpandTrackVersions(t))
<1> TAKE t \in UserTracks
<1>1. TheVersions \in SUBSET UserTracks BY UserConstants DEF TheVersions
<1>2. CASE t \in TheVersions
  <2>1. ExpandTrackVersions(t) = SetToSeq(TheVersions) BY <1>2 DEF ExpandTrackVersions, TheVersions
  <2> QED BY <1>1, <1>2, <2>1, SetInSequence
<1>3. CASE t \notin TheVersions
  <2>1. ExpandTrackVersions(t) = <<t>> BY <1>3 DEF ExpandTrackVersions, TheVersions
  <2>2. ToSet(<<t>>) = {t} BY DEF ToSet
  <2> QED BY <1>3, <2>1, <2>2
<1> QED BY <1>2, <1>3

LEMMA AskFavoriteKeeps ==
  ASSUME UserInv, NEW r \in UserThreads, NEW k \in FavKinds, NEW t \in UserTracks, AskFavorite(r, k, t)
  PROVE  UserInv'
<1> DEFINE ts == IF k \in {"favorite", "unfavorite"} THEN ExpandTrackVersions(t) ELSE <<t>>
           q == [Resting EXCEPT !.kind = k, !.ids = ts, !.read = ts,
                                !.pc = IF k \in {"favorite", "star"} THEN "insert" ELSE "delete"]
<1>1. /\ ts \in Seq(UserTracks) /\ ts # <<>> /\ (k \in {"star", "unstar"} => ToSet(ts) = {t})
      /\ k \in {"favorite", "unfavorite"} => ToSet(ts) \cap TheVersions = {} \/ TheVersions \subseteq ToSet(ts)
  <2>1. ToSet(<<t>>) = {t} /\ <<t>> \in Seq(UserTracks) /\ <<t>> # <<>> BY DEF ToSet
  <2> QED BY <2>1, VersionsAreOne
<1> HIDE DEF ts
<1>2. q \in Requests BY <1>1, KindsDiffer DEF Requests, Resting, UserPcs
<1>3. FitsKind(q) BY <1>1, KindsDiffer DEF FitsKind, Resting, FavKinds
<1>4. Asks(r, q) /\ starred' = IF k \in {"star", "unstar"} THEN starred \cup {t} ELSE starred BY DEF AskFavorite, ts
<1>5. starred \subseteq starred' /\ starred' \subseteq UserTracks BY <1>4 DEF UserInv, TablesInv
<1>6. /\ q.pc \in {"insert", "delete"} /\ q.kind = k /\ q.read = ts /\ q.ids = ts BY DEF Resting
<1>7. k \in {"star", "unstar"} => ToSet(ts) \subseteq starred' BY <1>1, <1>4
<1> HIDE DEF q
<1> QED BY <1>1, <1>2, <1>3, <1>4, <1>5, <1>6, <1>7, AskingKeeps

LEMMA AskListKeeps ==
  ASSUME UserInv, NEW r \in UserThreads, NEW k \in ListKinds, NEW p \in Lists, NEW ids \in UserSeqs, AskList(r, k, p, ids)
  PROVE  UserInv'
<1> DEFINE at == IF k = "create" THEN "write" ELSE "read"
           q == [Resting EXCEPT !.kind = k, !.on = p, !.ids = ids, !.pc = at]
<1>1. ids \in Seq(UserTracks) /\ <<>> \in Seq(UserTracks) BY UserSeqsAreSeqs
<1>2. at \in UserPcs /\ (at = "write" <=> k = "create") /\ at \in {"write", "read"} BY DEF UserPcs
<1>3. Asks(r, q) /\ starred' = starred BY DEF AskList
<1> HIDE DEF at
<1>4. q \in Requests
  <2>1. Resting \in Requests BY RestingFits
  <2> QED BY <1>1, <1>2, <2>1 DEF Requests
<1>5. q.pc = at /\ q.kind = k /\ q.on = p
  <2>1. Resting \in Requests BY RestingFits
  <2> QED BY <2>1 DEF Requests
<1> HIDE DEF q
<1>7. k \notin FavKinds /\ k \notin {"played", "star", "unstar", "favorite", "unfavorite"} BY KindsDiffer DEF FavKinds
<1>8. FitsKind(q) BY <1>2, <1>5, <1>7 DEF FitsKind
<1>9. starred' \subseteq UserTracks BY <1>3 DEF UserInv, TablesInv
<1> QED BY <1>2, <1>3, <1>4, <1>5, <1>7, <1>8, <1>9, AskingKeeps

LEMMA AskHistoryKeeps ==
  ASSUME UserInv, NEW r \in UserThreads, NEW t \in UserTracks, AskHistory(r, t)
  PROVE  UserInv'
<1> DEFINE q == [Resting EXCEPT !.kind = "played", !.ids = <<t>>, !.read = <<t>>, !.pc = "erase"]
<1>1. <<t>> \in Seq(UserTracks) /\ <<t>> # <<>> OBVIOUS
<1>2. q \in Requests BY <1>1 DEF Requests, Resting, UserPcs
<1>3. FitsKind(q) BY <1>1, KindsDiffer DEF FitsKind, Resting, FavKinds
<1>4. Asks(r, q) /\ starred' = starred BY DEF AskHistory
<1>5. q.pc = "erase" /\ q.kind = "played" BY DEF Resting
<1>6. starred' \subseteq UserTracks BY <1>4 DEF UserInv, TablesInv
<1> HIDE DEF q
<1> QED BY <1>2, <1>3, <1>4, <1>5, <1>6, AskingKeeps

------------------------------------------------------------------------------
(* The statements of a favorite.                                            *)

\* A favorite's request at work.
OnFavorite(r) == ureq[r].pc \in {"insert", "award", "delete", "reverse"} /\ ureq[r].kind \in FavKinds
NextTrack(r) == Head(ureq[r].ids)

LEMMA OnFavoriteFacts ==
  ASSUME UserInv, NEW r \in UserThreads, OnFavorite(r)
  PROVE  /\ ureq[r].pc # "idle" /\ ureq[r].ids \in Seq(UserTracks) /\ ureq[r].ids # <<>>
         /\ ToSet(ureq[r].ids) \subseteq ToSet(ureq[r].read) /\ Touched(ureq[r]) = ToSet(ureq[r].read)
         /\ NextTrack(r) \in UserTracks /\ NextTrack(r) \in ToSet(ureq[r].ids) /\ Works(r, NextTrack(r))
         /\ Tail(ureq[r].ids) \in Seq(UserTracks) /\ ToSet(Tail(ureq[r].ids)) \subseteq ToSet(ureq[r].ids)
         /\ ToSet(ureq[r].ids) \subseteq {NextTrack(r)} \cup ToSet(Tail(ureq[r].ids))
         /\ \A p : ~Rewards(r, p)
         /\ ureq[r].pc \in {"insert", "award"} => ureq[r].kind \in {"favorite", "star"}
         /\ ureq[r].pc \in {"delete", "reverse"} => ureq[r].kind \in {"unfavorite", "unstar"}
<1>1. /\ FitsKind(ureq[r]) /\ ureq[r].ids \in Seq(UserTracks) /\ ureq[r].pc # "idle" /\ ureq[r].kind \in FavKinds
  BY UserRequestTypes DEF UserInv, OnFavorite
<1>2. ureq[r].ids # <<>> /\ ToSet(ureq[r].ids) \subseteq ToSet(ureq[r].read) BY <1>1 DEF FitsKind
<1>3. Touched(ureq[r]) = ToSet(ureq[r].read) BY <1>1, KindsDiffer DEF Touched
<1>4. /\ NextTrack(r) \in UserTracks /\ Tail(ureq[r].ids) \in Seq(UserTracks)
      /\ NextTrack(r) \in ToSet(ureq[r].ids) /\ ToSet(Tail(ureq[r].ids)) \subseteq ToSet(ureq[r].ids)
      /\ ToSet(ureq[r].ids) \subseteq {NextTrack(r)} \cup ToSet(Tail(ureq[r].ids))
  BY <1>1, <1>2, HeadAndTail DEF NextTrack
<1>5. Works(r, NextTrack(r)) BY <1>1, <1>2, <1>3, <1>4 DEF Works
<1>6. \A p : ~Rewards(r, p) BY <1>1, KindsDiffer DEF Rewards
<1>7. /\ ureq[r].pc \in {"insert", "award"} => ureq[r].kind \in {"favorite", "star"}
      /\ ureq[r].pc \in {"delete", "reverse"} => ureq[r].kind \in {"unfavorite", "unstar"}
  BY <1>1, KindsDiffer DEF FitsKind
<1> QED BY <1>1, <1>2, <1>3, <1>4, <1>5, <1>6, <1>7

\* The request stays at its track, or has done with it.
StaysAt(r, pc) == ureq'[r] = [ureq[r] EXCEPT !.pc = pc]
DoneWith(r) ==
    /\ ureq'[r].pc \in {"idle", "insert", "delete"}
    /\ ureq'[r].pc = "idle" => Tail(ureq[r].ids) = <<>>
    /\ ureq'[r].pc # "idle" => /\ ureq'[r].kind = ureq[r].kind /\ ureq'[r].read = ureq[r].read
                               /\ ureq'[r].ids = Tail(ureq[r].ids)

LEMMA FavoriteGoesOn ==
  ASSUME UserInv, NEW r \in UserThreads, OnFavorite(r), FavGoesOn(r)
  PROVE  RequestsInv' /\ MovesOnly(r) /\ DoneWith(r)
<1> DEFINE rest == Tail(ureq[r].ids)
           q == IF rest = <<>> THEN Resting
                ELSE [ureq[r] EXCEPT !.ids = rest, !.pc = IF @ = "award" \/ @ = "insert" THEN "insert" ELSE "delete"]
<1>1. Becomes(r, q) BY DEF FavGoesOn
<1>2. /\ rest \in Seq(UserTracks) /\ ToSet(rest) \subseteq ToSet(ureq[r].read)
      /\ ureq[r].pc \in {"insert", "award"} => ureq[r].kind \in {"favorite", "star"}
      /\ ureq[r].pc \in {"delete", "reverse"} => ureq[r].kind \in {"unfavorite", "unstar"} BY OnFavoriteFacts
<1>3. ureq[r] \in Requests BY UserRequestTypes DEF UserInv
<1>4. CASE rest = <<>>
  <2>1. q = Resting BY <1>4
  <2>2. RequestsInv' /\ MovesOnly(r) /\ ureq'[r] = Resting BY <1>1, <2>1, RestingFits, RequestMoves DEF UserInv
  <2> QED BY <1>4, <2>2 DEF DoneWith, Resting
<1>5. CASE rest # <<>>
  <2> HIDE DEF rest
  <2>1. q = [ureq[r] EXCEPT !.ids = rest, !.pc = IF @ = "award" \/ @ = "insert" THEN "insert" ELSE "delete"] BY <1>5
  <2>2. /\ q.ids = rest /\ q.kind = ureq[r].kind /\ q.read = ureq[r].read /\ q.on = ureq[r].on
        /\ q.pc = IF ureq[r].pc = "award" \/ ureq[r].pc = "insert" THEN "insert" ELSE "delete"
    BY <1>3, <2>1 DEF Requests
  <2>3. q \in Requests BY <1>2, <1>3, <2>1 DEF Requests, UserPcs
  <2> HIDE DEF q
  <2>4. FitsKind(q) BY <1>2, <1>5, <2>2, KindsDiffer DEF FitsKind, OnFavorite, FavKinds
  <2>5. RequestsInv' /\ MovesOnly(r) /\ ureq'[r] = q BY <1>1, <2>3, <2>4, RequestMoves DEF UserInv
  <2> QED BY <1>5, <2>2, <2>5 DEF DoneWith, rest
<1> QED BY <1>4, <1>5

\* What is common to all of them: tables the others use are as they were, and
\* when the request is done with a track the track is a favorite if it should.
LEMMA FavoriteStatement ==
  ASSUME UserInv, NEW r \in UserThreads, OnFavorite(r), RequestsInv', MovesOnly(r),
         \/ \E pc \in {"award", "reverse"} : StaysAt(r, pc)
         \/ DoneWith(r) /\ (NextTrack(r) \in shelf \ clash =>
                              (NextTrack(r) \in favorites' <=> ureq[r].kind \in {"favorite", "star"})),
         UNCHANGED <<shelf, playlist, history, player, asked, starred, clash>>,
         favorites' \subseteq UserTracks, \A t : t # NextTrack(r) => (t \in favorites' <=> t \in favorites),
         log' \subseteq ({"fav"} \cup Lists) \X UserTracks, heat' \in [UserTracks -> Int],
         \A p \in Lists : \A t : <<p, t>> \in log' <=> <<p, t>> \in log
  PROVE  TablesInv' /\ ApartInv' /\ ListsInv' /\ SpreadInv' /\ VersionsInv' /\ HistoryInv'
<1> DEFINE h == NextTrack(r)
<1> USE DEF UserInv
<1>1. /\ ureq[r].pc # "idle" /\ ToSet(ureq[r].ids) \subseteq ToSet(ureq[r].read)
      /\ h \in UserTracks /\ h \in ToSet(ureq[r].ids) /\ \A p : ~Rewards(r, p)
      /\ ToSet(ureq[r].ids) \subseteq {h} \cup ToSet(Tail(ureq[r].ids)) /\ Touched(ureq[r]) = ToSet(ureq[r].read)
  BY OnFavoriteFacts
<1>2. ureq[r].kind \in FavKinds /\ ureq[r] \in Requests BY UserRequestTypes DEF OnFavorite
<1>3. ureq'[r].pc # "idle" => ureq'[r].kind = ureq[r].kind /\ ureq'[r].read = ureq[r].read
  BY <1>2 DEF StaysAt, DoneWith, Requests
<1>4. ureq'[r].pc \in {"idle", "insert", "delete", "award", "reverse"} BY <1>2 DEF StaysAt, DoneWith, Requests
<1>5. TablesInv' BY DEF TablesInv
<1>6. ApartInv'
  <2>1. \A x : Works(r, x)' => Works(r, x) BY <1>1, <1>2, <1>3, KindsDiffer DEF Works, Touched
  <2> QED BY <2>1, ApartKept
<1>7. ListsInv'
  <2>1. \A p \in Lists : \A o \in UserThreads : SameRequest(o, p)
    <3> TAKE p \in Lists
    <3>1. ~Rewards(r, p)' BY <1>2, <1>3, <1>4, KindsDiffer DEF Rewards
    <3> QED BY <1>1, <1>4, <3>1, OtherThanLists
  <2> QED BY <2>1, ListsKept
<1>8. SpreadInv' BY <1>1, <1>3, SpreadKept
<1>9. HistoryInv' BY <1>4, HistoryKept
<1>10. VersionsInv'
  <2> SUFFICES ASSUME GroupCalm'
               PROVE  /\ \A o \in UserThreads : OnVersions(o)' => \A t \in TheVersions' \ ToSet(ureq'[o].ids) :
                          t \in favorites' <=> ureq'[o].kind = "favorite"
                      /\ (\A o \in UserThreads : ~OnVersions(o)') =>
                          \A t \in TheVersions' : t \in favorites' <=> Main \in favorites'
    BY DEF VersionsInv
  <2>1. TheVersions' = TheVersions /\ GroupCalm BY DEF TheVersions, GroupCalm
  <2>2. /\ Main \in TheVersions /\ Main \notin clash /\ Main \in UserTracks /\ starred \cap TheVersions = {}
        /\ clash \cap TheVersions = {} /\ TheVersions \subseteq shelf
    BY <2>1, UserConstants DEF TheVersions, GroupCalm
  <2>3. \A o \in UserThreads \ {r} : /\ OnVersions(o)' <=> OnVersions(o)
                                     /\ ureq'[o] = ureq[o] BY <2>1 DEF MovesOnly, OnVersions
  <2>4. \A o \in UserThreads : OnVersions(o) =>
            ureq[o].kind \in {"favorite", "unfavorite"} /\ TheVersions \subseteq ToSet(ureq[o].read) /\ Works(o, Main)
    <3> TAKE o \in UserThreads
    <3> HAVE OnVersions(o)
    <3>1. ureq[o].kind \in {"favorite", "unfavorite"} BY <2>2 DEF OnVersions, SpreadInv, FavKinds
    <3>2. TheVersions \subseteq ToSet(ureq[o].read) BY <3>1 DEF SpreadInv
    <3> QED BY <2>2, <3>1, <3>2, KindsDiffer DEF Works, OnVersions, Touched
  <2>5. CASE ~OnVersions(r)
    <3>1. h \notin TheVersions BY <1>1, <1>2, <2>5 DEF OnVersions
    <3>2. ~OnVersions(r)' BY <1>1, <1>2, <1>3, <2>1, <2>5 DEF OnVersions
    <3>3. \A t \in TheVersions : t \in favorites' <=> t \in favorites BY <3>1
    <3>4. \A o \in UserThreads : (OnVersions(o)' <=> OnVersions(o))
                                 /\ (OnVersions(o) => ureq'[o].ids = ureq[o].ids /\ ureq'[o].kind = ureq[o].kind)
      BY <2>3, <2>5, <3>2
    <3>5. VersionsInv' BY <2>1, <3>3, <3>4, VersionsKept
    <3> QED BY <3>5 DEF VersionsInv
  <2>6. CASE OnVersions(r)
    <3>1. \A o \in UserThreads \ {r} : ~OnVersions(o) BY <2>2, <2>4, <2>6 DEF ApartInv
    <3>2. ureq[r].kind \in {"favorite", "unfavorite"} BY <2>4, <2>6
    <3>3. \A t \in TheVersions \ ToSet(ureq[r].ids) : t \in favorites <=> ureq[r].kind = "favorite"
      BY <2>1, <2>6 DEF VersionsInv
    <3>4. CASE \E pc \in {"award", "reverse"} : StaysAt(r, pc)
      <4>1. ureq'[r].ids = ureq[r].ids /\ ureq'[r].kind = ureq[r].kind /\ OnVersions(r)'
        BY <1>2, <2>1, <2>6, <3>4 DEF StaysAt, OnVersions, Requests
      <4>2. \A t \in TheVersions' \ ToSet(ureq'[r].ids) : t \in favorites' <=> ureq'[r].kind = "favorite"
        BY <1>1, <2>1, <3>3, <4>1
      <4> QED BY <2>3, <3>1, <4>1, <4>2
    <3>5. CASE /\ DoneWith(r)
               /\ h \in shelf \ clash => (h \in favorites' <=> ureq[r].kind \in {"favorite", "star"})
      <4>1. \A t \in TheVersions \ ToSet(Tail(ureq[r].ids)) : t \in favorites' <=> ureq[r].kind = "favorite"
        <5> TAKE t \in TheVersions \ ToSet(Tail(ureq[r].ids))
        <5>1. CASE t = h BY <2>2, <3>2, <3>5, <5>1
        <5>2. CASE t # h BY <1>1, <3>3, <5>2
        <5> QED BY <5>1, <5>2
      <4>2. CASE ureq'[r].pc = "idle"
        <5>1. ToSet(Tail(ureq[r].ids)) = {} BY <3>5, <4>2 DEF DoneWith, ToSet
        <5>2. ~OnVersions(r)' BY <4>2 DEF OnVersions
        <5> QED BY <2>1, <2>2, <2>3, <3>1, <4>1, <5>1, <5>2
      <4>3. CASE ureq'[r].pc # "idle"
        <5>1. ureq'[r].ids = Tail(ureq[r].ids) /\ ureq'[r].kind = ureq[r].kind /\ OnVersions(r)'
          BY <2>1, <2>6, <3>5, <4>3 DEF DoneWith, OnVersions
        <5> QED BY <2>1, <2>3, <3>1, <4>1, <5>1
      <4> QED BY <4>2, <4>3
    <3> QED BY <3>4, <3>5
  <2> QED BY <2>5, <2>6
<1> QED BY <1>5, <1>6, <1>7, <1>8, <1>9, <1>10

\* Nobody else is at a favorite that two requests do not share.
LEMMA AloneAtFavorite ==
  ASSUME UserInv, NEW r \in UserThreads, OnFavorite(r), NextTrack(r) \notin clash
  PROVE  \A o \in UserThreads \ {r} : ~Gives(o, NextTrack(r)) /\ ~Takes(o, NextTrack(r))
<1> SUFFICES ASSUME NEW o \in UserThreads \ {r}, Gives(o, NextTrack(r)) \/ Takes(o, NextTrack(r)) PROVE FALSE OBVIOUS
<1>1. FitsKind(ureq[o]) BY UserRequestTypes DEF UserInv
<1>2. OnFavorite(o) BY <1>1, KindsDiffer DEF Gives, Takes, OnFavorite, FitsKind, FavKinds
<1>3. NextTrack(o) = NextTrack(r) BY DEF Gives, Takes, NextTrack
<1>4. Works(r, NextTrack(r)) /\ Works(o, NextTrack(r)) /\ NextTrack(r) \in UserTracks BY <1>2, <1>3, OnFavoriteFacts
<1> QED BY <1>4 DEF UserInv, ApartInv

LEMMA FavoriteMoves ==
  ASSUME UserInv, NEW r \in UserThreads, OnFavorite(r), MovesOnly(r), shelf' = shelf, clash' = clash,
         NEW h, h = NextTrack(r),
         \A t \in UserTracks : t # h =>
            /\ t \in favorites' <=> t \in favorites
            /\ <<"fav", t>> \in log' <=> <<"fav", t>> \in log
            /\ ~Gives(r, t)' /\ ~Takes(r, t)',
         h \in shelf \ clash =>
            /\ Gives(r, h)' => h \in favorites'
            /\ Takes(r, h)' => h \notin favorites'
            /\ ~Gives(r, h)' /\ ~Takes(r, h)' => (h \in favorites' <=> <<"fav", h>> \in log')
  PROVE  FavoriteInv'
<1> SUFFICES ASSUME NEW t \in shelf \ clash
             PROVE  /\ \A o \in UserThreads : (Gives(o, t)' => t \in favorites') /\ (Takes(o, t)' => t \notin favorites')
                    /\ (\A o \in UserThreads : ~Gives(o, t)' /\ ~Takes(o, t)')
                        => (t \in favorites' <=> <<"fav", t>> \in log')
  BY DEF FavoriteInv
<1>1. \A o \in UserThreads \ {r} : \A u : (Gives(o, u)' <=> Gives(o, u)) /\ (Takes(o, u)' <=> Takes(o, u))
  BY DEF MovesOnly, Gives, Takes
<1>2. t \in UserTracks BY DEF UserInv, TablesInv
<1>3. CASE t = h
  <2>1. \A o \in UserThreads \ {r} : ~Gives(o, h) /\ ~Takes(o, h) BY <1>3, AloneAtFavorite
  <2> QED BY <1>1, <1>3, <2>1
<1>4. CASE t # h
  <2>1. ~Gives(r, t) /\ ~Takes(r, t) BY <1>4 DEF Gives, Takes, NextTrack
  <2>2. /\ \A o \in UserThreads : (Gives(o, t) => t \in favorites) /\ (Takes(o, t) => t \notin favorites)
        /\ (\A o \in UserThreads : ~Gives(o, t) /\ ~Takes(o, t)) => (t \in favorites <=> <<"fav", t>> \in log)
    BY DEF UserInv, FavoriteInv
  <2> QED BY <1>1, <1>2, <1>4, <2>1, <2>2
<1> QED BY <1>3, <1>4

\* Before the statement, if the request is not between row and event.
LEMMA FavoriteBefore ==
  ASSUME UserInv, NEW r \in UserThreads, OnFavorite(r), ureq[r].pc \in {"insert", "delete"}, NextTrack(r) \in shelf \ clash
  PROVE  NextTrack(r) \in favorites <=> <<"fav", NextTrack(r)>> \in log
<1>1. \A o \in UserThreads \ {r} : ~Gives(o, NextTrack(r)) /\ ~Takes(o, NextTrack(r)) BY AloneAtFavorite
<1>2. ~Gives(r, NextTrack(r)) /\ ~Takes(r, NextTrack(r)) BY DEF Gives, Takes
<1> QED BY <1>1, <1>2 DEF UserInv, FavoriteInv

LEMMA AtAnother ==
  ASSUME UserInv, NEW r \in UserThreads, OnFavorite(r), DoneWith(r) \/ \E pc \in {"award", "reverse"} : StaysAt(r, pc)
  PROVE  \A t : t # NextTrack(r) \/ DoneWith(r) => ~Gives(r, t)' /\ ~Takes(r, t)'
<1>1. ureq[r] \in Requests BY UserRequestTypes DEF UserInv
<1>2. CASE DoneWith(r) BY <1>2 DEF DoneWith, Gives, Takes
<1>3. CASE \E pc \in {"award", "reverse"} : StaysAt(r, pc)
  <2>1. ureq'[r].ids = ureq[r].ids BY <1>1, <1>3 DEF StaysAt, Requests
  <2>2. DoneWith(r) => FALSE BY <1>1, <1>3 DEF StaysAt, DoneWith, Requests
  <2> QED BY <2>1, <2>2 DEF Gives, Takes, NextTrack
<1> QED BY <1>2, <1>3

LEMMA InsertFavoriteKeeps ==
  ASSUME UserInv, NEW r \in UserThreads, InsertFavorite(r)
  PROVE  UserInv'
<1>0. PICK h : h = NextTrack(r) OBVIOUS
<1>1. ureq[r].pc = "insert" /\ OnFavorite(r) /\ h = NextTrack(r) /\ ureq[r] \in Requests
      /\ UNCHANGED <<shelf, playlist, log, heat, history, player, asked, starred, clash>>
      /\ favorites' = favorites \cup {h}
  BY <1>0, UserRequestTypes, KindsDiffer DEF UserInv, InsertFavorite, OnFavorite, FitsKind, FavKinds, NextTrack
<1>2. h \in UserTracks /\ ureq[r].kind \in {"favorite", "star"} BY <1>1, OnFavoriteFacts
<1>3. CASE h \in favorites
  <2>1. FavGoesOn(r) BY <1>1, <1>3 DEF InsertFavorite, NextTrack
  <2>2. RequestsInv' /\ MovesOnly(r) /\ DoneWith(r) BY <1>1, <2>1, FavoriteGoesOn
  <2>3. favorites' = favorites BY <1>1, <1>3
  <2>4. FavoriteInv'
    <3>1. \A t : ~Gives(r, t)' /\ ~Takes(r, t)' BY <1>1, <2>2, AtAnother
    <3>2. h \in shelf \ clash => (h \in favorites' <=> <<"fav", h>> \in log') BY <1>1, <2>3, FavoriteBefore
    <3> QED BY <1>1, <2>2, <2>3, <3>1, <3>2, FavoriteMoves
  <2>5. TablesInv' /\ ApartInv' /\ ListsInv' /\ SpreadInv' /\ VersionsInv' /\ HistoryInv'
    BY <1>1, <1>2, <1>3, <2>2, <2>3, FavoriteStatement DEF UserInv, TablesInv
  <2> QED BY <1>1, <2>2, <2>4, <2>5 DEF UserInv, HeatIsItsEvents
<1>4. CASE h \notin favorites
  <2> DEFINE q == [ureq[r] EXCEPT !.pc = "award"]
  <2>1. Becomes(r, q) BY <1>1, <1>4 DEF InsertFavorite, NextTrack
  <2>2. q \in Requests BY <1>1 DEF Requests, UserPcs
  <2>3. q.pc = "award" /\ q.kind = ureq[r].kind /\ q.ids = ureq[r].ids /\ q.read = ureq[r].read /\ q.on = ureq[r].on
    BY <1>1 DEF Requests
  <2>4. FitsKind(q)
    <3>1. FitsKind(ureq[r]) /\ ureq[r].pc = "insert" BY <1>1, UserRequestTypes DEF UserInv
    <3> HIDE DEF q
    <3> QED BY <1>2, <2>3, <3>1, KindsDiffer DEF FitsKind
  <2>5. RequestsInv' /\ MovesOnly(r) /\ StaysAt(r, "award") BY <2>1, <2>2, <2>4, RequestMoves DEF UserInv, StaysAt
  <2>6. FavoriteInv'
    <3>1. \A t : t # h => ~Gives(r, t)' /\ ~Takes(r, t)' BY <1>1, <2>5, AtAnother
    <3>2. Gives(r, h)'
      <4>1. ureq'[r] = q BY <2>5 DEF StaysAt
      <4> HIDE DEF q
      <4> QED BY <1>1, <1>2, <2>3, <4>1 DEF Gives, NextTrack, FavKinds
    <3>3. ~Takes(r, h)' BY <2>3, <2>5 DEF Takes, StaysAt
    <3>4. h \in favorites' BY <1>1
    <3>5. \A t \in UserTracks : t # h =>
            /\ t \in favorites' <=> t \in favorites
            /\ <<"fav", t>> \in log' <=> <<"fav", t>> \in log
            /\ ~Gives(r, t)' /\ ~Takes(r, t)' BY <1>1, <3>1
    <3> QED BY <1>1, <2>5, <3>2, <3>3, <3>4, <3>5, FavoriteMoves
  <2>7. TablesInv' /\ ApartInv' /\ ListsInv' /\ SpreadInv' /\ VersionsInv' /\ HistoryInv'
    <3>1. favorites' \subseteq UserTracks /\ \A t : t # h => (t \in favorites' <=> t \in favorites)
      BY <1>1, <1>2 DEF UserInv, TablesInv
    <3>2. log' \subseteq ({"fav"} \cup Lists) \X UserTracks /\ heat' \in [UserTracks -> Int] BY <1>1 DEF UserInv, TablesInv
    <3> QED BY <1>1, <2>5, <3>1, <3>2, FavoriteStatement
  <2> QED BY <1>1, <2>5, <2>6, <2>7 DEF UserInv, HeatIsItsEvents
<1> QED BY <1>3, <1>4

LEMMA AwardFavoriteKeeps ==
  ASSUME UserInv, NEW r \in UserThreads, AwardFavorite(r)
  PROVE  UserInv'
<1>0. PICK h : h = NextTrack(r) OBVIOUS
<1>1. ureq[r].pc = "award" /\ OnFavorite(r) /\ h = NextTrack(r) /\ AwardEvent(<<"fav", h>>) /\ FavGoesOn(r)
      /\ UNCHANGED <<shelf, favorites, playlist, history, player, asked, starred, clash>>
  BY <1>0 DEF AwardFavorite, OnFavorite, NextTrack
<1>2. h \in UserTracks /\ ureq[r].kind \in {"favorite", "star"} BY <1>1, OnFavoriteFacts
<1>3. RequestsInv' /\ MovesOnly(r) /\ DoneWith(r) BY <1>1, FavoriteGoesOn
<1>4. Gives(r, h) BY <1>1 DEF Gives, OnFavorite, NextTrack
<1>5. /\ log' \subseteq ({"fav"} \cup Lists) \X UserTracks /\ heat' \in [UserTracks -> Int]
      /\ log \subseteq log' /\ log' \subseteq log \cup {<<"fav", h>>} /\ (h \in shelf => <<"fav", h>> \in log')
      /\ HeatIsItsEvents' BY <1>1, <1>2, AwardKeeps DEF UserInv
<1>6. h \in shelf \ clash => h \in favorites BY <1>4 DEF UserInv, FavoriteInv
<1>7. FavoriteInv'
  <2>1. \A t : ~Gives(r, t)' /\ ~Takes(r, t)' BY <1>1, <1>3, AtAnother
  <2>2. \A t \in UserTracks : t # h => (<<"fav", t>> \in log' <=> <<"fav", t>> \in log) BY <1>5
  <2> QED BY <1>1, <1>3, <1>5, <1>6, <2>1, <2>2, FavoriteMoves
<1>8. TablesInv' /\ ApartInv' /\ ListsInv' /\ SpreadInv' /\ VersionsInv' /\ HistoryInv'
  <2>1. \A p \in Lists : \A t : <<p, t>> \in log' <=> <<p, t>> \in log
    <3>1. \A p \in Lists : p # "fav" BY UserConstants
    <3> QED BY <1>5, <3>1
  <2>2. h \in shelf \ clash => (h \in favorites' <=> ureq[r].kind \in {"favorite", "star"}) BY <1>1, <1>2, <1>6
  <2>3. favorites' \subseteq UserTracks BY <1>1 DEF UserInv, TablesInv
  <2> QED BY <1>1, <1>3, <1>5, <2>1, <2>2, <2>3, FavoriteStatement
<1> QED BY <1>3, <1>5, <1>7, <1>8 DEF UserInv

LEMMA DeleteFavoriteKeeps ==
  ASSUME UserInv, NEW r \in UserThreads, DeleteFavorite(r)
  PROVE  UserInv'
<1>0. PICK h : h = NextTrack(r) OBVIOUS
<1>1. ureq[r].pc = "delete" /\ OnFavorite(r) /\ h = NextTrack(r) /\ ureq[r] \in Requests
      /\ UNCHANGED <<shelf, playlist, log, heat, history, player, asked, starred, clash>>
      /\ favorites' = favorites \ {h}
  BY <1>0, UserRequestTypes DEF UserInv, DeleteFavorite, OnFavorite, NextTrack
<1>2. h \in UserTracks /\ ureq[r].kind \in {"unfavorite", "unstar"} BY <1>1, OnFavoriteFacts
<1>3. CASE ~Reverses(ureq[r].kind, h)
  <2>1. FavGoesOn(r) BY <1>1, <1>3 DEF DeleteFavorite, NextTrack
  <2>2. RequestsInv' /\ MovesOnly(r) /\ DoneWith(r) BY <1>1, <2>1, FavoriteGoesOn
  <2>3. favorites' = favorites /\ h \notin favorites BY <1>1, <1>3 DEF Reverses
  <2>4. FavoriteInv'
    <3>1. \A t : ~Gives(r, t)' /\ ~Takes(r, t)' BY <1>1, <2>2, AtAnother
    <3>2. h \in shelf \ clash => (h \in favorites' <=> <<"fav", h>> \in log') BY <1>1, <2>3, FavoriteBefore
    <3> QED BY <1>1, <2>2, <2>3, <3>1, <3>2, FavoriteMoves
  <2>5. TablesInv' /\ ApartInv' /\ ListsInv' /\ SpreadInv' /\ VersionsInv' /\ HistoryInv'
    BY <1>1, <1>2, <1>3, <2>2, <2>3, FavoriteStatement DEF UserInv, TablesInv
  <2> QED BY <1>1, <2>2, <2>4, <2>5 DEF UserInv, HeatIsItsEvents
<1>4. CASE Reverses(ureq[r].kind, h)
  <2> DEFINE q == [ureq[r] EXCEPT !.pc = "reverse"]
  <2>1. Becomes(r, q) BY <1>1, <1>4 DEF DeleteFavorite, NextTrack
  <2>2. q \in Requests BY <1>1 DEF Requests, UserPcs
  <2>3. q.pc = "reverse" /\ q.kind = ureq[r].kind /\ q.ids = ureq[r].ids /\ q.read = ureq[r].read /\ q.on = ureq[r].on
    BY <1>1 DEF Requests
  <2>4. FitsKind(q)
    <3>1. FitsKind(ureq[r]) /\ ureq[r].pc = "delete" BY <1>1, UserRequestTypes DEF UserInv
    <3> HIDE DEF q
    <3> QED BY <1>2, <2>3, <3>1, KindsDiffer DEF FitsKind
  <2>5. RequestsInv' /\ MovesOnly(r) /\ StaysAt(r, "reverse") BY <2>1, <2>2, <2>4, RequestMoves DEF UserInv, StaysAt
  <2>6. FavoriteInv'
    <3>1. \A t : t # h => ~Gives(r, t)' /\ ~Takes(r, t)' BY <1>1, <2>5, AtAnother
    <3>2. Takes(r, h)'
      <4>1. ureq'[r] = q BY <2>5 DEF StaysAt
      <4> HIDE DEF q
      <4> QED BY <1>1, <2>3, <4>1 DEF Takes, NextTrack
    <3>3. ~Gives(r, h)' BY <2>3, <2>5 DEF Gives, StaysAt
    <3>4. h \notin favorites' BY <1>1
    <3>5. \A t \in UserTracks : t # h =>
            /\ t \in favorites' <=> t \in favorites
            /\ <<"fav", t>> \in log' <=> <<"fav", t>> \in log
            /\ ~Gives(r, t)' /\ ~Takes(r, t)' BY <1>1, <3>1
    <3> QED BY <1>1, <2>5, <3>2, <3>3, <3>4, <3>5, FavoriteMoves
  <2>7. TablesInv' /\ ApartInv' /\ ListsInv' /\ SpreadInv' /\ VersionsInv' /\ HistoryInv'
    <3>1. favorites' \subseteq UserTracks /\ \A t : t # h => (t \in favorites' <=> t \in favorites)
      BY <1>1, <1>2 DEF UserInv, TablesInv
    <3>2. log' \subseteq ({"fav"} \cup Lists) \X UserTracks /\ heat' \in [UserTracks -> Int] BY <1>1 DEF UserInv, TablesInv
    <3> QED BY <1>1, <2>5, <3>1, <3>2, FavoriteStatement
  <2> QED BY <1>1, <2>5, <2>6, <2>7 DEF UserInv, HeatIsItsEvents
<1> QED BY <1>3, <1>4

LEMMA ReverseFavoriteKeeps ==
  ASSUME UserInv, NEW r \in UserThreads, ReverseFavorite(r)
  PROVE  UserInv'
<1>0. PICK h : h = NextTrack(r) OBVIOUS
<1>1. ureq[r].pc = "reverse" /\ OnFavorite(r) /\ h = NextTrack(r) /\ ReverseEvents({<<"fav", h>>}) /\ FavGoesOn(r)
      /\ UNCHANGED <<shelf, favorites, playlist, history, player, asked, starred, clash>>
  BY <1>0 DEF ReverseFavorite, OnFavorite, NextTrack
<1>2. h \in UserTracks /\ ureq[r].kind \in {"unfavorite", "unstar"} BY <1>1, OnFavoriteFacts
<1>3. RequestsInv' /\ MovesOnly(r) /\ DoneWith(r) BY <1>1, FavoriteGoesOn
<1>4. Takes(r, h) BY <1>1 DEF Takes, OnFavorite, NextTrack
<1>5. /\ log' \subseteq ({"fav"} \cup Lists) \X UserTracks /\ heat' \in [UserTracks -> Int]
      /\ log' = log \ {<<"fav", h>>} /\ HeatIsItsEvents' BY <1>1, ReverseKeeps DEF UserInv
<1>6. h \in shelf \ clash => h \notin favorites BY <1>4 DEF UserInv, FavoriteInv
<1>7. FavoriteInv'
  <2>1. \A t : ~Gives(r, t)' /\ ~Takes(r, t)' BY <1>1, <1>3, AtAnother
  <2>2. \A t \in UserTracks : t # h => (<<"fav", t>> \in log' <=> <<"fav", t>> \in log) BY <1>5
  <2> QED BY <1>1, <1>3, <1>5, <1>6, <2>1, <2>2, FavoriteMoves
<1>8. TablesInv' /\ ApartInv' /\ ListsInv' /\ SpreadInv' /\ VersionsInv' /\ HistoryInv'
  <2>1. \A p \in Lists : \A t : <<p, t>> \in log' <=> <<p, t>> \in log
    <3>1. \A p \in Lists : p # "fav" BY UserConstants
    <3> QED BY <1>5, <3>1
  <2>2. h \in shelf \ clash => (h \in favorites' <=> ureq[r].kind \in {"favorite", "star"}) BY <1>1, <1>2, <1>6
  <2>3. favorites' \subseteq UserTracks BY <1>1 DEF UserInv, TablesInv
  <2> QED BY <1>1, <1>3, <1>5, <2>1, <2>2, <2>3, FavoriteStatement
<1> QED BY <1>3, <1>5, <1>7, <1>8 DEF UserInv

------------------------------------------------------------------------------
(* The statements of a playlist.                                            *)

OnList(r) == ureq[r].pc \in {"read", "write", "award"} /\ ureq[r].kind \in ListKinds

LEMMA OnListFacts ==
  ASSUME UserInv, NEW r \in UserThreads, OnList(r)
  PROVE  /\ ureq[r].pc # "idle" /\ ureq[r].on \in Lists /\ Touched(ureq[r]) = {ureq[r].on} /\ Works(r, ureq[r].on)
         /\ ureq[r].kind \notin FavKinds /\ ureq[r] \in Requests /\ FitsKind(ureq[r])
         /\ \A t : ~Gives(r, t) /\ ~Takes(r, t)
         /\ ~OnVersions(r)
<1>1. ureq[r] \in Requests /\ FitsKind(ureq[r]) BY UserRequestTypes DEF UserInv
<1>2. ureq[r].pc # "idle" /\ ureq[r].pc # "reverse" /\ ureq[r].kind \in ListKinds /\ ureq[r].kind \notin FavKinds
  BY KindsDiffer DEF OnList
<1>3. ureq[r].on \in Lists BY <1>1, <1>2 DEF FitsKind
<1>4. Touched(ureq[r]) = {ureq[r].on} BY <1>2 DEF Touched
<1> QED BY <1>1, <1>2, <1>3, <1>4 DEF Works, Gives, Takes, OnVersions

\* Nobody else is at a list that two requests do not share.
LEMMA AloneAtList ==
  ASSUME UserInv, NEW r \in UserThreads, OnList(r), ureq[r].on \notin clash, NEW o \in UserThreads \ {r}, OnList(o)
  PROVE  ureq[o].on # ureq[r].on
<1>1. Works(r, ureq[r].on) /\ Works(o, ureq[o].on) /\ ureq[r].on \in Lists BY OnListFacts
<1> QED BY <1>1 DEF UserInv, ApartInv

\* What is common to all of them: favorites, versions and history are as they
\* were.
LEMMA ListStatement ==
  ASSUME UserInv, NEW r \in UserThreads, OnList(r), RequestsInv', MovesOnly(r),
         \/ ureq'[r].pc = "idle"
         \/ ureq'[r].pc \in {"write", "award"} /\ ureq'[r].kind = ureq[r].kind /\ ureq'[r].on = ureq[r].on,
         UNCHANGED <<shelf, favorites, history, starred, clash>>,
         \A t : <<"fav", t>> \in log' <=> <<"fav", t>> \in log
  PROVE  ApartInv' /\ FavoriteInv' /\ SpreadInv' /\ VersionsInv' /\ HistoryInv'
<1> USE DEF UserInv
<1>1. /\ ureq[r].pc # "idle" /\ Touched(ureq[r]) = {ureq[r].on} /\ ureq[r].kind \in ListKinds /\ ureq[r].kind \notin FavKinds
      /\ \A t : ~Gives(r, t) /\ ~Takes(r, t)
      /\ ~OnVersions(r) BY OnListFacts DEF OnList
<1>2. ureq'[r].pc = "idle" \/ ureq'[r].kind \notin FavKinds BY <1>1
<1>3. ApartInv'
  <2>1. \A x : Works(r, x)' => Works(r, x) BY <1>1 DEF Works, Touched
  <2> QED BY <2>1, ApartKept
<1>4. FavoriteInv'
  <2>1. ureq'[r].pc # "reverse" /\ (ureq'[r].pc = "award" => ureq'[r].kind \notin FavKinds) BY <1>1
  <2>2. \A o \in UserThreads, t \in shelf' \ clash' : (Gives(o, t)' <=> Gives(o, t)) /\ (Takes(o, t)' <=> Takes(o, t))
    BY <1>1, <2>1, OtherThanFavorites
  <2> QED BY <2>2, FavoriteKept
<1>5. SpreadInv' BY <1>2, SpreadKept
<1>6. VersionsInv'
  <2>1. TheVersions' = TheVersions BY DEF TheVersions
  <2>2. ~OnVersions(r)' BY <1>2 DEF OnVersions
  <2>3. \A o \in UserThreads : (OnVersions(o)' <=> OnVersions(o))
            /\ (OnVersions(o) => ureq'[o].ids = ureq[o].ids /\ ureq'[o].kind = ureq[o].kind)
    BY <1>1, <2>1, <2>2 DEF MovesOnly, OnVersions
  <2> QED BY <2>3, VersionsKept
<1>7. HistoryInv' BY HistoryKept
<1> QED BY <1>3, <1>4, <1>5, <1>6, <1>7

LEMMA ReadListKeeps ==
  ASSUME UserInv, NEW r \in UserThreads, ReadList(r)
  PROVE  UserInv'
<1> DEFINE p == ureq[r].on
           s == playlist[p]
           q == [ureq[r] EXCEPT !.read = s, !.pc = "write"]
<1> USE DEF UserInv
<1>1. ureq[r].pc = "read" /\ OnList(r) /\ UNCHANGED <<shelf, favorites, playlist, log, heat, history, player, asked, starred, clash>>
  BY UserRequestTypes DEF ReadList, OnList, FitsKind
<1>2. /\ p \in Lists /\ ureq[r] \in Requests /\ FitsKind(ureq[r]) /\ \A l : ~Rewards(r, l)
      /\ ureq[r].kind \in ListKinds
  BY <1>1, OnListFacts DEF Rewards, OnList
<1>3. TablesInv' /\ HeatIsItsEvents' BY <1>1 DEF TablesInv, HeatIsItsEvents
<1>4. CASE Becomes(r, Resting)
  <2>1. RequestsInv' /\ MovesOnly(r) /\ ureq'[r] = Resting BY <1>4, RestingFits, RequestMoves
  <2>2. ureq'[r].pc = "idle" BY <2>1 DEF Resting
  <2>3. ListsInv'
    <3>1. \A l \in Lists : \A o \in UserThreads : SameRequest(o, l)
      <4> TAKE l \in Lists
      <4>1. ~Rewards(r, l)' BY <2>2 DEF Rewards
      <4> QED BY <1>2, <2>1, <2>2, <4>1, OtherThanLists
    <3> QED BY <1>1, <3>1, ListsKept
  <2> QED BY <1>1, <1>3, <2>1, <2>2, <2>3, ListStatement
<1>5. CASE s # NoList /\ Becomes(r, q)
  <2>1. s \in UserSeqs /\ s \in Seq(UserTracks) /\ IsInjective(s) BY <1>2, <1>5, UserSeqsAreSeqs DEF TablesInv
  <2>2. q \in Requests BY <1>2, <2>1 DEF Requests, UserPcs
  <2>3. q.pc = "write" /\ q.kind = ureq[r].kind /\ q.on = p /\ q.read = s BY <1>2 DEF Requests
  <2> HIDE DEF q
  <2>4. FitsKind(q) BY <1>1, <1>2, <1>5, <2>1, <2>3, KindsDiffer DEF FitsKind
  <2>5. RequestsInv' /\ MovesOnly(r) /\ ureq'[r] = q BY <1>5, <2>2, <2>4, RequestMoves
  <2>6. ListsInv'
    <3>1. \A l \in Lists : \A o \in UserThreads : SameRequest(o, l)
      <4> TAKE l \in Lists
      <4>1. ~Rewards(r, l)' BY <2>3, <2>5 DEF Rewards
      <4> TAKE o \in UserThreads
      <4>2. CASE o = r BY <1>2, <2>3, <2>5, <4>1, <4>2 DEF SameRequest
      <4>3. CASE o # r BY <2>5, <4>3 DEF SameRequest, MovesOnly, Rewards
      <4> QED BY <4>2, <4>3
    <3> QED BY <1>1, <3>1, ListsKept
  <2> QED BY <1>1, <1>3, <2>3, <2>5, <2>6, ListStatement
<1> QED BY <1>4, <1>5 DEF ReadList

\* The list a request makes has no track twice.
LEMMA ChangedFacts ==
  ASSUME NEW k \in ListKinds, NEW s \in Seq(UserTracks), IsInjective(s), NEW ids \in Seq(UserTracks), NEW pos
  PROVE  Changed(k, s, ids, pos) \in UserSeqs /\ IsInjective(Changed(k, s, ids, pos))
<1> DEFINE a == AppendNew(s, ids)
<1>1. a \in Seq(UserTracks) /\ IsInjective(a) BY AppendNewFacts
<1>2. Imported(ids) \in Seq(UserTracks) /\ IsInjective(Imported(ids))
  <2>1. <<>> \in Seq(UserTracks) /\ IsInjective(<<>>) BY DEF IsInjective
  <2> QED BY <2>1, AppendNewFacts DEF Imported
<1>3. Without(s, ToSet(ids)) \in Seq(UserTracks) /\ IsInjective(Without(s, ToSet(ids))) BY WithoutFacts
<1>4. \A K \in SUBSET DOMAIN a : Picked(a, K) \in Seq(UserTracks) /\ IsInjective(Picked(a, K))
  <2> HIDE DEF a
  <2> TAKE K \in SUBSET DOMAIN a
  <2>1. \A i, j \in K : a[i] = a[j] => i = j BY <1>1 DEF IsInjective
  <2> QED BY <1>1, <2>1, PickedFacts
<1>5. DOMAIN a \ {pos} \in SUBSET DOMAIN a OBVIOUS
<1>6. k \in {"create", "addOne", "addMany", "remove", "update"} \/ k \in Drops BY DEF ListKinds, Drops
<1>7. Changed(k, s, ids, pos) \in {a, Imported(ids), Without(s, ToSet(ids)), Picked(a, DOMAIN a \ {pos}), s}
  BY <1>6 DEF Changed, Drops
<1> HIDE DEF a
<1>8. Changed(k, s, ids, pos) \in Seq(UserTracks) /\ IsInjective(Changed(k, s, ids, pos))
  BY <1>1, <1>2, <1>3, <1>4, <1>5, <1>7
<1> QED BY <1>8, ShortWithoutRepetition

LEMMA WriteListKeeps ==
  ASSUME UserInv, NEW r \in UserThreads, NEW pos, WriteList(r, pos)
  PROVE  UserInv'
<1> USE DEF UserInv
<1>1. /\ ureq[r].pc = "write" /\ OnList(r)
      /\ UNCHANGED <<shelf, favorites, log, heat, history, player, asked, starred, clash>>
  BY UserRequestTypes DEF WriteList, OnList, FitsKind
<1>2. PICK q, p, k : q = ureq[r] /\ p = q.on /\ k = q.kind OBVIOUS
<1>3. PICK base : base = IF k = "create" THEN <<>> ELSE q.read OBVIOUS
<1>4. PICK new : new = Changed(k, base, q.ids, pos) OBVIOUS
<1>5. PICK there : there = (playlist[p] # NoList) OBVIOUS
<1>6. /\ p \in Lists /\ q \in Requests /\ FitsKind(q) /\ k \in ListKinds /\ \A l : ~Rewards(r, l)
      /\ q.ids \in Seq(UserTracks) /\ q.read \in Seq(UserTracks)
  BY <1>1, <1>2, OnListFacts DEF Rewards, OnList, Requests
<1>7. base \in Seq(UserTracks) /\ IsInjective(base)
  <2>1. <<>> \in Seq(UserTracks) /\ IsInjective(<<>>) BY DEF IsInjective
  <2> QED BY <1>1, <1>2, <1>3, <1>6, <2>1 DEF FitsKind
<1>8. new \in UserSeqs /\ IsInjective(new) /\ new \in Seq(UserTracks) /\ new # NoList
  BY <1>4, <1>6, <1>7, ChangedFacts, UserSeqsAreSeqs
<1>9. playlist' = [playlist EXCEPT ![p] =
          CASE k = "create" -> IF there THEN @ ELSE new
            [] k \in Drops -> NoList
            [] OTHER -> IF there THEN new ELSE NoList]
  BY <1>2, <1>3, <1>4, <1>5 DEF WriteList
<1>10. playlist \in [Lists -> UserSeqs \cup {NoList}] BY DEF TablesInv
<1>11. /\ \A l \in Lists \ {p} : playlist'[l] = playlist[l]
       /\ k = "create" => playlist'[p] = IF there THEN playlist[p] ELSE new
       /\ k \in Drops => playlist'[p] = NoList
       /\ k # "create" /\ k \notin Drops => playlist'[p] = IF there THEN new ELSE NoList
       /\ playlist' \in [Lists -> UserSeqs \cup {NoList}]
  <2>1. "create" \notin Drops BY DEF Drops
  <2> QED BY <1>6, <1>8, <1>9, <1>10, <2>1
<1>12. TablesInv'
  <2>1. \A l \in Lists : playlist'[l] # NoList => playlist'[l] \in UserSeqs /\ IsInjective(playlist'[l])
    BY <1>6, <1>8, <1>11 DEF TablesInv
  <2> QED BY <1>1, <1>11, <2>1 DEF TablesInv
<1>13. HeatIsItsEvents' BY <1>1 DEF HeatIsItsEvents
<1>14. ASSUME p \notin clash
       PROVE  /\ k # "create" => playlist[p] = base /\ there
              /\ \A o \in UserThreads : ~Rewards(o, p)
              /\ \A t \in shelf : Holds(p, t) <=> <<p, t>> \in log
              /\ \A o \in UserThreads \ {r} : ~(OnList(o) /\ ureq[o].on = p)
  <2>1. k # "create" => playlist[p] = base /\ q.read # NoList BY <1>1, <1>2, <1>3, <1>6, <1>14 DEF ListsInv, FitsKind
  <2>2. \A o \in UserThreads \ {r} : ~(OnList(o) /\ ureq[o].on = p) BY <1>1, <1>2, <1>14, AloneAtList
  <2>3. \A o \in UserThreads : ~Rewards(o, p) BY <1>6, <2>2 DEF Rewards, OnList
  <2>4. k # "create" => there BY <1>3, <1>5, <2>1
  <2>5. \A t \in shelf : Holds(p, t) <=> <<p, t>> \in log BY <1>6, <1>14, <2>3 DEF ListsInv
  <2> QED BY <2>1, <2>2, <2>3, <2>4, <2>5
<1>15. CASE EndsAtWrite(k, there)
  <2>1. Becomes(r, Resting) BY <1>2, <1>3, <1>4, <1>5, <1>15 DEF WriteList
  <2>2. RequestsInv' /\ MovesOnly(r) /\ ureq'[r] = Resting BY <2>1, RestingFits, RequestMoves
  <2>3. ureq'[r].pc = "idle" BY <2>2 DEF Resting
  <2>4. ListsInv'
    <3>1. ASSUME NEW l \in Lists \ clash'
          PROVE  /\ playlist'[l] = playlist[l]
                 /\ \A t \in shelf' : <<l, t>> \in log' <=> <<l, t>> \in log
                 /\ \A o \in UserThreads : SameRequest(o, l)
      <4>1. l = p => there /\ k = "create" BY <1>1, <1>14, <1>15, <3>1 DEF EndsAtWrite
      <4>2. playlist'[l] = playlist[l] BY <1>11, <4>1
      <4>3. ~Rewards(r, l)' BY <2>3 DEF Rewards
      <4>4. \A o \in UserThreads : SameRequest(o, l) BY <1>6, <2>2, <2>3, <4>3, OtherThanLists
      <4> QED BY <1>1, <4>2, <4>4
    <3> QED BY <1>1, <3>1, ListsKept
  <2> QED BY <1>1, <1>12, <1>13, <2>2, <2>3, <2>4, ListStatement
<1>16. CASE ~EndsAtWrite(k, there)
  <2>1. PICK add, sub : add = (IF k \in Drops THEN {} ELSE ToSet(new) \ ToSet(base)) /\ sub = Withdrawn(k, base, new) OBVIOUS
  <2>2. PICK n : n = [q EXCEPT !.pc = "award", !.add = add, !.sub = sub] OBVIOUS
  <2>3. Becomes(r, n) BY <1>2, <1>3, <1>4, <1>5, <1>16, <2>1, <2>2 DEF WriteList
  <2>4. /\ n.pc = "award" /\ n.kind = k /\ n.on = p /\ n.add = add /\ n.sub = sub /\ n.read = q.read /\ n.ids = q.ids
    BY <1>2, <1>6, <2>2 DEF Requests
  <2>5. ToSet(new) \subseteq UserTracks /\ ToSet(base) \subseteq UserTracks BY <1>7, <1>8, EntriesAreTracks
  <2>6. add \subseteq UserTracks /\ sub \subseteq UserTracks /\ sub = (IF k \in Drops THEN ToSet(base) ELSE ToSet(base) \ ToSet(new))
    BY <2>1, <2>5 DEF Withdrawn
  <2>7. n \in Requests BY <1>6, <2>2, <2>6 DEF Requests, UserPcs
  <2>8. FitsKind(n) BY <1>6, <2>4, KindsDiffer DEF FitsKind
  <2>9. RequestsInv' /\ MovesOnly(r) /\ ureq'[r] = n BY <2>3, <2>7, <2>8, RequestMoves
  <2>10. ListsInv'
    <3> SUFFICES ASSUME NEW l \in Lists \ clash'
                 PROVE  /\ \A o \in UserThreads :
                            /\ ureq'[o].pc = "write" /\ ureq'[o].kind # "create" /\ ureq'[o].on = l
                                 => playlist'[l] = ureq'[o].read
                            /\ Rewards(o, l)' => \A t \in shelf' :
                                /\ t \in ureq'[o].add => Holds(l, t)'
                                /\ t \in ureq'[o].sub => ~Holds(l, t)'
                                /\ t \notin ureq'[o].add \cup ureq'[o].sub => (Holds(l, t)' <=> <<l, t>> \in log')
                        /\ (\A o \in UserThreads : ~Rewards(o, l)') => \A t \in shelf' : Holds(l, t)' <=> <<l, t>> \in log'
      BY DEF ListsInv
    <3>1. CASE l # p
      <4>1. \A o \in UserThreads : SameRequest(o, l)
        BY <1>6, <2>4, <2>9, <3>1 DEF SameRequest, MovesOnly, Rewards
      <4>2. playlist'[l] = playlist[l] BY <1>11, <3>1
      <4>3. l \in Lists \ clash /\ \A t \in shelf' : t \in shelf /\ (Holds(l, t)' <=> Holds(l, t)) BY <1>1, <4>2 DEF Holds
      <4>4. \A o \in UserThreads : Rewards(o, l)' <=> Rewards(o, l) BY <4>1 DEF SameRequest
      <4>5. \A o \in UserThreads : ureq'[o].pc = "write" /\ ureq'[o].kind # "create" /\ ureq'[o].on = l
                                     => playlist'[l] = ureq'[o].read BY <4>1, <4>2, <4>3 DEF ListsInv, SameRequest
      <4>6. ASSUME NEW o \in UserThreads, Rewards(o, l)', NEW t \in shelf'
            PROVE  /\ t \in ureq'[o].add => Holds(l, t)'
                   /\ t \in ureq'[o].sub => ~Holds(l, t)'
                   /\ t \notin ureq'[o].add \cup ureq'[o].sub => (Holds(l, t)' <=> <<l, t>> \in log')
        <5>1. Rewards(o, l) /\ ureq'[o].add = ureq[o].add /\ ureq'[o].sub = ureq[o].sub
          BY <4>1, <4>6 DEF SameRequest
        <5> QED BY <1>1, <4>3, <4>6, <5>1 DEF ListsInv
      <4>7. (\A o \in UserThreads : ~Rewards(o, l)') => \A t \in shelf' : Holds(l, t)' <=> <<l, t>> \in log'
        BY <1>1, <4>3, <4>4 DEF ListsInv
      <4> QED BY <4>5, <4>6, <4>7
    <3>2. CASE l = p
      <4>1. p \notin clash BY <1>1, <3>2
      <4>2. Rewards(r, p)' BY <1>6, <2>4, <2>9 DEF Rewards
      <4>3. \A o \in UserThreads \ {r} : ~Rewards(o, p)' /\ ~(ureq'[o].pc = "write" /\ ureq'[o].kind # "create" /\ ureq'[o].on = p)
        <5> TAKE o \in UserThreads \ {r}
        <5>1. ureq'[o] = ureq[o] /\ FitsKind(ureq[o]) BY <2>9, UserRequestTypes DEF MovesOnly
        <5>2. ~(OnList(o) /\ ureq[o].on = p) BY <1>14, <4>1
        <5> QED BY <5>1, <5>2 DEF Rewards, OnList, FitsKind
      <4>4. \A t \in shelf : Holds(p, t) <=> <<p, t>> \in log BY <1>14, <4>1
      <4>5. ASSUME NEW t \in shelf'
            PROVE  /\ t \in add => Holds(p, t)'
                   /\ t \in sub => ~Holds(p, t)'
                   /\ t \notin add \cup sub => (Holds(p, t)' <=> <<p, t>> \in log')
        <5>1. CASE k = "create"
          <6>1. ~there BY <1>16, <5>1 DEF EndsAtWrite
          <6>2. ~Holds(p, t) BY <1>5, <6>1 DEF Holds
          <6>3. playlist'[p] = new BY <1>11, <5>1, <6>1
          <6>4. Holds(p, t)' <=> t \in ToSet(new) BY <1>2, <1>6, <1>8, <6>3 DEF Holds
          <6>5. k \notin Drops /\ ToSet(base) = {} BY <1>3, <5>1 DEF Drops, ToSet
          <6> QED BY <1>1, <2>1, <2>6, <4>4, <6>2, <6>4, <6>5
        <5>2. CASE k \in Drops
          <6>1. ~Holds(p, t)' BY <1>11, <5>2 DEF Holds
          <6>2. playlist[p] = base /\ k # "create" BY <1>14, <4>1, <5>2 DEF Drops
          <6>3. Holds(p, t) => t \in ToSet(base) BY <6>2 DEF Holds
          <6> QED BY <1>1, <2>1, <2>6, <4>4, <5>2, <6>1, <6>3
        <5>3. CASE k # "create" /\ k \notin Drops
          <6>1. there /\ playlist[p] = base BY <1>14, <4>1, <5>3
          <6>2. playlist'[p] = new BY <1>11, <5>3, <6>1
          <6>3. Holds(p, t)' <=> t \in ToSet(new) BY <1>8, <6>2 DEF Holds
          <6>4. Holds(p, t) <=> t \in ToSet(base) BY <1>5, <6>1 DEF Holds
          <6> QED BY <1>1, <2>1, <2>6, <4>4, <5>3, <6>3, <6>4
        <5> QED BY <5>1, <5>2, <5>3
      <4>6. ureq'[r].pc # "write" /\ ureq'[r].add = add /\ ureq'[r].sub = sub BY <2>4, <2>9
      <4> QED BY <3>2, <4>2, <4>3, <4>5, <4>6
    <3> QED BY <3>1, <3>2
  <2> QED BY <1>1, <1>2, <1>12, <1>13, <2>4, <2>9, <2>10, ListStatement
<1> QED BY <1>15, <1>16

\* At the list of the request everything is as the statement leaves it, at the
\* others as it was.
LEMMA ListMoves ==
  ASSUME UserInv, NEW r \in UserThreads, OnList(r), NEW p, p = ureq[r].on, MovesOnly(r),
         UNCHANGED <<shelf, playlist, clash>>,
         \A l \in Lists \ {p} : \A t : <<l, t>> \in log' <=> <<l, t>> \in log,
         ureq[r].pc = "award",
         ureq'[r].pc \in {"idle", "award"}, ureq'[r].pc = "award" => ureq'[r].on = p /\ ureq'[r].kind = ureq[r].kind,
         p \notin clash => \A t \in shelf :
            IF ureq'[r].pc = "award"
            THEN /\ t \in ureq'[r].add => Holds(p, t)
                 /\ t \in ureq'[r].sub => ~Holds(p, t)
                 /\ t \notin ureq'[r].add \cup ureq'[r].sub => (Holds(p, t) <=> <<p, t>> \in log')
            ELSE Holds(p, t) <=> <<p, t>> \in log'
  PROVE  ListsInv'
<1> USE DEF UserInv
<1> SUFFICES ASSUME NEW l \in Lists \ clash'
             PROVE  /\ \A o \in UserThreads :
                        /\ ureq'[o].pc = "write" /\ ureq'[o].kind # "create" /\ ureq'[o].on = l
                             => playlist'[l] = ureq'[o].read
                        /\ Rewards(o, l)' => \A t \in shelf' :
                            /\ t \in ureq'[o].add => Holds(l, t)'
                            /\ t \in ureq'[o].sub => ~Holds(l, t)'
                            /\ t \notin ureq'[o].add \cup ureq'[o].sub => (Holds(l, t)' <=> <<l, t>> \in log')
                    /\ (\A o \in UserThreads : ~Rewards(o, l)') => \A t \in shelf' : Holds(l, t)' <=> <<l, t>> \in log'
  BY DEF ListsInv
<1>1. \A t : Holds(l, t)' <=> Holds(l, t) BY DEF Holds
<1>2. l \in Lists \ clash OBVIOUS
<1>3. \A o \in UserThreads \ {r} : ureq'[o] = ureq[o] /\ (Rewards(o, l)' <=> Rewards(o, l)) BY DEF MovesOnly, Rewards
<1>4. ureq[r].kind \in ListKinds BY DEF OnList
<1>5. CASE l # p
  <2>1. ~Rewards(r, l) /\ ~Rewards(r, l)' BY <1>5 DEF Rewards
  <2>2. \A t : <<l, t>> \in log' <=> <<l, t>> \in log BY <1>5
  <2>3. /\ \A o \in UserThreads :
            /\ ureq[o].pc = "write" /\ ureq[o].kind # "create" /\ ureq[o].on = l => playlist[l] = ureq[o].read
            /\ Rewards(o, l) => \A t \in shelf :
                /\ t \in ureq[o].add => Holds(l, t)
                /\ t \in ureq[o].sub => ~Holds(l, t)
                /\ t \notin ureq[o].add \cup ureq[o].sub => (Holds(l, t) <=> <<l, t>> \in log)
        /\ (\A o \in UserThreads : ~Rewards(o, l)) => \A t \in shelf : Holds(l, t) <=> <<l, t>> \in log
    BY <1>2 DEF ListsInv
  <2> QED BY <1>1, <1>3, <2>1, <2>2, <2>3
<1>6. CASE l = p
  <2>1. \A o \in UserThreads \ {r} : ~Rewards(o, l)' /\ ~(ureq'[o].pc = "write" /\ ureq'[o].kind # "create" /\ ureq'[o].on = l)
    <3> TAKE o \in UserThreads \ {r}
    <3>1. ureq'[o] = ureq[o] /\ FitsKind(ureq[o]) BY UserRequestTypes DEF MovesOnly
    <3>2. ~(OnList(o) /\ ureq[o].on = p) BY <1>2, <1>6, AloneAtList
    <3> QED BY <1>6, <3>1, <3>2 DEF Rewards, OnList, FitsKind
  <2>2. Rewards(r, l)' <=> ureq'[r].pc = "award" BY <1>4, <1>6 DEF Rewards
  <2>3. ureq'[r].pc # "write" OBVIOUS
  <2>4. \A t \in shelf :
            IF ureq'[r].pc = "award"
            THEN /\ t \in ureq'[r].add => Holds(l, t)
                 /\ t \in ureq'[r].sub => ~Holds(l, t)
                 /\ t \notin ureq'[r].add \cup ureq'[r].sub => (Holds(l, t) <=> <<l, t>> \in log')
            ELSE Holds(l, t) <=> <<l, t>> \in log'
    BY <1>2, <1>6
  <2> QED BY <1>1, <2>1, <2>2, <2>3, <2>4
<1> QED BY <1>5, <1>6

\* Before the statement.
LEMMA ListBefore ==
  ASSUME UserInv, NEW r \in UserThreads, OnList(r), ureq[r].pc = "award", ureq[r].on \notin clash, NEW t \in shelf
  PROVE  /\ t \in ureq[r].add => Holds(ureq[r].on, t)
         /\ t \in ureq[r].sub => ~Holds(ureq[r].on, t)
         /\ t \notin ureq[r].add \cup ureq[r].sub => (Holds(ureq[r].on, t) <=> <<ureq[r].on, t>> \in log)
<1>1. ureq[r].on \in Lists BY OnListFacts
<1>2. Rewards(r, ureq[r].on) BY DEF Rewards, OnList
<1> QED BY <1>1, <1>2 DEF UserInv, ListsInv

LEMMA AwardListTrackKeeps ==
  ASSUME UserInv, NEW r \in UserThreads, NEW t \in UserTracks, AwardListTrack(r, t)
  PROVE  UserInv'
<1> USE DEF UserInv
<1>0. PICK p, q : p = ureq[r].on /\ q = [ureq[r] EXCEPT !.add = @ \ {t}] OBVIOUS
<1>1. /\ ureq[r].pc = "award" /\ OnList(r) /\ t \in ureq[r].add /\ AwardEvent(<<p, t>>) /\ Becomes(r, q)
      /\ UNCHANGED <<shelf, favorites, playlist, history, player, asked, starred, clash>>
  BY <1>0 DEF AwardListTrack, OnList
<1>2. p \in Lists /\ ureq[r] \in Requests /\ FitsKind(ureq[r]) BY <1>0, <1>1, OnListFacts
<1>3. /\ q.pc = "award" /\ q.kind = ureq[r].kind /\ q.on = p /\ q.add = ureq[r].add \ {t} /\ q.sub = ureq[r].sub
      /\ q \in Requests /\ q.ids = ureq[r].ids /\ q.read = ureq[r].read
  BY <1>0, <1>1, <1>2 DEF Requests
<1>4. FitsKind(q) BY <1>1, <1>2, <1>3 DEF FitsKind
<1>5. RequestsInv' /\ MovesOnly(r) /\ ureq'[r] = q BY <1>1, <1>3, <1>4, RequestMoves
<1>6. /\ log' \subseteq ({"fav"} \cup Lists) \X UserTracks /\ heat' \in [UserTracks -> Int]
      /\ log \subseteq log' /\ log' \subseteq log \cup {<<p, t>>} /\ (t \in shelf => <<p, t>> \in log')
      /\ HeatIsItsEvents' BY <1>1, <1>2, AwardKeeps
<1>7. TablesInv' BY <1>1, <1>6 DEF TablesInv
<1>8. ListsInv'
  <2>1. \A l \in Lists \ {p} : \A u : <<l, u>> \in log' <=> <<l, u>> \in log BY <1>6
  <2>2. ASSUME p \notin clash, NEW u \in shelf
        PROVE  /\ u \in q.add => Holds(p, u)
               /\ u \in q.sub => ~Holds(p, u)
               /\ u \notin q.add \cup q.sub => (Holds(p, u) <=> <<p, u>> \in log')
    <3>1. /\ u \in ureq[r].add => Holds(p, u)
          /\ u \in ureq[r].sub => ~Holds(p, u)
          /\ u \notin ureq[r].add \cup ureq[r].sub => (Holds(p, u) <=> <<p, u>> \in log)
      BY <1>0, <1>1, <2>2, ListBefore
    <3>2. u # t => (<<p, u>> \in log' <=> <<p, u>> \in log) BY <1>6
    <3> QED BY <1>1, <1>3, <1>6, <3>1, <3>2
  <2> QED BY <1>0, <1>1, <1>3, <1>5, <2>1, <2>2, ListMoves
<1>9. \A u : <<"fav", u>> \in log' <=> <<"fav", u>> \in log BY <1>2, <1>6, UserConstants
<1> QED BY <1>0, <1>1, <1>3, <1>5, <1>6, <1>7, <1>8, <1>9, ListStatement

LEMMA ReverseListTracksKeeps ==
  ASSUME UserInv, NEW r \in UserThreads, ReverseListTracks(r)
  PROVE  UserInv'
<1> USE DEF UserInv
<1>0. PICK p, es : p = ureq[r].on /\ es = {<<p, t>> : t \in ureq[r].sub} OBVIOUS
<1>1. /\ ureq[r].pc = "award" /\ OnList(r) /\ ureq[r].add = {} /\ ReverseEvents(es) /\ Becomes(r, Resting)
      /\ UNCHANGED <<shelf, favorites, playlist, history, player, asked, starred, clash>>
  BY <1>0 DEF ReverseListTracks, OnList
<1>2. p \in Lists BY <1>0, <1>1, OnListFacts
<1>3. RequestsInv' /\ MovesOnly(r) /\ ureq'[r] = Resting /\ ureq'[r].pc = "idle"
  BY <1>1, RestingFits, RequestMoves DEF Resting
<1>4. /\ log' \subseteq ({"fav"} \cup Lists) \X UserTracks /\ heat' \in [UserTracks -> Int]
      /\ log' = log \ es /\ HeatIsItsEvents' BY <1>1, ReverseKeeps
<1>5. TablesInv' BY <1>1, <1>4 DEF TablesInv
<1>6. \A k, u : k # p => (<<k, u>> \in log' <=> <<k, u>> \in log) BY <1>0, <1>4
<1>7. ListsInv'
  <2>1. ASSUME p \notin clash, NEW u \in shelf PROVE Holds(p, u) <=> <<p, u>> \in log'
    <3>1. /\ u \in ureq[r].sub => ~Holds(p, u)
          /\ u \notin ureq[r].sub => (Holds(p, u) <=> <<p, u>> \in log)
      BY <1>0, <1>1, <2>1, ListBefore
    <3>2. <<p, u>> \in es <=> u \in ureq[r].sub BY <1>0
    <3> QED BY <1>4, <3>1, <3>2
  <2> QED BY <1>0, <1>1, <1>3, <1>6, <2>1, ListMoves
<1>8. \A u : <<"fav", u>> \in log' <=> <<"fav", u>> \in log BY <1>2, <1>6, UserConstants
<1> QED BY <1>1, <1>3, <1>4, <1>5, <1>7, <1>8, ListStatement

------------------------------------------------------------------------------
(* History and queue, and what happens to a request.                        *)

\* Favorites and playlists are as they were.
LEMMA HistoryStatement ==
  ASSUME UserInv, NEW r \in UserThreads, ureq[r].pc \in {"erase", "row"}, RequestsInv', MovesOnly(r),
         \/ ureq'[r].pc = "idle"
         \/ ureq'[r].pc = "row" /\ ureq'[r].kind = ureq[r].kind /\ ureq'[r].read = ureq[r].read,
         UNCHANGED <<shelf, favorites, playlist, log, heat, starred, clash>>
  PROVE  ApartInv' /\ HeatIsItsEvents' /\ FavoriteInv' /\ ListsInv' /\ SpreadInv' /\ VersionsInv'
<1> USE DEF UserInv
<1>1. ureq[r].kind = "played" /\ ureq[r].kind \notin FavKinds \cup ListKinds BY UserRequestTypes, KindsDiffer DEF FitsKind
<1>2. ApartInv'
  <2>1. \A x : Works(r, x)' => Works(r, x) BY <1>1 DEF Works, Touched
  <2> QED BY <2>1, ApartKept
<1>3. HeatIsItsEvents' BY DEF HeatIsItsEvents
<1>4. FavoriteInv'
  <2>1. \A t : ~Gives(r, t) /\ ~Takes(r, t) BY <1>1 DEF Gives, Takes
  <2>2. \A o \in UserThreads, t \in shelf' \ clash' : (Gives(o, t)' <=> Gives(o, t)) /\ (Takes(o, t)' <=> Takes(o, t))
    BY <2>1, OtherThanFavorites
  <2> QED BY <2>2, FavoriteKept
<1>5. ListsInv'
  <2>1. \A p \in Lists : ~Rewards(r, p) /\ ~Rewards(r, p)' BY DEF Rewards
  <2>2. ureq'[r].pc # "write" OBVIOUS
  <2>3. \A p \in Lists : \A o \in UserThreads : SameRequest(o, p) BY <2>1, <2>2, OtherThanLists
  <2> QED BY <2>3, ListsKept
<1>6. SpreadInv' BY <1>1, SpreadKept
<1>7. VersionsInv'
  <2>1. ~OnVersions(r) /\ ~OnVersions(r)' BY <1>1 DEF OnVersions
  <2>2. TheVersions' = TheVersions BY DEF TheVersions
  <2>3. \A o \in UserThreads : (OnVersions(o)' <=> OnVersions(o))
            /\ (OnVersions(o) => ureq'[o].ids = ureq[o].ids /\ ureq'[o].kind = ureq[o].kind)
    BY <2>1, <2>2 DEF MovesOnly, OnVersions
  <2> QED BY <2>3, VersionsKept
<1> QED BY <1>2, <1>3, <1>4, <1>5, <1>6, <1>7

LEMMA AtHistory ==
  ASSUME UserInv, NEW r \in UserThreads, ureq[r].pc \in {"erase", "row"}
  PROVE  Head(ureq[r].ids) \in UserTracks /\ Works(r, Head(ureq[r].ids))
<1>1. FitsKind(ureq[r]) /\ ureq[r].ids \in Seq(UserTracks) BY UserRequestTypes DEF UserInv
<1>2. ureq[r].kind = "played" /\ ureq[r].ids # <<>> /\ ToSet(ureq[r].ids) \subseteq ToSet(ureq[r].read) BY <1>1 DEF FitsKind
<1>3. Head(ureq[r].ids) \in UserTracks /\ Head(ureq[r].ids) \in ToSet(ureq[r].ids) BY <1>1, <1>2, HeadAndTail
<1> QED BY <1>2, <1>3, KindsDiffer DEF Works, Touched

LEMMA EraseHistoryKeeps ==
  ASSUME UserInv, NEW r \in UserThreads, EraseHistory(r)
  PROVE  UserInv'
<1> USE DEF UserInv
<1>0. PICK h, q : h = Head(ureq[r].ids) /\ q = [ureq[r] EXCEPT !.pc = "row"] OBVIOUS
<1>1. /\ ureq[r].pc = "erase" /\ history' = [history EXCEPT ![h] = 0] /\ Becomes(r, q)
      /\ UNCHANGED <<shelf, favorites, playlist, log, heat, player, asked, starred, clash>>
  BY <1>0 DEF EraseHistory
<1>2. h \in UserTracks /\ ureq[r] \in Requests /\ FitsKind(ureq[r]) /\ history \in [UserTracks -> Nat]
  BY <1>0, <1>1, AtHistory, UserRequestTypes DEF TablesInv
<1>3. q \in Requests /\ q.pc = "row" /\ q.kind = ureq[r].kind /\ q.ids = ureq[r].ids /\ q.read = ureq[r].read /\ q.on = ureq[r].on
  BY <1>0, <1>2 DEF Requests, UserPcs
<1>4. FitsKind(q) BY <1>1, <1>2, <1>3, KindsDiffer DEF FitsKind
<1>5. RequestsInv' /\ MovesOnly(r) /\ ureq'[r] = q BY <1>1, <1>3, <1>4, RequestMoves
<1>6. history'[h] = 0 /\ history' \in [UserTracks -> Nat] /\ \A t \in UserTracks \ {h} : history'[t] = history[t]
  BY <1>1, <1>2
<1>7. TablesInv' BY <1>1, <1>6 DEF TablesInv
<1>8. HistoryInv'
  <2> SUFFICES ASSUME NEW t \in UserTracks \ clash'
               PROVE  /\ history'[t] <= 1
                      /\ \A o \in UserThreads : ureq'[o].pc = "row" /\ Head(ureq'[o].ids) = t => history'[t] = 0
    BY DEF HistoryInv
  <2>1. CASE t = h BY <1>6, <2>1
  <2>2. CASE t # h
    <3>1. Head(ureq'[r].ids) # t BY <1>0, <1>3, <1>5, <2>2
    <3> QED BY <1>1, <1>5, <1>6, <2>2, <3>1 DEF HistoryInv, MovesOnly
  <2> QED BY <2>1, <2>2
<1> QED BY <1>1, <1>3, <1>5, <1>7, <1>8, HistoryStatement

LEMMA InsertHistoryKeeps ==
  ASSUME UserInv, NEW r \in UserThreads, InsertHistory(r)
  PROVE  UserInv'
<1> USE DEF UserInv
<1>0. PICK h : h = Head(ureq[r].ids) OBVIOUS
<1>1. /\ ureq[r].pc = "row" /\ history' = [history EXCEPT ![h] = @ + 1] /\ Becomes(r, Resting)
      /\ UNCHANGED <<shelf, favorites, playlist, log, heat, player, asked, starred, clash>>
  BY <1>0 DEF InsertHistory
<1>2. h \in UserTracks /\ Works(r, h) /\ history \in [UserTracks -> Nat]
  BY <1>0, <1>1, AtHistory DEF TablesInv
<1>3. RequestsInv' /\ MovesOnly(r) /\ ureq'[r] = Resting /\ ureq'[r].pc = "idle"
  BY <1>1, RestingFits, RequestMoves DEF Resting
<1>4. history'[h] = history[h] + 1 /\ history' \in [UserTracks -> Nat] /\ \A t \in UserTracks \ {h} : history'[t] = history[t]
  BY <1>1, <1>2
<1>5. TablesInv' BY <1>1, <1>4 DEF TablesInv
<1>6. HistoryInv'
  <2> SUFFICES ASSUME NEW t \in UserTracks \ clash'
               PROVE  /\ history'[t] <= 1
                      /\ \A o \in UserThreads : ureq'[o].pc = "row" /\ Head(ureq'[o].ids) = t => history'[t] = 0
    BY DEF HistoryInv
  <2>1. CASE t = h
    <3>1. history[h] = 0 BY <1>0, <1>1, <1>2, <2>1 DEF HistoryInv
    <3>2. \A o \in UserThreads \ {r} : ~(ureq[o].pc = "row" /\ Head(ureq[o].ids) = h)
      <4> SUFFICES ASSUME NEW o \in UserThreads \ {r}, ureq[o].pc = "row", Head(ureq[o].ids) = h PROVE FALSE OBVIOUS
      <4>1. Works(o, h) BY AtHistory
      <4> QED BY <1>1, <1>2, <2>1, <4>1 DEF ApartInv
    <3> QED BY <1>3, <1>4, <2>1, <3>1, <3>2 DEF MovesOnly
  <2>2. CASE t # h BY <1>1, <1>3, <1>4, <2>2 DEF HistoryInv, MovesOnly
  <2> QED BY <2>1, <2>2
<1> QED BY <1>1, <1>3, <1>5, <1>6, HistoryStatement

\* No request moves, and no table it works on.
LEMMA NothingMoves ==
  ASSUME UserInv, UNCHANGED <<shelf, favorites, playlist, log, heat, ureq, starred, clash>>
  PROVE  RequestsInv' /\ ApartInv' /\ HeatIsItsEvents' /\ FavoriteInv' /\ ListsInv' /\ SpreadInv' /\ VersionsInv'
<1> USE DEF UserInv
<1>1. RequestsInv' BY DEF RequestsInv
<1>2. \A r \in UserThreads : \A x : Works(r, x)' <=> Works(r, x) BY DEF Works, Touched
<1>3. ApartInv' BY <1>2, Zenon DEF ApartInv
<1>4. HeatIsItsEvents' BY DEF HeatIsItsEvents
<1>5. FavoriteInv' BY DEF FavoriteInv, Gives, Takes
<1>6. ListsInv'
  <2>1. \A p \in Lists : \A o \in UserThreads : SameRequest(o, p) BY DEF SameRequest, Rewards
  <2> QED BY <2>1, ListsKept
<1>7. TheVersions' = TheVersions /\ \A o \in UserThreads : OnVersions(o)' <=> OnVersions(o) BY DEF TheVersions, OnVersions
<1>8. SpreadInv' BY <1>7 DEF SpreadInv
<1>9. VersionsInv' BY <1>7, VersionsKept
<1> QED BY <1>1, <1>3, <1>4, <1>5, <1>6, <1>8, <1>9

LEMMA RemoveHistoryItemsKeeps ==
  ASSUME UserInv, NEW ts, RemoveHistoryItems(ts)
  PROVE  UserInv'
<1> USE DEF UserInv
<1>1. /\ asked < MaxUserRequests /\ asked' = asked + 1 /\ history' = [t \in UserTracks |-> IF t \in ts THEN 0 ELSE history[t]]
      /\ UNCHANGED <<shelf, favorites, playlist, log, heat, player, ureq, starred, clash>>
  BY DEF RemoveHistoryItems
<1>2. asked' \in 0..MaxUserRequests BY <1>1, UserConstants DEF TablesInv
<1>3. history' \in [UserTracks -> Nat] /\ \A t \in UserTracks : history'[t] = 0 \/ history'[t] = history[t] BY <1>1 DEF TablesInv
<1>4. TablesInv' BY <1>1, <1>2, <1>3 DEF TablesInv
<1>5. HistoryInv' BY <1>1, <1>3 DEF HistoryInv
<1> QED BY <1>1, <1>4, <1>5, NothingMoves

LEMMA SaveQueueKeeps ==
  ASSUME UserInv, NEW s \in UserSeqs, NEW i \in Nat, SaveQueue(s, i)
  PROVE  UserInv'
<1> USE DEF UserInv
<1>1. /\ asked < MaxUserRequests /\ asked' = asked + 1 /\ player' = [ids |-> s, idx |-> i]
      /\ UNCHANGED <<shelf, favorites, playlist, log, heat, history, ureq, starred, clash>>
  BY DEF SaveQueue
<1>2. asked' \in 0..MaxUserRequests BY <1>1, UserConstants DEF TablesInv
<1>3. TablesInv' BY <1>1, <1>2 DEF TablesInv
<1>4. HistoryInv' BY <1>1 DEF HistoryInv
<1> QED BY <1>1, <1>3, <1>4, NothingMoves

LEMMA TrackVanishesKeeps ==
  ASSUME UserInv, NEW t \in UserTracks, TrackVanishes(t)
  PROVE  UserInv'
<1> USE DEF UserInv
<1>1. /\ shelf' = shelf \ {t} /\ log' = {e \in log : e[2] # t} /\ heat' = [heat EXCEPT ![t] = 0]
      /\ UNCHANGED <<favorites, playlist, history, player, ureq, asked, starred, clash>>
  BY DEF TrackVanishes
<1>2. \A k, u : u # t => (<<k, u>> \in log' <=> <<k, u>> \in log)
  <2>1. \A k, u : <<k, u>>[2] = u OBVIOUS
  <2> QED BY <1>1, <2>1
<1>3. heat' \in [UserTracks -> Int] /\ \A u \in UserTracks \ {t} : heat'[u] = heat[u] BY <1>1 DEF TablesInv
<1>4. TablesInv' BY <1>1, <1>3 DEF TablesInv
<1>5. RequestsInv' /\ HistoryInv' BY <1>1 DEF RequestsInv, HistoryInv
<1>6. ApartInv'
  <2>1. \A r \in UserThreads : \A x : Works(r, x)' <=> Works(r, x) BY <1>1 DEF Works, Touched
  <2> QED BY <1>1, <2>1, Zenon DEF ApartInv
<1>7. HeatIsItsEvents'
  <2> SUFFICES ASSUME NEW u \in shelf' PROVE heat'[u] = HeatOf(u, log') BY DEF HeatIsItsEvents
  <2>1. u \in shelf /\ u # t /\ u \in UserTracks BY <1>1 DEF TablesInv
  <2>2. HeatOf(u, log') = HeatOf(u, log)
    <3>1. PICK now, before : now = log' /\ before = log OBVIOUS
    <3>2. ListsWith(u, now) = ListsWith(u, before) /\ (<<"fav", u>> \in now <=> <<"fav", u>> \in before)
      BY <1>2, <2>1, <3>1 DEF ListsWith
    <3>3. HeatOf(u, now) = HeatOf(u, before) BY <3>2, HeatFormula
    <3> QED BY <3>1, <3>3
  <2> QED BY <1>3, <2>1, <2>2 DEF HeatIsItsEvents
<1>8. FavoriteInv'
  <2>1. \A o \in UserThreads, u \in shelf' \ clash' : (Gives(o, u)' <=> Gives(o, u)) /\ (Takes(o, u)' <=> Takes(o, u))
    BY <1>1 DEF Gives, Takes
  <2> QED BY <1>1, <1>2, <2>1, FavoriteKept
<1>9. ListsInv'
  <2>1. \A p \in Lists : \A o \in UserThreads : SameRequest(o, p) BY <1>1 DEF SameRequest, Rewards
  <2> QED BY <1>1, <1>2, <2>1, ListsKept
<1>10. TheVersions' \subseteq TheVersions /\ \A o \in UserThreads : OnVersions(o)' => OnVersions(o) BY <1>1 DEF TheVersions, OnVersions
<1>11. SpreadInv' BY <1>1, <1>10 DEF SpreadInv
<1>12. VersionsInv'
  <2>1. ASSUME GroupCalm', NEW o \in UserThreads, OnVersions(o) PROVE OnVersions(o)'
    <3>1. Main \in TheVersions' /\ starred \cap TheVersions = {} BY <1>1, <2>1, UserConstants DEF GroupCalm, TheVersions
    <3>2. ureq[o].kind \in {"favorite", "unfavorite"} BY <2>1, <3>1 DEF SpreadInv, OnVersions, FavKinds
    <3>3. Main \in ToSet(ureq[o].read) BY <1>10, <2>1, <3>1, <3>2 DEF SpreadInv
    <3> QED BY <1>1, <2>1, <3>1, <3>3 DEF OnVersions
  <2> QED BY <1>1, <1>10, <2>1, VersionsKept
<1> QED BY <1>4, <1>5, <1>6, <1>7, <1>8, <1>9, <1>11, <1>12

LEMMA ClientLeavesKeeps ==
  ASSUME UserInv, NEW r \in UserThreads, ClientLeaves(r)
  PROVE  UserInv'
<1> USE DEF UserInv
<1>1. /\ ureq[r].pc # "idle" /\ clash' = clash \cup Touched(ureq[r]) /\ Becomes(r, Resting)
      /\ UNCHANGED <<shelf, favorites, playlist, log, heat, history, player, asked, starred>>
  BY DEF ClientLeaves
<1>2. RequestsInv' /\ MovesOnly(r) /\ ureq'[r] = Resting /\ ureq'[r].pc = "idle"
  BY <1>1, RestingFits, RequestMoves DEF Resting
<1>3. TablesInv'
  <2>1. clash' \subseteq UserTracks \cup Lists BY <1>1, TouchedAreThings DEF TablesInv
  <2> QED BY <1>1, <2>1 DEF TablesInv
<1>4. HeatIsItsEvents' BY <1>1 DEF HeatIsItsEvents
<1>5. ApartInv'
  <2>1. \A x : ~Works(r, x)' BY <1>2 DEF Works
  <2> QED BY <1>1, <1>2, <2>1, ApartKept
<1>6. FavoriteInv'
  <2>1. \A t \in shelf' \ clash' : ~Gives(r, t) /\ ~Takes(r, t)
    <3> SUFFICES ASSUME NEW t, Gives(r, t) \/ Takes(r, t) PROVE t \in Touched(ureq[r]) BY <1>1
    <3>1. OnFavorite(r) /\ t = NextTrack(r)
      BY UserRequestTypes DEF Gives, Takes, OnFavorite, NextTrack, FitsKind, FavKinds
    <3> QED BY <3>1, OnFavoriteFacts
  <2>2. \A o \in UserThreads, t \in shelf' \ clash' : (Gives(o, t)' <=> Gives(o, t)) /\ (Takes(o, t)' <=> Takes(o, t))
    BY <1>2, <2>1, OtherThanFavorites
  <2> QED BY <1>1, <2>2, FavoriteKept
<1>7. ListsInv'
  <2>1. \A p \in Lists \ clash' : \A o \in UserThreads : SameRequest(o, p)
    <3> TAKE p \in Lists \ clash'
    <3>1. ~Rewards(r, p) BY <1>1 DEF Rewards, Touched
    <3>2. ~Rewards(r, p)' BY <1>2 DEF Rewards
    <3> QED BY <1>2, <3>1, <3>2, OtherThanLists
  <2> QED BY <1>1, <2>1, ListsKept
<1>8. SpreadInv' BY <1>1, <1>2, SpreadKept
<1>9. VersionsInv'
  <2>1. TheVersions' = TheVersions /\ ~OnVersions(r)' BY <1>1, <1>2 DEF TheVersions, OnVersions
  <2>2. GroupCalm' => ~OnVersions(r) BY <1>1, KindsDiffer DEF GroupCalm, OnVersions, TheVersions, Touched
  <2>3. GroupCalm' => \A o \in UserThreads : (OnVersions(o)' <=> OnVersions(o))
            /\ (OnVersions(o) => ureq'[o].ids = ureq[o].ids /\ ureq'[o].kind = ureq[o].kind)
    BY <1>2, <2>1, <2>2 DEF MovesOnly, OnVersions
  <2> QED BY <1>1, <2>1, <2>3, VersionsKept
<1>10. HistoryInv' BY <1>1, <1>2, HistoryKept
<1> QED BY <1>2, <1>3, <1>4, <1>5, <1>6, <1>7, <1>8, <1>9, <1>10

LEMMA UserKeeps ==
  ASSUME UserInv, UserNext
  PROVE  UserInv'
<1>1. ASSUME NEW r \in UserThreads, UserStep(r) PROVE UserInv'
  BY <1>1, InsertFavoriteKeeps, AwardFavoriteKeeps, DeleteFavoriteKeeps, ReverseFavoriteKeeps, ReadListKeeps,
     WriteListKeeps, AwardListTrackKeeps, ReverseListTracksKeeps, EraseHistoryKeeps, InsertHistoryKeeps,
     ClientLeavesKeeps DEF UserStep
<1>2. ASSUME NEW r \in UserThreads, NEW t \in UserTracks, AskHistory(r, t) \/ \E k \in FavKinds : AskFavorite(r, k, t)
      PROVE  UserInv'
  BY <1>2, AskHistoryKeeps, AskFavoriteKeeps
<1>3. ASSUME NEW r \in UserThreads, NEW k \in ListKinds, NEW p \in Lists, NEW ids \in UserSeqs, AskList(r, k, p, ids)
      PROVE  UserInv'
  BY <1>3, AskListKeeps
<1>4. ASSUME NEW s \in UserSeqs, NEW i \in 0..1, SaveQueue(s, i) PROVE UserInv' BY <1>4, SaveQueueKeeps
<1>5. ASSUME NEW t \in UserTracks, TrackVanishes(t) \/ RemoveHistoryItems({t}) PROVE UserInv'
  BY <1>5, TrackVanishesKeeps, RemoveHistoryItemsKeeps
<1> QED BY <1>1, <1>2, <1>3, <1>4, <1>5 DEF UserNext

LEMMA UserStutters == UserInv /\ UNCHANGED userVars => UserInv'
<1> SUFFICES ASSUME UserInv, UNCHANGED userVars PROVE UserInv' OBVIOUS
<1>1. RequestsInv' /\ ApartInv' /\ HeatIsItsEvents' /\ FavoriteInv' /\ ListsInv' /\ SpreadInv' /\ VersionsInv'
  BY NothingMoves DEF userVars
<1>2. TablesInv' /\ HistoryInv' BY DEF UserInv, userVars, TablesInv, HistoryInv
<1> QED BY <1>1, <1>2 DEF UserInv

\* The heat of a track is the sum of its events in every interleaving, whoever
\* leaves when; favorites and playlists have earned their heat and no more when
\* no request is under way, unless two worked on the same thing at once or a
\* client left one half done; no playlist holds a track twice, no track is twice
\* in the history, a recording with a favorite is listed, the saved queue
\* points into itself and pages show the playlist (user_data.go and the
\* Subsonic handlers): for any tracks, versions, playlists, requests and clients.
THEOREM UserDataIsSound == UserSpec => []UserSound
<1>1. UserInit => UserInv BY InitUser
<1>2. UserInv /\ [UserNext]_userVars => UserInv' BY UserKeeps, UserStutters
<1>3. UserInv => UserSound BY InvMeansSound
<1> QED BY <1>1, <1>2, <1>3, PTL DEF UserSpec
-----------------------------------------------------------------------------
(* Tracks.                                                                 *)

(* The first of a set of tracks, and the first by a number of theirs.      *)
LEMMA LeastExists ==
  ASSUME NEW S \in SUBSET Nat, S # {}
  PROVE  \E t \in S : \A x \in S : t <= x
<1> DEFINE below == {p \in Nat \X Nat : p[1] < p[2]}
<1>1. below = OpToRel(<, Nat) BY DEF OpToRel
<1> HIDE DEF below
<1>2. IsWellFoundedOn(below, Nat) BY <1>1, NatLessThanWellFounded
<1>3. PICK n \in S : \A m \in S : ~(<<m, n>> \in below) BY <1>2, WFMin
<1>4. \A m \in S : n <= m
  <2> SUFFICES ASSUME NEW m \in S PROVE n <= m OBVIOUS
  <2>1. m < n => <<m, n>> \in below BY DEF below
  <2> QED BY <1>3, <2>1
<1> QED BY <1>4

LEMMA TrackNumbers == TrackCount \in Nat /\ TrackIds \subseteq Nat /\ TrackIds = 1..TrackCount
BY TracksAssumption DEF TrackIds

LEMMA MinFacts ==
  ASSUME NEW S \in SUBSET TrackIds, S # {}
  PROVE  Min(S) \in S /\ \A x \in S : Min(S) <= x
<1>1. \E t \in S : \A x \in S : t <= x BY LeastExists, TrackNumbers
<1> QED BY <1>1 DEF Min

LEMMA MaxFacts ==
  ASSUME NEW S \in SUBSET TrackIds, S # {}
  PROVE  Max(S) \in S
<1> DEFINE D == {TrackCount - x : x \in S}
<1>0. \A x \in S : TrackCount - x \in Nat BY TrackNumbers
<1>1. D \in SUBSET Nat /\ D # {} BY <1>0
<1>2. PICK d \in D : \A x \in D : d <= x BY <1>1, LeastExists
<1>3. PICK t \in S : d = TrackCount - t OBVIOUS
<1>4. \A x \in S : t >= x
  <2> SUFFICES ASSUME NEW x \in S PROVE t >= x OBVIOUS
  <2>1. TrackCount - x \in D OBVIOUS
  <2>2. TrackCount - t <= TrackCount - x BY <1>2, <1>3, <2>1
  <2> QED BY <2>2, TrackNumbers
<1> QED BY <1>4 DEF Max

LEMMA FirstExists ==
  ASSUME NEW S \in SUBSET TrackIds, S # {}, NEW f \in [S -> Nat]
  PROVE  \E t \in S : \A u \in S : f[t] < f[u] \/ (f[t] = f[u] /\ t <= u)
<1> DEFINE I == {f[t] : t \in S}
<1>1. I \in SUBSET Nat /\ I # {} OBVIOUS
<1>2. PICK i \in I : \A x \in I : i <= x BY <1>1, LeastExists
<1> DEFINE J == {t \in S : f[t] = i}
<1>3. J \in SUBSET TrackIds /\ J # {} OBVIOUS
<1>4. PICK t \in J : \A u \in J : t <= u BY <1>3, LeastExists, TrackNumbers
<1>5. \A u \in S : f[t] < f[u] \/ (f[t] = f[u] /\ t <= u)
  <2> SUFFICES ASSUME NEW u \in S PROVE f[t] < f[u] \/ (f[t] = f[u] /\ t <= u) OBVIOUS
  <2>1. i <= f[u] /\ f[t] = i /\ f[u] \in Nat /\ i \in Nat BY <1>1, <1>2
  <2>2. CASE f[u] = i BY <1>4, <2>2
  <2>3. CASE f[u] # i BY <2>1, <2>3
  <2> QED BY <2>2, <2>3
<1> QED BY <1>5

LEMMA TracksAreFinite ==
  /\ IsFiniteSet(TrackIds) /\ Cardinality(TrackIds) = TrackCount
  /\ \A S \in SUBSET TrackIds : IsFiniteSet(S) /\ Cardinality(S) \in Nat
<1>1. IsFiniteSet(TrackIds) /\ Cardinality(TrackIds) = TrackCount BY TrackNumbers, FS_Interval
<1> QED BY <1>1, FS_Subset, FS_CardinalityType

(* The place of a track among the versions: the first one is 1.            *)
LEMMA RankFacts ==
  ASSUME NEW S \in SUBSET TrackIds, NEW t \in S
  PROVE  RankIn(S, t) \in 1..TrackCount /\ (RankIn(S, t) <= 1 <=> t = Min(S))
<1> DEFINE U == {u \in S : u <= t}
<1>1. IsFiniteSet(TrackIds) /\ Cardinality(TrackIds) = TrackCount BY TracksAreFinite
<1>0. t <= t BY TrackNumbers
<1>2. U \in SUBSET TrackIds /\ t \in U BY <1>0
<1>3. IsFiniteSet(U) /\ Cardinality(U) \in Nat /\ Cardinality(U) <= TrackCount
  BY <1>1, <1>2, FS_Subset, FS_CardinalityType
<1>4. Cardinality(U) # 0 BY <1>2, <1>3, FS_EmptySet
<1>5. Min(S) \in S /\ \A x \in S : Min(S) <= x BY MinFacts
<1>6. ASSUME t = Min(S) PROVE Cardinality(U) = 1
  <2>1. \A u \in U : u = t BY <1>5, <1>6, TrackNumbers
  <2>2. U = {t} BY <1>2, <2>1
  <2> QED BY <2>2, FS_Singleton
<1>7. ASSUME Cardinality(U) = 1 PROVE t = Min(S)
  <2>1. PICK a : U = {a} BY <1>3, <1>7, FS_Singleton
  <2>2. Min(S) \in U BY <1>5
  <2> QED BY <1>2, <2>1, <2>2
<1> HIDE DEF U
<1>8. RankIn(S, t) = Cardinality(U) BY DEF RankIn, U
<1> QED BY <1>3, <1>4, <1>6, <1>7, <1>8, TrackNumbers

-----------------------------------------------------------------------------
(* Rows.  A row has its type, the alias under its own source is its id, and *)
(* the plays it counts are of the work already done.                       *)
AnyId == Ids \cup {NoId}
IdTables == [Sources -> AnyId]
InStep(r) == r.id # NoId => r.aliases[r.src] \in {NoId, r.id}
HeatFits(r, left) == r.heat + left <= MaxTrackWork
KeptRow(left) == {r \in Row : InStep(r) /\ HeatFits(r, left)}

LEMMA SourceNames == Sources = {"musicbrainz", "netease", "user"} /\ Platforms = {"musicbrainz", "netease"}
BY DEF Sources, Platforms

LEMMA IdFacts ==
  /\ NoId \notin Ids /\ NoAliases \in IdTables
  /\ \A s \in Platforms, n \in Songs : [src |-> s, song |-> n] \in Ids
  /\ \A id \in Ids : id.src \in Platforms /\ id.song \in Songs /\ id = [src |-> id.src, song |-> id.song]
<1>1. NoId \notin Ids BY TracksAssumption
<1>2. NoAliases \in IdTables BY DEF NoAliases, IdTables, AnyId
<1>3. ASSUME NEW s \in Platforms, NEW n \in Songs PROVE [src |-> s, song |-> n] \in Ids
  <2>1. s # "user" /\ s \in Sources BY SourceNames
  <2>2. [src |-> s, song |-> n] \in IdsOf(s) BY <2>1 DEF IdsOf
  <2> QED BY <2>1, <2>2 DEF Ids
<1>4. ASSUME NEW id \in Ids PROVE id.src \in Platforms /\ id.song \in Songs /\ id = [src |-> id.src, song |-> id.song]
  <2>1. PICK s \in Sources : id \in IdsOf(s) BY DEF Ids
  <2>2. s # "user" BY <2>1 DEF IdsOf
  <2>3. s \in Platforms BY <2>2, SourceNames
  <2>4. PICK n \in Songs : id = [src |-> s, song |-> n] BY <2>1, <2>2 DEF IdsOf
  <2> QED BY <2>3, <2>4
<1> QED BY <1>1, <1>2, <1>3, <1>4

LEMMA RowFields ==
  ASSUME NEW r \in Row
  PROVE  /\ r.src \in Sources /\ r.id \in AnyId /\ r.aliases \in IdTables /\ r.ver \in 0..TrackCount
         /\ r.text \in Songs /\ r.heat \in 0..MaxTrackWork
BY DEF Row, AnyId, IdTables

LEMMA SetExternalIDFacts ==
  ASSUME NEW r \in Row, NEW table \in BOOLEAN, NEW id \in AnyId, table \/ r.aliases = NoAliases
  PROVE  LET R == SetExternalID(r, table, id) IN
         /\ R \in Row /\ InStep(R)
         /\ R.src = r.src /\ R.id = id /\ R.text = r.text /\ R.ver = r.ver /\ R.heat = r.heat
         /\ ~table => R.aliases = r.aliases
<1> DEFINE a == IF table THEN [r.aliases EXCEPT ![r.src] = id] ELSE r.aliases
           R == [r EXCEPT !.id = id, !.aliases = a]
<1>1. r.src \in Sources /\ r.aliases \in IdTables BY RowFields
<1>2. a \in IdTables BY <1>1 DEF IdTables
<1>4. a[r.src] \in {NoId, id} BY <1>1 DEF IdTables, NoAliases
<1>6. R = SetExternalID(r, table, id) BY DEF SetExternalID
<1>8. ~table => a = r.aliases OBVIOUS
<1> HIDE DEF a
<1>3. R \in Row BY <1>2 DEF Row, AnyId, IdTables
<1>5. /\ R.src = r.src /\ R.id = id /\ R.text = r.text /\ R.ver = r.ver /\ R.heat = r.heat
      /\ R.aliases = a BY DEF Row
<1> HIDE DEF R
<1>7. InStep(R) BY <1>4, <1>5 DEF InStep
<1> QED BY <1>3, <1>5, <1>6, <1>7, <1>8

LEMMA TableOf == ASSUME NEW r \in Row PROVE HasTable(r) \in BOOLEAN /\ (HasTable(r) \/ r.aliases = NoAliases)
BY DEF HasTable

\* A row of the same version and heat.
Like(R, r) == R.ver = r.ver /\ R.heat = r.heat

LEMMA KeptLike ==
  ASSUME NEW left, NEW r \in KeptRow(left), NEW R \in Row, InStep(R), Like(R, r)
  PROVE  R \in KeptRow(left)
BY DEF KeptRow, HeatFits, Like

LEMMA WithRecordingIdFacts ==
  ASSUME NEW left, NEW r \in KeptRow(left), NEW id \in AnyId, NEW overwrite \in BOOLEAN
  PROVE  LET R == WithRecordingId(r, id, overwrite) IN
         /\ R \in KeptRow(left) /\ Like(R, r) /\ R.src = r.src /\ R.text = r.text
         /\ R.id = r.id \/ (R.id = id /\ r.src = "musicbrainz")
<1> DEFINE R == SetExternalID(r, HasTable(r), id)
<1>1. r \in Row BY DEF KeptRow
<1>2. /\ R \in Row /\ InStep(R) /\ Like(R, r) /\ R.src = r.src /\ R.text = r.text /\ R.id = id
  BY <1>1, SetExternalIDFacts, TableOf DEF Like
<1>3. R \in KeptRow(left) BY <1>2, KeptLike
<1> HIDE DEF R
<1>4. WithRecordingId(r, id, overwrite) = IF id # NoId /\ (r.id = NoId \/ overwrite) /\ r.src = "musicbrainz" THEN R ELSE r
  BY DEF WithRecordingId, R
<1> QED BY <1>2, <1>3, <1>4 DEF Like

LEMMA SwitchedFacts ==
  ASSUME NEW left, NEW r \in KeptRow(left), NEW hit \in Found
  PROVE  LET R == Switched(r, hit) IN R \in KeptRow(left) /\ Like(R, r) /\ R.src = hit.src
<1> DEFINE a == IF r.id = NoId THEN r.aliases ELSE [r.aliases EXCEPT ![r.src] = r.id]
           k == [r EXCEPT !.aliases = a, !.src = hit.src]
           R == SetExternalID(k, HasTable(k), hit.id)
<1>1. r \in Row /\ r.src \in Sources /\ r.id \in AnyId /\ r.aliases \in IdTables BY RowFields DEF KeptRow
<1>2. hit.src \in Sources /\ hit.id \in AnyId BY DEF Found, AnyId
<1>3. a \in IdTables BY <1>1 DEF IdTables
<1>4. Switched(r, hit) = IF hit.id = NoId /\ r.id = NoId THEN k ELSE R BY DEF Switched
<1> HIDE DEF a
<1>5. k \in Row BY <1>1, <1>2, <1>3 DEF Row, AnyId, IdTables
<1>6. Like(k, r) /\ k.src = hit.src /\ k.id = r.id BY <1>1 DEF Row, Like
<1> HIDE DEF k
<1>7. R \in Row /\ InStep(R) /\ Like(R, k) /\ R.src = k.src BY <1>2, <1>5, SetExternalIDFacts, TableOf DEF Like
<1> HIDE DEF R
<1>8. R \in KeptRow(left) BY <1>6, <1>7, KeptLike DEF Like
<1>9. r.id = NoId => k \in KeptRow(left) BY <1>5, <1>6, KeptLike DEF InStep
<1> QED BY <1>4, <1>6, <1>7, <1>8, <1>9 DEF Like

LEMMA AdoptedFacts ==
  ASSUME NEW left, NEW r \in KeptRow(left), NEW hit \in Found, NEW overwrite \in BOOLEAN
  PROVE  LET R == Adopted(r, hit, overwrite) IN
         /\ R \in KeptRow(left) /\ Like(R, r)
         /\ overwrite /\ hit.id # NoId => R.src = hit.src /\ R.id = hit.id
<1> DEFINE there == IF hit.src # r.src /\ MaySwitch(r, overwrite) THEN Switched(r, hit) ELSE r
           titled == [there EXCEPT !.text = IF overwrite THEN hit.text ELSE @]
           R == SetExternalID(titled, HasTable(there), hit.id)
<1>1. hit.src \in Sources /\ hit.id \in AnyId /\ hit.text \in Songs BY DEF Found, AnyId
<1>2. there \in KeptRow(left) /\ Like(there, r) /\ (overwrite => there.src = hit.src)
  BY SwitchedFacts DEF MaySwitch, Like
<1>3. Adopted(r, hit, overwrite) = IF hit.id # NoId /\ (titled.id = NoId \/ overwrite) THEN R ELSE titled BY DEF Adopted
<1> HIDE DEF there
<1>4. there \in Row /\ there.text \in Songs /\ InStep(there) BY <1>2, RowFields DEF KeptRow
<1>5. titled \in Row BY <1>1, <1>4 DEF Row
<1>6. /\ Like(titled, there) /\ titled.src = there.src /\ titled.id = there.id /\ titled.aliases = there.aliases
  BY <1>4 DEF Row, Like
<1> HIDE DEF titled
<1>7. InStep(titled) BY <1>4, <1>6 DEF InStep
<1>8. titled \in KeptRow(left) BY <1>2, <1>5, <1>6, <1>7, KeptLike
<1>9. HasTable(there) \in BOOLEAN /\ (HasTable(there) \/ titled.aliases = NoAliases) BY <1>4, <1>6, TableOf
<1>10. R \in Row /\ InStep(R) /\ Like(R, titled) /\ R.src = titled.src /\ R.id = hit.id
  BY <1>1, <1>5, <1>9, SetExternalIDFacts DEF Like
<1> HIDE DEF R
<1>11. R \in KeptRow(left) BY <1>8, <1>10, KeptLike
<1> QED BY <1>2, <1>3, <1>6, <1>8, <1>10, <1>11 DEF Like

LEMMA RecordingIdFacts ==
  ASSUME files \in [TrackIds -> [song : Songs, fresh : BOOLEAN]], NEW t \in TrackIds
  PROVE  /\ RecordingId(t) \in AnyId
         /\ RecordingId(t) # NoId => RecordingId(t) = [src |-> "musicbrainz", song |-> files[t].song]
<1>1. files[t].song \in Songs OBVIOUS
<1>2. [src |-> "musicbrainz", song |-> files[t].song] \in Ids BY <1>1, IdFacts, SourceNames
<1> QED BY <1>2 DEF RecordingId, AnyId

LEMMA DerivedFacts ==
  ASSUME files \in [TrackIds -> [song : Songs, fresh : BOOLEAN]], NEW t \in TrackIds,
         NEW left, NEW r \in KeptRow(left), NEW hit \in Found \cup {NoEdit}
  PROVE  Derived(r, t, hit) \in KeptRow(left)
<1> DEFINE source == IF hit = NoEdit THEN "" ELSE hit.src
           kept   == IF r.id # NoId /\ r.src # source THEN [r.aliases EXCEPT ![r.src] = r.id] ELSE r.aliases
           song   == IF hit = NoEdit THEN files[t].song ELSE hit.text
           stored == IF source = "" THEN "user" ELSE source
           blank  == [r EXCEPT !.src = stored, !.id = NoId, !.aliases = kept, !.text = song]
           table  == kept # NoAliases
           named  == IF hit = NoEdit THEN blank ELSE SetExternalID(blank, table, hit.id)
           mbid   == RecordingId(t)
           taken  == SetExternalID([named EXCEPT !.src = "musicbrainz"], table, mbid)
           known  == IF named.id = NoId THEN named ELSE [named EXCEPT !.aliases["musicbrainz"] = mbid]
<1>1. r \in Row /\ r.src \in Sources /\ r.id \in AnyId /\ r.aliases \in IdTables BY RowFields DEF KeptRow
<1>2. hit # NoEdit => hit.src \in Sources /\ hit.id \in AnyId /\ hit.text \in Songs BY DEF Found, AnyId
<1>3. mbid \in AnyId BY RecordingIdFacts
<1>4. song \in Songs BY <1>2
<1>5. stored \in Sources /\ (hit # NoEdit => stored = hit.src) BY <1>2, SourceNames
<1>6. kept \in IdTables BY <1>1 DEF IdTables
<1>7. mbid = NoId \/ (mbid # NoId /\ source \in {"", "musicbrainz"}) \/ (mbid # NoId /\ source \notin {"", "musicbrainz"})
  OBVIOUS
<1>8. Derived(r, t, hit) \in {named, taken} \/ (source # "musicbrainz" /\ Derived(r, t, hit) = known)
  BY <1>7 DEF Derived
<1> HIDE DEF kept, song, stored
<1>9. blank \in Row BY <1>1, <1>4, <1>5, <1>6 DEF Row, AnyId, IdTables
<1>10. blank.aliases = kept /\ blank.id = NoId /\ blank.src = stored /\ Like(blank, r) BY <1>1 DEF Row, Like
<1> HIDE DEF blank
<1>11. table \in BOOLEAN /\ (table \/ kept = NoAliases) OBVIOUS
<1> HIDE DEF table
<1>12. named \in KeptRow(left) /\ Like(named, blank) /\ (table \/ named.aliases = NoAliases) /\ named.src = stored
  <2>1. CASE hit = NoEdit
    <3>1. InStep(blank) BY <1>10 DEF InStep
    <3> QED BY <2>1, <3>1, <1>9, <1>10, <1>11, KeptLike DEF Like
  <2>2. CASE hit # NoEdit
    <3> DEFINE R == SetExternalID(blank, table, hit.id)
    <3>1. /\ R \in Row /\ InStep(R) /\ Like(R, blank) /\ R.src = blank.src
          /\ ~table => R.aliases = blank.aliases
      BY <1>2, <1>9, <1>10, <1>11, <2>2, SetExternalIDFacts DEF Like
    <3>2. named = R BY <2>2
    <3> HIDE DEF R, named
    <3> QED BY <1>10, <1>11, <3>1, <3>2, KeptLike DEF Like
  <2> QED BY <2>1, <2>2
<1> HIDE DEF named, mbid, source
<1>13. named \in Row /\ named.src \in Sources BY <1>12, RowFields DEF KeptRow
<1>14. taken \in KeptRow(left)
  <2> DEFINE m == [named EXCEPT !.src = "musicbrainz"]
  <2>1. m \in Row BY <1>13, SourceNames DEF Row
  <2>2. m.aliases = named.aliases /\ Like(m, named) BY <1>13 DEF Row, Like
  <2> HIDE DEF m
  <2>3. taken = SetExternalID(m, table, mbid) BY DEF m
  <2>4. taken \in Row /\ InStep(taken) /\ Like(taken, m)
    BY <1>3, <1>11, <1>12, <2>1, <2>2, <2>3, SetExternalIDFacts DEF Like
  <2> HIDE DEF taken
  <2> QED BY <1>12, <2>2, <2>4, KeptLike DEF Like
<1>15. stored # "musicbrainz" => known \in KeptRow(left)
  <2> SUFFICES ASSUME stored # "musicbrainz", named.id # NoId PROVE known \in KeptRow(left) BY <1>12
  <2> DEFINE a == [named.aliases EXCEPT !["musicbrainz"] = mbid]
             m == [named EXCEPT !.aliases = a]
  <2>1. a \in IdTables /\ a[stored] = named.aliases[stored]
    BY <1>3, <1>5, <1>13, RowFields, SourceNames DEF IdTables
  <2>2. known = m OBVIOUS
  <2> HIDE DEF known, a
  <2>3. m \in Row BY <1>13, <2>1 DEF Row, IdTables, AnyId
  <2>4. m.aliases = a /\ m.src = named.src /\ m.id = named.id /\ Like(m, named) BY <1>13 DEF Row, Like
  <2> HIDE DEF m
  <2>5. InStep(named) BY <1>12 DEF KeptRow
  <2>6. InStep(m) BY <1>12, <2>1, <2>4, <2>5 DEF InStep
  <2> QED BY <1>12, <2>2, <2>3, <2>4, <2>6, KeptLike
<1>16. source # "musicbrainz" => stored # "musicbrainz" BY DEF stored
<1> HIDE DEF known, taken
<1> QED BY <1>8, <1>12, <1>14, <1>15, <1>16

Filed == files \in [TrackIds -> [song : Songs, fresh : BOOLEAN]]
Remembering == remembered \in [TrackIds -> Found \cup {NoEdit}]

LEMMA HitFacts == ASSUME NEW id \in Ids PROVE HitOf(id) \in Found /\ HitOf(id).src = id.src /\ HitOf(id).id = id
BY IdFacts, SourceNames DEF HitOf, Found

LEMMA AnswersFacts ==
  ASSUME Filed, Remembering, NEW t \in TrackIds
  PROVE  /\ Answers(t, TRUE) \subseteq Found
         /\ \A hit \in Answers(t, FALSE) :
               hit \in Found /\ hit.id # NoId /\ hit.id = [src |-> hit.src, song |-> files[t].song]
<1> DEFINE song == files[t].song
           platform == {HitOf([src |-> s, song |-> song]) : s \in Platforms}
           kept == remembered[t]
           supplied == {[kept EXCEPT !.id = h.id] : h \in {p \in platform : kept.id = NoId /\ p.src = kept.src}}
           tagged == IF t \in Tagged THEN {HitOf(RecordingId(t))} ELSE {}
<1>1. song \in Songs BY DEF Filed
<1>2. \A s \in Platforms : [src |-> s, song |-> song] \in Ids BY <1>1, IdFacts
<1>3. \A h \in platform : h \in Found /\ h.id \in Ids /\ h.id = [src |-> h.src, song |-> song]
  <2> SUFFICES ASSUME NEW s \in Platforms
               PROVE  LET h == HitOf([src |-> s, song |-> song])
                      IN  h \in Found /\ h.id \in Ids /\ h.id = [src |-> h.src, song |-> song]
    OBVIOUS
  <2> DEFINE id == [src |-> s, song |-> song]
  <2>1. id \in Ids /\ id.src = s BY <1>2
  <2> HIDE DEF id
  <2>2. HitOf(id) \in Found /\ HitOf(id).src = s /\ HitOf(id).id = id BY <2>1, HitFacts
  <2> QED BY <2>1, <2>2 DEF id
<1>4. tagged \subseteq platform BY SourceNames DEF RecordingId
<1>5. kept # NoEdit => kept \in Found BY DEF Remembering
<1>6. kept # NoEdit => supplied \subseteq Found BY <1>3, <1>5 DEF Found
<1>7. Answers(t, FALSE) = tagged \cup platform BY DEF Answers
<1>8. Answers(t, TRUE) \subseteq tagged \cup platform \cup (IF kept = NoEdit THEN {} ELSE {kept} \cup supplied)
  BY DEF Answers
<1> HIDE DEF tagged, supplied, platform
<1>9. Answers(t, TRUE) \subseteq Found BY <1>3, <1>4, <1>5, <1>6, <1>8
<1>10. \A hit \in Answers(t, FALSE) : hit \in Found /\ hit.id \in Ids /\ hit.id = [src |-> hit.src, song |-> song]
  BY <1>3, <1>4, <1>7
<1> QED BY <1>9, <1>10, IdFacts

LEMMA VisitedFacts ==
  ASSUME Filed, NEW t \in TrackIds, NEW left, scan.copy \in [TrackIds -> KeptRow(left)], scan.overwrite \in BOOLEAN,
         NEW hit \in Found \cup {NoEdit}
  PROVE  Visited(t, hit) \in KeptRow(left)
<1> DEFINE r == scan.copy[t]
           m == WithRecordingId(r, RecordingId(t), scan.overwrite)
<1>1. r \in KeptRow(left) OBVIOUS
<1>2. m \in KeptRow(left) BY <1>1, WithRecordingIdFacts, RecordingIdFacts DEF Filed
<1>3. Derived(r, t, hit) \in KeptRow(left) BY <1>1, DerivedFacts DEF Filed
<1>4. Visited(t, hit) = IF files[t].fresh THEN Derived(r, t, hit)
                        ELSE IF hit = NoEdit THEN m ELSE Adopted(m, hit, scan.overwrite) BY DEF Visited
<1> HIDE DEF r, m
<1> QED BY <1>2, <1>3, <1>4, AdoptedFacts

LEMMA SavedRowFacts ==
  ASSUME NEW left, NEW old \in KeptRow(left), NEW id \in Ids
  PROVE  LET R == SavedRow(old, id) IN R \in KeptRow(left) /\ Like(R, old) /\ Key(R) = <<id.src, id>>
<1> DEFINE fresh == old.text # id.song
           a == IF fresh THEN NoAliases ELSE old.aliases
           based == [old EXCEPT !.src = id.src, !.text = id.song, !.aliases = a]
           table == fresh \/ HasTable(old)
           R == SetExternalID(based, table, id)
<1>1. old \in Row /\ old.aliases \in IdTables BY RowFields DEF KeptRow
<1>2. id \in AnyId /\ id.src \in Sources /\ id.song \in Songs BY IdFacts, SourceNames DEF AnyId
<1>3. a \in IdTables BY <1>1, IdFacts
<1>4. table \in BOOLEAN /\ (table \/ a = NoAliases) BY <1>1, TableOf
<1>5. SavedRow(old, id) = R BY DEF SavedRow
<1> HIDE DEF a, table
<1>6. based \in Row /\ Like(based, old) /\ based.src = id.src /\ based.aliases = a
  BY <1>1, <1>2, <1>3 DEF Row, Like, AnyId, IdTables
<1> HIDE DEF based
<1>7. R \in Row /\ InStep(R) /\ Like(R, based) /\ R.src = id.src /\ R.id = id
  BY <1>2, <1>4, <1>6, SetExternalIDFacts DEF Like
<1> HIDE DEF R
<1> QED BY <1>5, <1>6, <1>7, KeptLike DEF Like, Key

LEMMA AfreshFacts ==
  ASSUME NEW left, NEW old \in KeptRow(left), NEW hit \in Found
  PROVE  LET R == Afresh(old, hit) IN R \in KeptRow(left) /\ Key(R) = Key(hit)
<1> DEFINE a == [NoAliases EXCEPT ![hit.src] = hit.id]
           R == Afresh(old, hit)
<1>1. old \in Row BY DEF KeptRow
<1>2. hit.src \in Sources /\ hit.id \in AnyId /\ hit.text \in Songs BY DEF Found, AnyId
<1>3. a \in IdTables /\ a[hit.src] = hit.id BY <1>2, IdFacts DEF NoAliases, IdTables
<1>4. R = [old EXCEPT !.src = hit.src, !.id = hit.id, !.ver = 0, !.text = hit.text, !.aliases = a] BY DEF Afresh
<1> HIDE DEF a, R
<1>0. 0 \in 0..TrackCount BY TrackNumbers
<1>5. R \in Row BY <1>0, <1>1, <1>2, <1>3, <1>4 DEF Row, AnyId, IdTables
<1>6. R.src = hit.src /\ R.id = hit.id /\ R.aliases = a /\ R.heat = old.heat BY <1>1, <1>4 DEF Row
<1>7. InStep(R) BY <1>3, <1>6 DEF InStep
<1> QED BY <1>5, <1>6, <1>7 DEF KeptRow, HeatFits, Key, R

-----------------------------------------------------------------------------
(* Merging keeps the rows' texts, versions and heat.                       *)
Same(R, r) == R.text = r.text /\ Like(R, r)

LEMMA RowsAreRows == ASSUME NEW left, NEW rs \in [TrackIds -> KeptRow(left)] PROVE rs \in [TrackIds -> Row]
BY DEF KeptRow

LEMMA MergedIds ==
  ASSUME NEW rs \in [TrackIds -> Row], NEW S \in SUBSET TrackIds
  PROVE  mergeExternalIDs(rs, S) \in IdTables
<1> DEFINE G(s) == {t \in S : Says(rs[t], s) # NoId}
           said(s) == IF G(s) = {} THEN NoId ELSE Says(rs[Max(G(s))], s)
<1>1. ASSUME NEW s \in Sources PROVE said(s) \in AnyId
  <2>1. \A t \in S : Says(rs[t], s) \in AnyId BY RowFields DEF Says, IdTables
  <2>2. G(s) # {} => Max(G(s)) \in S BY MaxFacts
  <2> HIDE DEF G
  <2> QED BY <2>1, <2>2 DEF AnyId
<1>2. mergeExternalIDs(rs, S) = [s \in Sources |-> said(s)] BY DEF mergeExternalIDs
<1> HIDE DEF said
<1> QED BY <1>1, <1>2 DEF IdTables

LEMMA FirstKnown ==
  ASSUME NEW rs \in [TrackIds -> Row], NEW S \in SUBSET TrackIds, S # {}
  PROVE  (CHOOSE v \in S : \A w \in S : Precedes(rs, v, w)) \in S
<1> DEFINE rank(t) == IF rs[t].ver = 1 THEN -1 ELSE rs[t].ver
           f == [t \in S |-> rank(t) + 1]
<1>1. \A t \in S : rs[t].ver \in Nat BY TrackNumbers DEF Row
<1>2. \A t \in S : rank(t) + 1 \in Nat /\ rank(t) \in Int BY <1>1
<1>3. f \in [S -> Nat] BY <1>2
<1>4. PICK t \in S : \A u \in S : f[t] < f[u] \/ (f[t] = f[u] /\ t <= u) BY <1>3, FirstExists
<1>5. \A u \in S : Precedes(rs, t, u)
  <2> SUFFICES ASSUME NEW u \in S PROVE Precedes(rs, t, u) OBVIOUS
  <2>1. f[t] = rank(t) + 1 /\ f[u] = rank(u) + 1 OBVIOUS
  <2> HIDE DEF f
  <2>2. rank(t) < rank(u) \/ (rank(t) = rank(u) /\ t <= u) BY <1>2, <1>4, <2>1
  <2> QED BY <2>2 DEF Precedes
<1> QED BY <1>5

LEMMA TriedFacts ==
  ASSUME NEW left, NEW rs \in [TrackIds -> KeptRow(left)], NEW t \in TrackIds, NEW r \in KeptRow(left)
  PROVE  tryMergeByIdentifiedID(rs, t, r) \in [TrackIds -> KeptRow(left)]
<1> DEFINE same == IF r.id = NoId THEN {} ELSE FindByExternalID(rs, t, r.src, r.id)
           u    == CHOOSE v \in same : \A w \in same : Precedes(rs, v, w)
           both == [s \in Sources |->
                      IF s = rs[u].src THEN rs[u].id ELSE IF s = r.src THEN r.id
                      ELSE IF r.aliases[s] # NoId THEN r.aliases[s] ELSE rs[u].aliases[s]]
           R == [rs[t] EXCEPT !.src = rs[u].src, !.id = rs[u].id, !.aliases = both]
<1>1. tryMergeByIdentifiedID(rs, t, r) = IF same = {} \/ rs[u].id = NoId THEN rs ELSE [rs EXCEPT ![t] = R]
  BY DEF tryMergeByIdentifiedID
<1>2. SUFFICES ASSUME same # {} PROVE R \in KeptRow(left) BY <1>1
<1>3. rs \in [TrackIds -> Row] BY RowsAreRows
<1>4. same \subseteq TrackIds BY DEF FindByExternalID
<1> HIDE DEF same
<1>5. u \in TrackIds BY <1>2, <1>3, <1>4, FirstKnown
<1> HIDE DEF u
<1>6. rs[u] \in Row /\ r \in Row /\ rs[t] \in Row BY <1>3, <1>5 DEF KeptRow
<1>7. /\ rs[u].src \in Sources /\ rs[u].id \in AnyId /\ rs[u].aliases \in IdTables
      /\ r.id \in AnyId /\ r.aliases \in IdTables BY <1>6, RowFields
<1>8. both \in IdTables /\ both[rs[u].src] = rs[u].id BY <1>7 DEF IdTables
<1> HIDE DEF both
<1>9. R \in Row BY <1>6, <1>7, <1>8 DEF Row, AnyId, IdTables
<1>10. R.src = rs[u].src /\ R.id = rs[u].id /\ R.aliases = both /\ Like(R, rs[t]) BY <1>6 DEF Row, Like
<1> HIDE DEF R
<1>11. InStep(R) BY <1>8, <1>10 DEF InStep
<1> QED BY <1>9, <1>10, <1>11, KeptLike

\* A row with another identity, and the aliases that go with it.
Renamed(r, k, a) == [r EXCEPT !.src = k[1], !.id = k[2], !.aliases = a]

LEMMA RenamedFacts ==
  ASSUME NEW left, NEW r \in KeptRow(left), NEW k \in Sources \X AnyId, NEW a \in IdTables,
         k[2] # NoId => a[k[1]] = k[2]
  PROVE  LET R == Renamed(r, k, a) IN R \in KeptRow(left) /\ Same(R, r) /\ Key(R) = k /\ R.aliases = a
<1> DEFINE R == Renamed(r, k, a)
<1>1. r \in Row BY DEF KeptRow
<1>2. k = <<k[1], k[2]>> /\ k[1] \in Sources /\ k[2] \in AnyId OBVIOUS
<1>3. R \in Row BY <1>1, <1>2 DEF Row, AnyId, IdTables, Renamed
<1>4. R.src = k[1] /\ R.id = k[2] /\ R.aliases = a /\ Same(R, r) BY <1>1 DEF Row, Renamed, Same, Like
<1> HIDE DEF R
<1>5. InStep(R) BY <1>4 DEF InStep
<1>6. Key(R) = k BY <1>2, <1>4 DEF Key
<1>7. R \in KeptRow(left) BY <1>3, <1>4, <1>5, KeptLike DEF Same
<1> QED BY <1>4, <1>6, <1>7 DEF R

LEMMA AlignFacts ==
  ASSUME NEW left, NEW rs \in [TrackIds -> KeptRow(left)], NEW S \in SUBSET TrackIds
  PROVE  /\ \A t \in S : alignGroup(rs, S)[t] \in KeptRow(left) /\ Same(alignGroup(rs, S)[t], rs[t])
         /\ \A t, u \in S : alignGroup(rs, S)[t].id # NoId =>
               /\ Key(alignGroup(rs, S)[t]) = Key(alignGroup(rs, S)[u])
               /\ alignGroup(rs, S)[t].aliases = alignGroup(rs, S)[u].aliases
<1> DEFINE named == {t \in S : rs[t].id # NoId}
           first(t) == \A u \in named :
                    \/ sourcePriority(rs[t].src) < sourcePriority(rs[u].src)
                    \/ sourcePriority(rs[t].src) = sourcePriority(rs[u].src) /\ t <= u
           main  == CHOOSE t \in named : first(t)
           table == [mergeExternalIDs(rs, S) EXCEPT ![rs[main].src] = rs[main].id]
           k == Key(rs[main])
           R(t) == Renamed(rs[t], k, table)
<1>1. alignGroup(rs, S) = IF Cardinality(S) < 2 \/ named = {} THEN rs
                          ELSE [t \in TrackIds |-> IF t \in S THEN R(t) ELSE rs[t]]
  BY DEF alignGroup, Renamed, Key
<1>2. rs \in [TrackIds -> Row] BY RowsAreRows
<1>3. ASSUME named # {} PROVE main \in named
  <2> DEFINE f == [t \in named |-> sourcePriority(rs[t].src)]
  <2>1. f \in [named -> Nat] BY DEF sourcePriority
  <2>2. PICK t \in named : \A u \in named : f[t] < f[u] \/ (f[t] = f[u] /\ t <= u) BY <1>3, <2>1, FirstExists
  <2>3. first(t) BY <2>2
  <2> HIDE DEF first
  <2> QED BY <2>3
<1> HIDE DEF main
<1>4. ASSUME named # {}
      PROVE  \A t \in S : R(t) \in KeptRow(left) /\ Same(R(t), rs[t]) /\ Key(R(t)) = k /\ R(t).aliases = table
  <2>1. rs[main].src \in Sources /\ rs[main].id \in AnyId BY <1>2, <1>3, <1>4, RowFields
  <2>2. k \in Sources \X AnyId /\ k[1] = rs[main].src /\ k[2] = rs[main].id BY <2>1 DEF Key
  <2>3. mergeExternalIDs(rs, S) \in IdTables BY <1>2, MergedIds
  <2>4. table \in IdTables /\ table[k[1]] = k[2] BY <2>1, <2>2, <2>3 DEF IdTables
  <2> HIDE DEF table, k
  <2> QED BY <2>2, <2>4, RenamedFacts
<1> HIDE DEF R
<1>5. CASE Cardinality(S) < 2
  <2>1. \A t, u \in S : t = u
    <3>1. IsFiniteSet(S) BY TracksAreFinite
    <3>2. Cardinality(S) = 0 \/ Cardinality(S) = 1 BY <1>5, <3>1, FS_CardinalityType
    <3>3. CASE Cardinality(S) = 0 BY <3>1, <3>3, FS_EmptySet
    <3>4. CASE Cardinality(S) = 1
      <4>1. PICK a : S = {a} BY <3>1, <3>4, FS_Singleton
      <4> QED BY <4>1
    <3> QED BY <3>2, <3>3, <3>4
  <2>2. alignGroup(rs, S) = rs BY <1>1, <1>5
  <2> QED BY <2>1, <2>2 DEF Same, Like
<1>6. CASE named = {} /\ ~(Cardinality(S) < 2)
  <2>1. alignGroup(rs, S) = rs BY <1>1, <1>6
  <2> QED BY <1>6, <2>1 DEF Same, Like
<1>7. CASE named # {} /\ ~(Cardinality(S) < 2)
  <2>1. \A t \in S : alignGroup(rs, S)[t] = R(t) BY <1>1, <1>7
  <2> HIDE DEF named, k, table
  <2> QED BY <1>4, <1>7, <2>1
<1> QED BY <1>5, <1>6, <1>7

LEMMA AlignedFacts ==
  ASSUME NEW left, NEW rs \in [TrackIds -> KeptRow(left)], NEW gs
  PROVE  LET A == Aligned(rs, gs)  C == Comparable(rs, gs) IN
         /\ A \in [TrackIds -> KeptRow(left)] /\ \A t \in TrackIds : Same(A[t], rs[t])
         /\ C \subseteq TrackIds
         /\ \A t, u \in C : (rs[t].text = rs[u].text /\ A[t].id # NoId) =>
               Key(A[t]) = Key(A[u]) /\ A[t].aliases = A[u].aliases
<1> DEFINE C == Comparable(rs, gs)
           A == Aligned(rs, gs)
           alike(t) == {u \in C : rs[u].text = rs[t].text}
<1>1. A = [t \in TrackIds |-> IF t \in alike(t) THEN alignGroup(rs, alike(t))[t] ELSE rs[t]]
  BY DEF Aligned, mergeKey
<1>2. C \subseteq TrackIds BY DEF Comparable
<1> HIDE DEF A, C
<1>3. \A t \in TrackIds : alike(t) \in SUBSET TrackIds BY <1>2
<1>4. \A t \in TrackIds \ C : t \notin alike(t) /\ A[t] = rs[t] BY <1>1
<1>5. \A t \in C : t \in alike(t) /\ A[t] = alignGroup(rs, alike(t))[t] BY <1>1, <1>2
<1> HIDE DEF alike
<1>6. ASSUME NEW t \in TrackIds PROVE A[t] \in KeptRow(left) /\ Same(A[t], rs[t])
  <2>1. CASE t \in C BY <1>3, <1>5, <2>1, AlignFacts
  <2>2. CASE t \notin C BY <1>4, <2>2 DEF Same, Like
  <2> QED BY <2>1, <2>2
<1>7. ASSUME NEW t \in C, NEW u \in C, rs[t].text = rs[u].text, A[t].id # NoId
      PROVE  Key(A[t]) = Key(A[u]) /\ A[t].aliases = A[u].aliases
  <2>1. alike(t) = alike(u) BY <1>7 DEF alike
  <2> DEFINE S == alike(t)
  <2>2. S \in SUBSET TrackIds /\ t \in S /\ u \in S /\ A[t] = alignGroup(rs, S)[t] /\ A[u] = alignGroup(rs, S)[u]
    BY <1>2, <1>3, <1>5, <2>1
  <2> HIDE DEF S
  <2> QED BY <1>7, <2>2, AlignFacts
<1>8. A \in [TrackIds -> KeptRow(left)]
  <2>1. A = [t \in TrackIds |-> A[t]] BY <1>1
  <2> QED BY <1>6, <2>1
<1> QED BY <1>2, <1>6, <1>7, <1>8 DEF A, C

LEMMA SyncFacts ==
  ASSUME NEW left, NEW rs \in [TrackIds -> KeptRow(left)], NEW S \in SUBSET TrackIds, MainOf(rs, S) # {}
  PROVE  \E main \in S, a \in IdTables :
            /\ rs[main].ver = 1
            /\ \A t \in TrackIds : LET R == InSync(rs, S, t) IN
                  R \in KeptRow(left) /\ Same(R, rs[t]) /\ Key(R) = Key(rs[main]) /\ R.aliases = a
<1> DEFINE main  == Min(MainOf(rs, S))
           other == mergeExternalIDs(rs, S \ {main})
           own   == mergeExternalIDs(rs, {main})
           table == [s \in Sources |->
                       IF s = rs[main].src /\ rs[main].id # NoId THEN rs[main].id
                       ELSE IF other[s] # NoId THEN other[s] ELSE own[s]]
           k == Key(rs[main])
<1>1. \A t \in TrackIds : InSync(rs, S, t) = Renamed(rs[t], k, table) BY DEF InSync, Renamed, Key
<1>2. MainOf(rs, S) \in SUBSET TrackIds BY DEF MainOf
<1>3. main \in MainOf(rs, S) BY <1>2, MinFacts
<1>4. main \in S /\ main \in TrackIds /\ rs[main].ver = 1 BY <1>3 DEF MainOf
<1> HIDE DEF main
<1>5. rs \in [TrackIds -> Row] BY RowsAreRows
<1>6. other \in IdTables /\ own \in IdTables BY <1>4, <1>5, MergedIds
<1> HIDE DEF other, own
<1>7. rs[main].src \in Sources /\ rs[main].id \in AnyId BY <1>4, <1>5, RowFields
<1>8. k \in Sources \X AnyId /\ k[1] = rs[main].src /\ k[2] = rs[main].id BY <1>7 DEF Key
<1>9. table \in IdTables /\ (k[2] # NoId => table[k[1]] = k[2]) BY <1>6, <1>7, <1>8 DEF IdTables
<1> HIDE DEF table, k
<1>10. \A t \in TrackIds : LET R == InSync(rs, S, t) IN
          R \in KeptRow(left) /\ Same(R, rs[t]) /\ Key(R) = k /\ R.aliases = table
  BY <1>1, <1>8, <1>9, RenamedFacts
<1> QED BY <1>4, <1>9, <1>10 DEF k

\* What mergeDuplicates writes, `last` being the group that wrote a row last.
Merged(rs, last) == [t \in TrackIds |-> IF last[t] = {} THEN rs[t] ELSE InSync(rs, last[t], t)]
LatestOf(rs, gs, last) ==
    \A t \in TrackIds : IF SyncedBy(rs, gs, t) = {} THEN last[t] = {} ELSE last[t] \in SyncedBy(rs, gs, t)

LEMMA LastFacts ==
  ASSUME NEW rs, NEW gs, NEW last, LatestOf(rs, gs, last), NEW t \in TrackIds
  PROVE  /\ last[t] = {} => SyncedBy(rs, gs, t) = {}
         /\ last[t] # {} => /\ last[t] \in SUBSET TrackIds /\ t \in last[t] /\ MainOf(rs, last[t]) # {}
                            /\ \E g \in gs : last[t] = MembersOf(gs, g[1])
<1>1. \A S \in SyncedBy(rs, gs, t) : /\ t \in S /\ MainOf(rs, S) # {}
                                     /\ \E g \in gs : S = MembersOf(gs, g[1]) BY DEF SyncedBy
<1>2. \A k : MembersOf(gs, k) \in SUBSET TrackIds BY DEF MembersOf
<1> QED BY <1>1, <1>2 DEF LatestOf

LEMMA MergedFacts ==
  ASSUME NEW left, NEW rs \in [TrackIds -> KeptRow(left)], NEW gs, NEW last, LatestOf(rs, gs, last)
  PROVE  /\ Merged(rs, last) \in [TrackIds -> KeptRow(left)]
         /\ \A t \in TrackIds : Same(Merged(rs, last)[t], rs[t])
<1> SUFFICES ASSUME NEW t \in TrackIds
             PROVE  Merged(rs, last)[t] \in KeptRow(left) /\ Same(Merged(rs, last)[t], rs[t])
  BY DEF Merged
<1>1. CASE last[t] = {} BY <1>1 DEF Merged, Same, Like
<1>2. CASE last[t] # {}
  <2>1. last[t] \in SUBSET TrackIds /\ MainOf(rs, last[t]) # {} BY <1>2, LastFacts
  <2>2. InSync(rs, last[t], t) \in KeptRow(left) /\ Same(InSync(rs, last[t], t), rs[t]) BY <2>1, SyncFacts
  <2>3. Merged(rs, last)[t] = InSync(rs, last[t], t) BY <1>2 DEF Merged
  <2> QED BY <2>2, <2>3
<1> QED BY <1>1, <1>2

\* Tracks of one text are one song in rs, the groups being gs.
OneSong(rs, gs) ==
    \A t, u \in TrackIds :
        (mergeKey(rs[t]) = mergeKey(rs[u]) /\ rs[t].id # NoId) =>
            /\ Key(rs[t]) = Key(rs[u])
            /\ GroupsOf(gs, t) = GroupsOf(gs, u) => rs[t].aliases = rs[u].aliases

\* After both phases every track has the identity of one that was compared
\* and is of its text: its own, or that of the main version of its group.
LEMMA MergeMakesOneSong ==
  ASSUME NEW left, NEW rows0 \in [TrackIds -> KeptRow(left)],
         NEW gs \in SUBSET ((Sources \X Ids) \X TrackIds), OfOneText(rows0, gs),
         NEW last, LatestOf(Aligned(rows0, gs), gs, last)
  PROVE  OneSong(Merged(Aligned(rows0, gs), last), gs)
<1> DEFINE A == Aligned(rows0, gs)
           C == Comparable(rows0, gs)
           M == Merged(A, last)
<1>1. /\ A \in [TrackIds -> KeptRow(left)] /\ \A t \in TrackIds : Same(A[t], rows0[t])
      /\ C \subseteq TrackIds
      /\ \A t, u \in C : (rows0[t].text = rows0[u].text /\ A[t].id # NoId) =>
            Key(A[t]) = Key(A[u]) /\ A[t].aliases = A[u].aliases
  BY AlignedFacts
<1>2. C = {t \in TrackIds : ~(rows0[t].ver > 1 /\ \E g \in gs : g[2] = t)} BY DEF Comparable
<1>3. LatestOf(A, gs, last) OBVIOUS
<1>4. rows0 \in [TrackIds -> Row] BY RowsAreRows
<1> HIDE DEF A, C
<1>5. \A S \in SUBSET TrackIds : MainOf(A, S) = MainOf(rows0, S)
  <2>1. \A t \in TrackIds : A[t].ver = rows0[t].ver BY <1>1 DEF Same, Like
  <2> QED BY <2>1 DEF MainOf
<1>6. \A t \in TrackIds : M[t] = IF last[t] = {} THEN A[t] ELSE InSync(A, last[t], t) BY DEF Merged
<1>7. M \in [TrackIds -> KeptRow(left)] /\ \A t \in TrackIds : Same(M[t], A[t]) BY <1>1, <1>3, MergedFacts
<1> HIDE DEF M
<1>8. \A t \in TrackIds : mergeKey(M[t]) = rows0[t].text BY <1>1, <1>7 DEF Same, mergeKey
<1>9. \A g \in gs : g = <<g[1], g[2]>> /\ g[2] \in TrackIds /\ g[2] \in MembersOf(gs, g[1])
  BY DEF MembersOf
<1>10. \A g \in gs : \A t, u \in MembersOf(gs, g[1]) : rows0[t].text = rows0[u].text
  BY DEF MembersOf, OfOneText, mergeKey
<1>11. ASSUME NEW g \in gs
       PROVE  /\ MembersOf(gs, g[1]) \in SUBSET TrackIds
              /\ \E m \in MembersOf(gs, g[1]) : rows0[m].ver = 1
              /\ MainOf(A, MembersOf(gs, g[1])) # {}
  <2>1. MembersOf(gs, g[1]) \in SUBSET TrackIds BY DEF MembersOf
  <2>2. MainOf(rows0, MembersOf(gs, g[1])) # {} BY DEF OfOneText
  <2>3. MainOf(A, MembersOf(gs, g[1])) = MainOf(rows0, MembersOf(gs, g[1])) BY <1>5, <2>1
  <2> QED BY <2>1, <2>2, <2>3 DEF MainOf
<1>12. ASSUME NEW g \in gs, NEW t \in MembersOf(gs, g[1]), NEW u \in MembersOf(gs, g[1]), t # u
       PROVE  MembersOf(gs, g[1]) \in SyncedBy(A, gs, t)
  <2> DEFINE S == MembersOf(gs, g[1])
  <2>1. S \in SUBSET TrackIds /\ MainOf(A, S) # {} BY <1>11
  <2>2. ~(Cardinality(S) < 2)
    <3>1. IsFiniteSet(S) /\ Cardinality(S) \in Nat BY <2>1, TracksAreFinite
    <3>2. Cardinality(S) # 0 BY <3>1, FS_EmptySet
    <3>3. Cardinality(S) # 1
      <4>1. SUFFICES ASSUME Cardinality(S) = 1 PROVE FALSE OBVIOUS
      <4>2. PICK a : S = {a} BY <3>1, <4>1, FS_Singleton
      <4> QED BY <1>12, <4>2
    <3> QED BY <3>1, <3>2, <3>3
  <2>3. Cardinality(S) >= 2 BY <2>1, <2>2, TracksAreFinite
  <2> QED BY <2>1, <2>3 DEF SyncedBy
<1>13. ASSUME NEW t \in TrackIds PROVE \E c \in C : rows0[c].text = rows0[t].text /\ Key(M[t]) = Key(A[c])
  <2>1. CASE last[t] = {}
    <3>1. t \in C
      <4>1. SUFFICES ASSUME rows0[t].ver > 1, NEW g \in gs, g[2] = t PROVE FALSE BY <1>2
      <4>2. PICK m \in MembersOf(gs, g[1]) : rows0[m].ver = 1 BY <1>11
      <4>3. t \in MembersOf(gs, g[1]) /\ m # t BY <1>9, <4>1, <4>2
      <4>4. SyncedBy(A, gs, t) # {} BY <1>12, <4>2, <4>3
      <4> QED BY <1>3, <2>1, <4>4, LastFacts
    <3> QED BY <1>6, <2>1, <3>1
  <2>2. CASE last[t] # {}
    <3>1. /\ last[t] \in SUBSET TrackIds /\ t \in last[t] /\ MainOf(A, last[t]) # {}
          /\ \E g \in gs : last[t] = MembersOf(gs, g[1])
      BY <1>3, <2>2, LastFacts
    <3>2. PICK m \in last[t] : A[m].ver = 1 /\ Key(InSync(A, last[t], t)) = Key(A[m]) BY <1>1, <3>1, SyncFacts
    <3>3. m \in TrackIds /\ rows0[m].ver = 1 BY <1>1, <3>1, <3>2 DEF Same, Like
    <3>4. m \in C BY <1>2, <3>3
    <3>5. rows0[m].text = rows0[t].text BY <1>10, <3>1, <3>2
    <3> QED BY <1>6, <2>2, <3>2, <3>4, <3>5
  <2> QED BY <2>1, <2>2
<1>14. ASSUME NEW t \in TrackIds, NEW u \in TrackIds, rows0[t].text = rows0[u].text, M[t].id # NoId
       PROVE  Key(M[t]) = Key(M[u])
  <2>1. PICK c \in C : rows0[c].text = rows0[t].text /\ Key(M[t]) = Key(A[c]) BY <1>13
  <2>2. PICK d \in C : rows0[d].text = rows0[u].text /\ Key(M[u]) = Key(A[d]) BY <1>13
  <2>3. A[c].id # NoId BY <1>14, <2>1 DEF Key
  <2> QED BY <1>1, <1>14, <2>1, <2>2, <2>3
<1>15. ASSUME NEW t \in TrackIds, NEW u \in TrackIds, rows0[t].text = rows0[u].text, M[t].id # NoId,
              GroupsOf(gs, t) = GroupsOf(gs, u), t # u
       PROVE  M[t].aliases = M[u].aliases
  <2>1. CASE GroupsOf(gs, t) = {}
    <3>1. \A g \in gs : g[2] # t /\ g[2] # u BY <1>15, <2>1 DEF GroupsOf
    <3>2. t \in C /\ u \in C BY <1>2, <3>1
    <3>3. \A g \in gs : t \notin MembersOf(gs, g[1]) /\ u \notin MembersOf(gs, g[1])
      BY <3>1 DEF MembersOf
    <3>4. last[t] = {} /\ last[u] = {} BY <1>3, <3>3, LastFacts
    <3> QED BY <1>1, <1>6, <1>15, <3>2, <3>4
  <2>2. CASE GroupsOf(gs, t) # {}
    <3>1. PICK k : k \in GroupsOf(gs, t) BY <2>2
    <3>2. PICK g \in gs, h \in gs : g[1] = k /\ g[2] = t /\ h[1] = k /\ h[2] = u BY <1>15, <3>1 DEF GroupsOf
    <3> DEFINE S == MembersOf(gs, k)
    <3>3. S = MembersOf(gs, g[1]) /\ t \in S /\ u \in S BY <1>9, <3>2
    <3>4. S \in SyncedBy(A, gs, t) /\ S \in SyncedBy(A, gs, u) BY <1>12, <1>15, <3>3
    <3>5. last[t] = S /\ last[u] = S
      <4>1. \A f \in gs : t \in MembersOf(gs, f[1]) => f[1] = k
        <5> SUFFICES ASSUME NEW f \in gs, t \in MembersOf(gs, f[1]) PROVE f[1] = k OBVIOUS
        <5>1. <<f[1], t>> \in gs BY DEF MembersOf
        <5> QED BY <3>2, <5>1 DEF OfOneText
      <4>2. \A f \in gs : u \in MembersOf(gs, f[1]) => f[1] = k
        <5> SUFFICES ASSUME NEW f \in gs, u \in MembersOf(gs, f[1]) PROVE f[1] = k OBVIOUS
        <5>1. <<f[1], u>> \in gs BY DEF MembersOf
        <5> QED BY <3>2, <5>1 DEF OfOneText
      <4>3. last[t] # {} /\ last[u] # {} BY <1>3, <3>4, LastFacts
      <4> QED BY <1>3, <4>1, <4>2, <4>3, LastFacts
    <3>6. S \in SUBSET TrackIds /\ MainOf(A, S) # {} /\ S # {} BY <1>11, <3>3
    <3> HIDE DEF S
    <3>7. InSync(A, S, t).aliases = InSync(A, S, u).aliases BY <1>1, <3>6, SyncFacts
    <3> QED BY <1>6, <3>5, <3>6, <3>7
  <2> QED BY <2>1, <2>2
<1> QED BY <1>8, <1>14, <1>15 DEF OneSong, M, A

-----------------------------------------------------------------------------
(* Numbering.  The identities outside X have their versions numbered.      *)
NumberedBut(rs, X) ==
    \A t \in TrackIds : (rs[t].id # NoId /\ Key(rs[t]) \notin X) =>
        (rs[t].ver <= 1 <=> t = Min(Holders(rs, Key(rs[t]))))
Recorded(gs) == gs \subseteq (Sources \X Ids) \X TrackIds
\* The same rows but for their versions.
SameKeys(R, rs) == \A t \in TrackIds : Key(R[t]) = Key(rs[t]) /\ R[t].id = rs[t].id

LEMMA HoldersFacts ==
  ASSUME NEW rs, NEW k
  PROVE  /\ Holders(rs, k) \in SUBSET TrackIds
         /\ \A t \in TrackIds : t \in Holders(rs, k) <=> rs[t].id # NoId /\ Key(rs[t]) = k
BY DEF Holders

LEMMA SameHolders ==
  ASSUME NEW rs, NEW R, SameKeys(R, rs), NEW k
  PROVE  Holders(R, k) = Holders(rs, k)
<1>1. \A t \in TrackIds : R[t].id = rs[t].id /\ Key(R[t]) = Key(rs[t]) BY DEF SameKeys
<1> QED BY <1>1 DEF Holders

LEMMA RowsForFacts ==
  ASSUME NEW rs \in [TrackIds -> Row], NEW k
  PROVE  Recorded(RowsFor(k, Holders(rs, k)))
<1> SUFFICES ASSUME NEW t \in Holders(rs, k) PROVE <<k, t>> \in (Sources \X Ids) \X TrackIds
  BY DEF Recorded, RowsFor
<1>1. t \in TrackIds /\ rs[t].id # NoId /\ k = Key(rs[t]) BY HoldersFacts
<1>2. rs[t].src \in Sources /\ rs[t].id \in Ids BY <1>1, RowFields DEF AnyId
<1>3. k \in Sources \X Ids BY <1>1, <1>2 DEF Key
<1> QED BY <1>1, <1>3

LEMMA AnotherVersion ==
  ASSUME NEW left, NEW r \in KeptRow(left), NEW v \in 0..TrackCount
  PROVE  LET R == [r EXCEPT !.ver = v] IN
         R \in KeptRow(left) /\ Key(R) = Key(r) /\ R.id = r.id /\ R.ver = v
<1> DEFINE R == [r EXCEPT !.ver = v]
<1>1. r \in Row /\ InStep(r) /\ HeatFits(r, left) BY DEF KeptRow
<1>2. R \in Row BY <1>1 DEF Row
<1>3. R.src = r.src /\ R.id = r.id /\ R.aliases = r.aliases /\ R.heat = r.heat /\ R.ver = v BY <1>1 DEF Row
<1> HIDE DEF R
<1>4. InStep(R) /\ HeatFits(R, left) BY <1>1, <1>3 DEF InStep, HeatFits
<1>5. R \in KeptRow(left) BY <1>2, <1>4 DEF KeptRow
<1>6. Key(R) = Key(r) BY <1>3 DEF Key
<1> QED BY <1>3, <1>5, <1>6 DEF R

LEMMA NumberedFacts ==
  ASSUME NEW left, NEW rs \in [TrackIds -> KeptRow(left)], NEW S \in SUBSET TrackIds
  PROVE  /\ Numbered(rs, S) \in [TrackIds -> KeptRow(left)] /\ SameKeys(Numbered(rs, S), rs)
         /\ \A t \in S : Numbered(rs, S)[t].ver <= 1 <=> t = Min(S)
         /\ \A t \in TrackIds \ S : Numbered(rs, S)[t] = rs[t]
<1> DEFINE R(t) == [rs[t] EXCEPT !.ver = RankIn(S, t)]
<1>1. Numbered(rs, S) = [t \in TrackIds |-> IF t \in S THEN R(t) ELSE rs[t]] BY DEF Numbered
<1>2. \A t \in S : /\ R(t) \in KeptRow(left) /\ Key(R(t)) = Key(rs[t]) /\ R(t).id = rs[t].id
                   /\ R(t).ver = RankIn(S, t)
  <2> SUFFICES ASSUME NEW t \in S PROVE /\ R(t) \in KeptRow(left) /\ Key(R(t)) = Key(rs[t]) /\ R(t).id = rs[t].id
                                        /\ R(t).ver = RankIn(S, t)
    OBVIOUS
  <2>1. RankIn(S, t) \in 1..TrackCount BY RankFacts
  <2>2. RankIn(S, t) \in 0..TrackCount BY <2>1
  <2> QED BY <2>2, AnotherVersion
<1> HIDE DEF R
<1> QED BY <1>1, <1>2, RankFacts DEF SameKeys

LEMMA ListedFacts ==
  ASSUME NEW left, NEW rs \in [TrackIds -> KeptRow(left)], NEW S \in SUBSET TrackIds
  PROVE  /\ Listed(rs, S) \in [TrackIds -> KeptRow(left)] /\ SameKeys(Listed(rs, S), rs)
         /\ \A t \in S : Listed(rs, S)[t].ver = 0
         /\ \A t \in TrackIds \ S : Listed(rs, S)[t] = rs[t]
<1> DEFINE R(t) == [rs[t] EXCEPT !.ver = 0]
<1>1. Listed(rs, S) = [t \in TrackIds |-> IF t \in S THEN R(t) ELSE rs[t]] BY DEF Listed
<1>2. 0 \in 0..TrackCount BY TrackNumbers
<1>3. \A t \in S : R(t) \in KeptRow(left) /\ Key(R(t)) = Key(rs[t]) /\ R(t).id = rs[t].id /\ R(t).ver = 0
  BY <1>2, AnotherVersion
<1> HIDE DEF R
<1> QED BY <1>1, <1>3 DEF SameKeys

\* Numbering the holders of k, or listing the only one, settles k.
LEMMA Settles ==
  ASSUME NEW rs, NEW R, NEW k, NEW X, NumberedBut(rs, X), SameKeys(R, rs),
         \A t \in Holders(rs, k) : R[t].ver <= 1 <=> t = Min(Holders(rs, k)),
         \A t \in TrackIds \ Holders(rs, k) : R[t] = rs[t]
  PROVE  NumberedBut(R, X \ {k})
<1> SUFFICES ASSUME NEW t \in TrackIds, R[t].id # NoId, Key(R[t]) \notin X \ {k}
             PROVE  R[t].ver <= 1 <=> t = Min(Holders(R, Key(R[t])))
  BY DEF NumberedBut
<1>1. rs[t].id # NoId /\ Key(rs[t]) = Key(R[t]) BY DEF SameKeys
<1>2. Holders(R, Key(R[t])) = Holders(rs, Key(R[t])) BY SameHolders
<1>3. CASE Key(R[t]) = k
  <2>1. t \in Holders(rs, k) BY <1>1, <1>3, HoldersFacts
  <2> QED BY <1>2, <1>3, <2>1
<1>4. CASE Key(R[t]) # k
  <2>1. t \notin Holders(rs, k) BY <1>1, <1>4, HoldersFacts
  <2>2. Key(rs[t]) \notin X BY <1>1, <1>4
  <2> QED BY <1>1, <1>2, <2>1, <2>2 DEF NumberedBut
<1> QED BY <1>3, <1>4

LEMMA LoneIsFirst ==
  ASSUME NEW S \in SUBSET TrackIds, Cardinality(S) < 2, NEW t \in S
  PROVE  t = Min(S)
<1>1. IsFiniteSet(S) /\ Cardinality(S) \in Nat BY TracksAreFinite
<1>2. Cardinality(S) # 0 BY <1>1, FS_EmptySet
<1>3. Cardinality(S) = 1 BY <1>1, <1>2
<1>4. PICK a : S = {a} BY <1>1, <1>3, FS_Singleton
<1>5. Min(S) \in S BY MinFacts
<1> QED BY <1>4, <1>5

LEMMA LeaveFacts ==
  ASSUME NEW left, NEW rs \in [TrackIds -> KeptRow(left)], NEW gs, Recorded(gs), NEW old \in Sources \X AnyId, NEW X,
         NumberedBut(rs, X)
  PROVE  LET L == LeaveGroup(rs, gs, old) IN
         /\ L[1] \in [TrackIds -> KeptRow(left)] /\ SameKeys(L[1], rs) /\ Recorded(L[2])
         /\ NumberedBut(L[1], X \ {old})
<1> DEFINE S == Holders(rs, old)
<1>1. S \in SUBSET TrackIds BY HoldersFacts
<1>2. rs \in [TrackIds -> Row] BY RowsAreRows
<1>3. SameKeys(rs, rs) BY DEF SameKeys
<1>4. CASE old[2] = NoId
  <2>1. LeaveGroup(rs, gs, old) = <<rs, gs>> BY <1>4 DEF LeaveGroup
  <2>2. \A t \in TrackIds : rs[t].id # NoId => Key(rs[t]) # old BY <1>4 DEF Key
  <2>3. NumberedBut(rs, X \ {old}) BY <2>2 DEF NumberedBut
  <2> QED BY <1>3, <2>1, <2>3
<1>5. CASE old[2] # NoId /\ Cardinality(S) < 2
  <2> DEFINE R == Listed(rs, S)  D == {g \in gs : g[1][2] # old[2]}
  <2>1. LeaveGroup(rs, gs, old) = <<R, D>> BY <1>5 DEF LeaveGroup
  <2>2. Recorded(D) BY DEF Recorded
  <2>3. /\ R \in [TrackIds -> KeptRow(left)] /\ SameKeys(R, rs)
        /\ \A t \in S : R[t].ver = 0
        /\ \A t \in TrackIds \ S : R[t] = rs[t] BY <1>1, ListedFacts
  <2>4. \A t \in S : R[t].ver <= 1 <=> t = Min(S) BY <1>1, <1>5, <2>3, LoneIsFirst
  <2> HIDE DEF R, D
  <2>5. NumberedBut(R, X \ {old}) BY <2>3, <2>4, Settles
  <2> QED BY <2>1, <2>2, <2>3, <2>5
<1>6. CASE old[2] # NoId /\ ~(Cardinality(S) < 2)
  <2> DEFINE R == Numbered(rs, S)  D == gs \cup RowsFor(old, S)
  <2>1. LeaveGroup(rs, gs, old) = <<R, D>> BY <1>6 DEF LeaveGroup
  <2>2. Recorded(D) BY <1>2, RowsForFacts DEF Recorded
  <2>3. /\ R \in [TrackIds -> KeptRow(left)] /\ SameKeys(R, rs)
        /\ \A t \in S : R[t].ver <= 1 <=> t = Min(S)
        /\ \A t \in TrackIds \ S : R[t] = rs[t] BY <1>1, NumberedFacts
  <2> HIDE DEF R, D
  <2>4. NumberedBut(R, X \ {old}) BY <2>3, Settles
  <2> QED BY <2>1, <2>2, <2>3, <2>4
<1> QED BY <1>4, <1>5, <1>6

LEMMA JoinFacts ==
  ASSUME NEW left, NEW rs \in [TrackIds -> KeptRow(left)], NEW gs, Recorded(gs), NEW k, NEW X, NumberedBut(rs, X)
  PROVE  LET J == JoinGroup(rs, gs, k) IN
         /\ J[1] \in [TrackIds -> KeptRow(left)] /\ SameKeys(J[1], rs) /\ Recorded(J[2])
         /\ NumberedBut(J[1], X \ {k})
<1> DEFINE S == Holders(rs, k)
<1>1. S \in SUBSET TrackIds BY HoldersFacts
<1>2. rs \in [TrackIds -> Row] BY RowsAreRows
<1>3. CASE ~(Cardinality(S) >= 2)
  <2> DEFINE R == Listed(rs, S)
  <2>1. JoinGroup(rs, gs, k) = <<R, gs>> BY <1>3 DEF JoinGroup
  <2>2. /\ R \in [TrackIds -> KeptRow(left)] /\ SameKeys(R, rs)
        /\ \A t \in S : R[t].ver = 0
        /\ \A t \in TrackIds \ S : R[t] = rs[t] BY <1>1, ListedFacts
  <2>3. Cardinality(S) < 2 BY <1>1, <1>3, TracksAreFinite
  <2>4. \A t \in S : R[t].ver <= 1 <=> t = Min(S) BY <1>1, <2>2, <2>3, LoneIsFirst
  <2> HIDE DEF R
  <2>5. NumberedBut(R, X \ {k}) BY <2>2, <2>4, Settles
  <2> QED BY <2>1, <2>2, <2>5
<1>4. CASE Cardinality(S) >= 2
  <2> DEFINE R == Numbered(rs, S)  D == gs \cup RowsFor(k, S)
  <2>1. JoinGroup(rs, gs, k) = <<R, D>> BY <1>4 DEF JoinGroup
  <2>2. Recorded(D) BY <1>2, RowsForFacts DEF Recorded
  <2>3. /\ R \in [TrackIds -> KeptRow(left)] /\ SameKeys(R, rs)
        /\ \A t \in S : R[t].ver <= 1 <=> t = Min(S)
        /\ \A t \in TrackIds \ S : R[t] = rs[t] BY <1>1, NumberedFacts
  <2> HIDE DEF R, D
  <2>4. NumberedBut(R, X \ {k}) BY <2>3, Settles
  <2> QED BY <2>1, <2>2, <2>3, <2>4
<1> QED BY <1>3, <1>4

LEMMA ReResolveFacts ==
  ASSUME NEW left, NEW rs \in [TrackIds -> KeptRow(left)], NEW gs, Recorded(gs), NEW old \in Sources \X AnyId, NEW new,
         NEW X, NumberedBut(rs, X)
  PROVE  LET A == reResolveVersions(rs, gs, old, new) IN
         A[1] \in [TrackIds -> KeptRow(left)] /\ Recorded(A[2]) /\ NumberedBut(A[1], X \ {old, new})
<1> DEFINE L == LeaveGroup(rs, gs, old)
           A == JoinGroup(L[1], L[2], new)
<1>1. L[1] \in [TrackIds -> KeptRow(left)] /\ Recorded(L[2]) /\ NumberedBut(L[1], X \ {old}) BY LeaveFacts
<1> HIDE DEF L
<1>2. /\ A[1] \in [TrackIds -> KeptRow(left)] /\ Recorded(A[2])
      /\ NumberedBut(A[1], (X \ {old}) \ {new}) BY <1>1, JoinFacts
<1>3. A = reResolveVersions(rs, gs, old, new) BY DEF reResolveVersions, L
<1>4. (X \ {old}) \ {new} = X \ {old, new} OBVIOUS
<1> QED BY <1>2, <1>3, <1>4

LEMMA DropFacts ==
  ASSUME NEW left, NEW rs \in [TrackIds -> KeptRow(left)], NEW gs, Recorded(gs), NEW t \in TrackIds, rs[t].id = NoId,
         NEW old, NEW X, NumberedBut(rs, X)
  PROVE  LET D == DropFromGroups(rs, gs, t, old) IN
         D[1] \in [TrackIds -> KeptRow(left)] /\ Recorded(D[2]) /\ NumberedBut(D[1], X \ {old})
<1> DEFINE own == Listed(rs, {t})
           rest == Holders(own, old)
           R == Numbered(own, rest)
           G == {g \in gs : g[2] # t} \cup RowsFor(old, rest)
<1>1. /\ own \in [TrackIds -> KeptRow(left)] /\ SameKeys(own, rs)
      /\ \A u \in TrackIds \ {t} : own[u] = rs[u] BY ListedFacts
<1>2. own[t].id = NoId BY <1>1 DEF SameKeys
<1>3. DropFromGroups(rs, gs, t, old) = <<R, G>> BY DEF DropFromGroups
<1> HIDE DEF own
<1>4. own \in [TrackIds -> Row] BY <1>1, RowsAreRows
<1>5. NumberedBut(own, X)
  <2> SUFFICES ASSUME NEW u \in TrackIds, own[u].id # NoId, Key(own[u]) \notin X
               PROVE  own[u].ver <= 1 <=> u = Min(Holders(own, Key(own[u])))
    BY DEF NumberedBut
  <2>1. u # t /\ own[u] = rs[u] BY <1>1, <1>2
  <2>2. Holders(own, Key(own[u])) = Holders(rs, Key(own[u])) BY <1>1, SameHolders
  <2> QED BY <2>1, <2>2 DEF NumberedBut
<1>6. rest \in SUBSET TrackIds BY HoldersFacts
<1>7. /\ R \in [TrackIds -> KeptRow(left)] /\ SameKeys(R, own)
      /\ \A u \in rest : R[u].ver <= 1 <=> u = Min(rest)
      /\ \A u \in TrackIds \ rest : R[u] = own[u] BY <1>1, <1>6, NumberedFacts
<1>8. Recorded(G) BY <1>4, RowsForFacts DEF Recorded
<1> HIDE DEF R, G
<1>9. NumberedBut(R, X \ {old}) BY <1>5, <1>7, Settles
<1> QED BY <1>3, <1>7, <1>8, <1>9

\* Writing one row unsettles the identity it had and the one it gets.
LEMMA OneRowUnsettles ==
  ASSUME NEW rs \in [TrackIds -> Row], NumberedBut(rs, {}), NEW t \in TrackIds, NEW r
  PROVE  NumberedBut([rs EXCEPT ![t] = r], {Key(rs[t]), Key(r)})
<1> DEFINE R == [rs EXCEPT ![t] = r]
<1>1. R[t] = r /\ \A u \in TrackIds \ {t} : R[u] = rs[u] OBVIOUS
<1> HIDE DEF R
<1> SUFFICES ASSUME NEW u \in TrackIds, R[u].id # NoId, Key(R[u]) \notin {Key(rs[t]), Key(r)}
             PROVE  R[u].ver <= 1 <=> u = Min(Holders(R, Key(R[u])))
  BY DEF NumberedBut, R
<1>2. u # t /\ R[u] = rs[u] BY <1>1
<1> DEFINE k == Key(R[u])
<1>3. \A v \in TrackIds : v \in Holders(R, k) <=> v \in Holders(rs, k)
  <2> SUFFICES ASSUME NEW v \in TrackIds PROVE v \in Holders(R, k) <=> v \in Holders(rs, k) OBVIOUS
  <2>1. CASE v = t BY <1>1, <2>1, HoldersFacts
  <2>2. CASE v # t BY <1>1, <2>2, HoldersFacts
  <2> QED BY <2>1, <2>2
<1>4. Holders(R, k) = Holders(rs, k) BY <1>3, HoldersFacts
<1> QED BY <1>2, <1>4 DEF NumberedBut

\* Writing one row with the identity and the version it had, or leaving a
\* track without an identity, unsettles nothing.
LEMMA SameRowSettled ==
  ASSUME NEW rs \in [TrackIds -> Row], NumberedBut(rs, {}), NEW t \in TrackIds, NEW r,
         (Key(r) = Key(rs[t]) /\ r.id = rs[t].id /\ r.ver = rs[t].ver) \/ (r.id = NoId /\ rs[t].id = NoId)
  PROVE  NumberedBut([rs EXCEPT ![t] = r], {})
<1> DEFINE R == [rs EXCEPT ![t] = r]
<1>1. R[t] = r /\ \A u \in TrackIds \ {t} : R[u] = rs[u] OBVIOUS
<1> HIDE DEF R
<1>2. \A v \in TrackIds : /\ R[v].id # NoId <=> rs[v].id # NoId
                          /\ R[v].id # NoId => Key(R[v]) = Key(rs[v]) /\ R[v].ver = rs[v].ver
  BY <1>1
<1>3. ASSUME NEW k PROVE Holders(R, k) = Holders(rs, k)
  <2>1. \A v \in TrackIds : (R[v].id # NoId /\ Key(R[v]) = k) <=> (rs[v].id # NoId /\ Key(rs[v]) = k)
    BY <1>2
  <2> QED BY <2>1 DEF Holders
<1>4. NumberedBut(R, {})
  <2> SUFFICES ASSUME NEW u \in TrackIds, R[u].id # NoId
               PROVE  R[u].ver <= 1 <=> u = Min(Holders(R, Key(R[u])))
    BY DEF NumberedBut
  <2>1. rs[u].id # NoId /\ Key(R[u]) = Key(rs[u]) /\ R[u].ver = rs[u].ver BY <1>2
  <2>2. Holders(R, Key(R[u])) = Holders(rs, Key(rs[u])) BY <1>3, <2>1
  <2> QED BY <2>1, <2>2 DEF NumberedBut
<1> QED BY <1>4 DEF R

-----------------------------------------------------------------------------
(* The inductive invariant.                                                *)
ScanRecords == [pc : ScanPcs, copy : [TrackIds -> Row] \cup {<<>>}, next : Nat, overwrite : BOOLEAN, tidy : BOOLEAN]
TrackRowsInv == rows \in [TrackIds -> KeptRow(budget)] /\ budget \in 0..MaxTrackWork
ScanInv ==
    /\ scan \in ScanRecords
    /\ scan.pc = "walk" => scan.next \in TrackIds /\ scan.copy \in [TrackIds -> KeptRow(budget)]
EditInv == edit # NoEdit => edit.track \in TrackIds /\ edit.row \in KeptRow(budget)
RestInv == Filed /\ Remembering /\ Recorded(groups) /\ agreed \in BOOLEAN
NumbersInv == agreed => NumberedBut(rows, {})
TracksInv == TrackRowsInv /\ ScanInv /\ EditInv /\ RestInv /\ NumbersInv /\ OneSongOneIdentity

LEMMA InvMeansTracksSound == TracksInv => TracksSound
<1> SUFFICES ASSUME TracksInv PROVE TracksSound OBVIOUS
<1>1. rows \in [TrackIds -> Row] /\ \A t \in TrackIds : InStep(rows[t])
  BY RowsAreRows DEF TracksInv, TrackRowsInv, KeptRow
<1>2. scan.pc \in ScanPcs BY DEF TracksInv, ScanInv, ScanRecords
<1>3. edit # NoEdit => edit.track \in TrackIds /\ edit.row \in Row BY DEF TracksInv, EditInv, KeptRow
<1>4. \A t \in TrackIds : remembered[t] \in Found \cup {NoEdit} BY DEF TracksInv, RestInv, Remembering
<1>5. \A g \in groups : g[1] \in Sources \X Ids /\ g[2] \in TrackIds BY DEF TracksInv, RestInv, Recorded
<1>6. TracksTypeOK BY <1>1, <1>2, <1>3, <1>4, <1>5 DEF TracksTypeOK
<1>7. AliasInStep BY <1>1 DEF AliasInStep, InStep
<1>8. ListedOnce BY DEF TracksInv, NumbersInv, NumberedBut, ListedOnce
<1> QED BY <1>6, <1>7, <1>8 DEF TracksSound, TracksInv

LEMMA KeptLonger ==
  ASSUME NEW left \in Nat, NEW less \in Nat, less <= left
  PROVE  KeptRow(left) \subseteq KeptRow(less)
<1> SUFFICES ASSUME NEW r \in KeptRow(left) PROVE r \in KeptRow(less) OBVIOUS
<1>1. r.heat \in Nat /\ r.heat + left <= MaxTrackWork BY RowFields, TracksAssumption DEF KeptRow, HeatFits
<1>2. r.heat + less <= MaxTrackWork BY <1>1, TracksAssumption
<1> QED BY <1>2 DEF KeptRow, HeatFits

LEMMA FreshFile ==
  ASSUME NEW n \in Songs, NEW fresh \in BOOLEAN
  PROVE  [song |-> n, fresh |-> fresh] \in [song : Songs, fresh : BOOLEAN]
OBVIOUS

LEMMA FreshFiles ==
  ASSUME NEW fs \in [TrackIds -> {[song |-> n, fresh |-> TRUE] : n \in Songs}]
  PROVE  fs \in [TrackIds -> [song : Songs, fresh : BOOLEAN]]
<1>1. ASSUME NEW t \in TrackIds PROVE fs[t] \in [song : Songs, fresh : BOOLEAN]
  <2>1. PICK n \in Songs : fs[t] = [song |-> n, fresh |-> TRUE] OBVIOUS
  <2> QED BY <2>1, FreshFile
<1> QED BY <1>1

LEMMA TracksStart == TracksInit => TracksInv
<1> SUFFICES ASSUME TracksInit PROVE TracksInv OBVIOUS
<1> USE DEF TracksInit
<1>1. MaxTrackWork \in Nat /\ 0 \in 0..TrackCount BY TracksAssumption, TrackNumbers
<1>2. Filed BY FreshFiles DEF Filed
<1>3. ASSUME NEW t \in TrackIds PROVE rows[t] \in KeptRow(budget)
  <2>1. files[t].song \in Songs BY <1>2 DEF Filed
  <2>2. rows[t] = [src |-> "user", id |-> NoId, aliases |-> NoAliases, ver |-> 0, text |-> files[t].song, heat |-> 0]
    OBVIOUS
  <2>3. NoAliases \in [Sources -> Ids \cup {NoId}] BY IdFacts DEF IdTables, AnyId
  <2>4. 0 \in 0..MaxTrackWork BY <1>1
  <2>5. rows[t] \in Row BY <1>1, <2>1, <2>2, <2>3, <2>4, SourceNames DEF Row
  <2>6. InStep(rows[t]) /\ HeatFits(rows[t], budget) BY <1>1, <2>2 DEF InStep, HeatFits
  <2> QED BY <2>5, <2>6 DEF KeptRow
<1>4. TrackRowsInv
  <2>1. rows \in [TrackIds -> KeptRow(budget)] BY <1>3
  <2> QED BY <1>1, <2>1 DEF TrackRowsInv
<1>5. ScanInv BY DEF ScanInv, ScanRecords, Unscanned, ScanPcs
<1>6. RestInv BY <1>2 DEF RestInv, Remembering, Recorded
<1>7. NumbersInv BY DEF NumbersInv, NumberedBut
<1>8. OneSongOneIdentity BY DEF OneSongOneIdentity, Unscanned
<1> QED BY <1>4, <1>5, <1>6, <1>7, <1>8 DEF TracksInv, EditInv

-----------------------------------------------------------------------------
(* The steps of a scan.                                                    *)
LEMMA WorkIsDone ==
  ASSUME TrackRowsInv, budget > 0, budget' = budget - 1
  PROVE  budget' \in 0..MaxTrackWork /\ KeptRow(budget) \subseteq KeptRow(budget')
<1>1. budget \in Nat /\ budget' \in Nat /\ budget' <= budget /\ budget' \in 0..MaxTrackWork
  BY TracksAssumption DEF TrackRowsInv
<1> QED BY <1>1, KeptLonger

LEMMA ScanLibraryKeeps ==
  ASSUME TracksInv, NEW overwrite \in BOOLEAN, ScanLibrary(overwrite)
  PROVE  TracksInv'
<1> USE DEF ScanLibrary
<1>1. budget' \in 0..MaxTrackWork /\ KeptRow(budget) \subseteq KeptRow(budget') BY WorkIsDone DEF TracksInv
<1>2. rows \in [TrackIds -> KeptRow(budget)] /\ rows \in [TrackIds -> Row] BY RowsAreRows DEF TracksInv, TrackRowsInv
<1>3. rows \in [TrackIds -> KeptRow(budget')] BY <1>1, <1>2
<1>4. TrackRowsInv' BY <1>1, <1>3 DEF TrackRowsInv
<1>5. 1 \in TrackIds /\ 1 \in Nat BY TracksAssumption DEF TrackIds
<1>6. ScanInv' BY <1>2, <1>3, <1>5 DEF ScanInv, ScanRecords, ScanPcs
<1>7. EditInv' BY <1>1 DEF EditInv, TracksInv
<1>8. RestInv' BY DEF RestInv, Filed, Remembering, TracksInv
<1>9. NumbersInv' BY DEF NumbersInv, TracksInv
<1>10. OneSongOneIdentity' BY DEF OneSongOneIdentity
<1> QED BY <1>4, <1>6, <1>7, <1>8, <1>9, <1>10 DEF TracksInv

LEMMA ScanTrackKeeps == ASSUME TracksInv, ScanTrack PROVE TracksInv'
<1> DEFINE t == scan.next
<1>0. /\ scan.pc = "walk" /\ files' = [files EXCEPT ![t].fresh = FALSE] /\ agreed' = FALSE /\ WalkOn
      /\ UNCHANGED <<groups, remembered, edit, listens, budget>> BY DEF ScanTrack
<1>1. PICK hit \in Answers(t, TRUE) \cup {NoEdit}, changed \in BOOLEAN :
         LET r == Visited(t, hit) IN
         rows' = tryMergeByIdentifiedID(IF changed THEN [rows EXCEPT ![t] = r] ELSE rows, t, r)
  BY DEF ScanTrack
<1>2. t \in TrackIds /\ scan.copy \in [TrackIds -> KeptRow(budget)] /\ scan \in ScanRecords
  BY <1>0 DEF TracksInv, ScanInv
<1>3. hit \in Found \cup {NoEdit} BY <1>2, AnswersFacts DEF TracksInv, RestInv
<1>4. rows \in [TrackIds -> KeptRow(budget)] /\ budget \in 0..MaxTrackWork BY DEF TracksInv, TrackRowsInv
<1>5. scan.overwrite \in BOOLEAN BY <1>2 DEF ScanRecords
<1>6. Visited(t, hit) \in KeptRow(budget) BY <1>2, <1>3, <1>5, VisitedFacts DEF TracksInv, RestInv
<1> DEFINE stored == IF changed THEN [rows EXCEPT ![t] = Visited(t, hit)] ELSE rows
<1>7. stored \in [TrackIds -> KeptRow(budget)] BY <1>2, <1>4, <1>6
<1> HIDE DEF stored
<1>8. rows' = tryMergeByIdentifiedID(stored, t, Visited(t, hit)) BY <1>1 DEF stored
<1>9. rows' \in [TrackIds -> KeptRow(budget)] BY <1>2, <1>6, <1>7, <1>8, TriedFacts
<1>10. TrackRowsInv' BY <1>0, <1>4, <1>9 DEF TrackRowsInv
<1>11. ScanInv'
  <2>1. scan' = [scan EXCEPT !.next = @ + 1, !.pc = IF scan.next = TrackCount THEN "merge" ELSE @]
    BY <1>0 DEF WalkOn
  <2>2. scan' \in ScanRecords
    <3>1. scan.next + 1 \in Nat BY <1>2 DEF ScanRecords
    <3>2. (IF scan.next = TrackCount THEN "merge" ELSE scan.pc) \in ScanPcs BY <1>2 DEF ScanRecords, ScanPcs
    <3> QED BY <1>2, <2>1, <3>1, <3>2 DEF ScanRecords
  <2>3. scan'.next = t + 1 /\ scan'.copy = scan.copy /\ (t = TrackCount => scan'.pc = "merge")
    BY <1>2, <2>1 DEF ScanRecords
  <2>4. t # TrackCount => t + 1 \in TrackIds BY <1>2, TrackNumbers
  <2> QED BY <1>0, <1>2, <2>2, <2>3, <2>4 DEF ScanInv
<1>12. EditInv' BY <1>0 DEF EditInv, TracksInv
<1>13. RestInv'
  <2>1. Filed' BY <1>0, <1>2 DEF Filed, TracksInv, RestInv
  <2> QED BY <1>0, <2>1 DEF RestInv, Remembering, TracksInv
<1>14. NumbersInv' BY <1>0 DEF NumbersInv
<1>15. OneSongOneIdentity'
  <2>1. scan'.pc \in {"walk", "merge"} BY <1>0, <1>2 DEF WalkOn, ScanRecords
  <2> QED BY <2>1 DEF OneSongOneIdentity
<1> QED BY <1>10, <1>11, <1>12, <1>13, <1>14, <1>15 DEF TracksInv

LEMMA MergeKeeps == ASSUME TracksInv, mergeDuplicates PROVE TracksInv'
<1> DEFINE A == Aligned(rows, groups)
<1>0. /\ scan.pc = "merge" /\ agreed' = FALSE
      /\ scan' = [scan EXCEPT !.pc = "resolve", !.tidy = OfOneText(rows, groups)]
      /\ UNCHANGED <<groups, files, remembered, edit, listens, budget>>
  BY DEF mergeDuplicates
<1>1. rows \in [TrackIds -> KeptRow(budget)] /\ Recorded(groups) /\ scan \in ScanRecords
  BY DEF TracksInv, TrackRowsInv, RestInv, ScanInv
<1>2. \/ TrackCount < 2 /\ rows' = rows
      \/ \E last : LatestOf(A, groups, last) /\ rows' = Merged(A, last)
  BY DEF mergeDuplicates, LatestOf, Merged
<1>3. A \in [TrackIds -> KeptRow(budget)] BY <1>1, AlignedFacts
<1> HIDE DEF A
<1>4. rows' \in [TrackIds -> KeptRow(budget)] BY <1>1, <1>2, <1>3, MergedFacts
<1>5. OfOneText(rows, groups) => OneSong(rows', groups)
  <2> SUFFICES ASSUME OfOneText(rows, groups) PROVE OneSong(rows', groups) OBVIOUS
  <2>1. CASE TrackCount < 2
    <3>1. \A t, u \in TrackIds : t = u BY <2>1, TrackNumbers
    <3> QED BY <3>1 DEF OneSong
  <2>2. CASE \E last : LatestOf(A, groups, last) /\ rows' = Merged(A, last)
    <3>1. PICK last : LatestOf(A, groups, last) /\ rows' = Merged(A, last) BY <2>2
    <3> QED BY <1>1, <3>1, MergeMakesOneSong DEF A, Recorded
  <2> QED BY <1>2, <2>1, <2>2
<1>6. /\ scan' \in ScanRecords /\ scan'.pc = "resolve"
      /\ scan'.tidy => OfOneText(rows, groups)
  <2>1. OfOneText(rows, groups) \in BOOLEAN BY DEF OfOneText
  <2> QED BY <1>0, <1>1, <2>1 DEF ScanRecords, ScanPcs
<1>7. OneSongOneIdentity' BY <1>0, <1>5, <1>6 DEF OneSongOneIdentity, OneSong
<1>8. TrackRowsInv' BY <1>0, <1>4 DEF TrackRowsInv, TracksInv
<1>9. ScanInv' BY <1>6 DEF ScanInv
<1>10. EditInv' BY <1>0 DEF EditInv, TracksInv
<1>11. RestInv' BY <1>0 DEF RestInv, Filed, Remembering, TracksInv
<1>12. NumbersInv' BY <1>0 DEF NumbersInv
<1> QED BY <1>7, <1>8, <1>9, <1>10, <1>11, <1>12 DEF TracksInv

\* Only the versions change.
LEMMA ResolvedFacts ==
  ASSUME NEW left, NEW rs \in [TrackIds -> KeptRow(left)], NEW gs, Recorded(gs)
  PROVE  /\ Resolved(rs) \in [TrackIds -> KeptRow(left)] /\ SameKeys(Resolved(rs), rs)
         /\ \A t \in TrackIds : mergeKey(Resolved(rs)[t]) = mergeKey(rs[t])
         /\ NumberedBut(Resolved(rs), {})
         /\ Recorded(ResolvedGroups(rs, gs))
<1> DEFINE S(t) == Holders(rs, Key(rs[t]))
           v(t) == IF Cardinality(S(t)) < 2 THEN 0 ELSE RankIn(S(t), t)
           R(t) == [rs[t] EXCEPT !.ver = v(t)]
           Q == Resolved(rs)
<1>1. Q = [t \in TrackIds |-> IF rs[t].id = NoId THEN rs[t] ELSE R(t)] BY DEF Resolved
<1>2. ASSUME NEW t \in TrackIds, rs[t].id # NoId PROVE v(t) \in 0..TrackCount /\ (v(t) <= 1 <=> t = Min(S(t)))
  <2>1. S(t) \in SUBSET TrackIds /\ t \in S(t) BY <1>2, HoldersFacts
  <2> HIDE DEF S
  <2>2. CASE Cardinality(S(t)) < 2
    <3>1. v(t) = 0 /\ 0 \in 0..TrackCount BY <2>2, TrackNumbers
    <3>2. t = Min(S(t)) BY <2>1, <2>2, LoneIsFirst
    <3> QED BY <3>1, <3>2
  <2>3. CASE ~(Cardinality(S(t)) < 2)
    <3>1. v(t) = RankIn(S(t), t) BY <2>3
    <3>2. RankIn(S(t), t) \in 1..TrackCount /\ (RankIn(S(t), t) <= 1 <=> t = Min(S(t))) BY <2>1, RankFacts
    <3>3. 1..TrackCount \subseteq 0..TrackCount OBVIOUS
    <3> QED BY <3>1, <3>2, <3>3
  <2> QED BY <2>2, <2>3
<1> HIDE DEF v, S
<1>3. ASSUME NEW t \in TrackIds, rs[t].id # NoId
      PROVE  /\ R(t) \in KeptRow(left) /\ Key(R(t)) = Key(rs[t]) /\ R(t).id = rs[t].id /\ R(t).ver = v(t)
             /\ mergeKey(R(t)) = mergeKey(rs[t])
  <2>1. rs[t] \in Row BY RowsAreRows
  <2>2. mergeKey(R(t)) = mergeKey(rs[t]) BY <2>1 DEF mergeKey, Row
  <2> QED BY <1>2, <1>3, <2>2, AnotherVersion
<1> HIDE DEF R
<1>4. \A t \in TrackIds : Q[t] = IF rs[t].id = NoId THEN rs[t] ELSE R(t) BY <1>1
<1>5. Q \in [TrackIds -> KeptRow(left)] BY <1>1, <1>3
<1> HIDE DEF Q
<1>6. SameKeys(Q, rs) BY <1>3, <1>4 DEF SameKeys
<1>7. NumberedBut(Q, {})
  <2> SUFFICES ASSUME NEW t \in TrackIds, Q[t].id # NoId PROVE Q[t].ver <= 1 <=> t = Min(Holders(Q, Key(Q[t])))
    BY DEF NumberedBut
  <2>1. rs[t].id # NoId /\ Key(Q[t]) = Key(rs[t]) BY <1>6 DEF SameKeys
  <2>2. Holders(Q, Key(Q[t])) = S(t) BY <1>6, <2>1, SameHolders DEF S
  <2>3. Q[t].ver = v(t) BY <1>3, <1>4, <2>1
  <2> QED BY <1>2, <2>1, <2>2, <2>3
<1>8. Recorded(ResolvedGroups(rs, gs))
  <2> SUFFICES ASSUME NEW g \in ResolvedGroups(rs, gs) PROVE g \in (Sources \X Ids) \X TrackIds BY DEF Recorded
  <2>1. g \in gs \/ \E k : g \in RowsFor(k, Holders(rs, k)) BY DEF ResolvedGroups
  <2>2. rs \in [TrackIds -> Row] BY RowsAreRows
  <2> QED BY <2>1, <2>2, RowsForFacts DEF Recorded
<1> QED BY <1>3, <1>4, <1>5, <1>6, <1>7, <1>8 DEF Q

LEMMA ResolveKeeps == ASSUME TracksInv, resolveVersions PROVE TracksInv'
<1>0. /\ scan.pc = "resolve" /\ rows' = Resolved(rows) /\ groups' = ResolvedGroups(rows, groups)
      /\ scan' = [scan EXCEPT !.pc = "avatars"] /\ agreed' = TRUE
      /\ UNCHANGED <<files, remembered, edit, listens, budget>>
  BY DEF resolveVersions
<1>1. rows \in [TrackIds -> KeptRow(budget)] /\ Recorded(groups) /\ scan \in ScanRecords
  BY DEF TracksInv, TrackRowsInv, RestInv, ScanInv
<1>2. /\ rows' \in [TrackIds -> KeptRow(budget)] /\ SameKeys(rows', rows)
      /\ \A t \in TrackIds : mergeKey(rows'[t]) = mergeKey(rows[t])
      /\ NumberedBut(rows', {}) /\ Recorded(groups')
  BY <1>0, <1>1, ResolvedFacts
<1>3. scan' \in ScanRecords /\ scan'.pc = "avatars" /\ scan'.tidy = scan.tidy BY <1>0, <1>1 DEF ScanRecords, ScanPcs
<1>4. OneSongOneIdentity'
  <2> SUFFICES ASSUME scan.tidy, NEW t \in TrackIds, NEW u \in TrackIds,
                      mergeKey(rows'[t]) = mergeKey(rows'[u]), rows'[t].id # NoId
               PROVE  Key(rows'[t]) = Key(rows'[u])
    BY <1>3 DEF OneSongOneIdentity
  <2>1. mergeKey(rows[t]) = mergeKey(rows[u]) /\ rows[t].id # NoId BY <1>2 DEF SameKeys
  <2>2. Key(rows[t]) = Key(rows[u]) BY <1>0, <2>1 DEF TracksInv, OneSongOneIdentity
  <2> QED BY <1>2, <2>2 DEF SameKeys
<1>5. TrackRowsInv' BY <1>0, <1>2 DEF TrackRowsInv, TracksInv
<1>6. ScanInv' BY <1>3 DEF ScanInv
<1>7. EditInv' BY <1>0 DEF EditInv, TracksInv
<1>8. RestInv' BY <1>0, <1>2 DEF RestInv, Filed, Remembering, TracksInv
<1>9. NumbersInv' BY <1>2 DEF NumbersInv
<1> QED BY <1>4, <1>5, <1>6, <1>7, <1>8, <1>9 DEF TracksInv

LEMMA UnscannedFacts == Unscanned \in ScanRecords /\ Unscanned.pc = "idle"
BY DEF Unscanned, ScanRecords, ScanPcs

LEMMA AddExternalIDKeeps == ASSUME TracksInv, AddExternalID PROVE TracksInv'
<1>0. scan' = Unscanned /\ UNCHANGED <<groups, files, remembered, edit, listens, agreed, budget>> BY DEF AddExternalID
<1>1. PICK t \in TrackIds, s \in Platforms :
         rows[t].src # s /\ rows' = [rows EXCEPT ![t].aliases[s] = [src |-> s, song |-> rows[t].text]]
  BY DEF AddExternalID
<1> DEFINE r == rows[t]
           a == [r.aliases EXCEPT ![s] = [src |-> s, song |-> r.text]]
           R == [r EXCEPT !.aliases = a]
<1>2. r \in KeptRow(budget) /\ rows \in [TrackIds -> KeptRow(budget)] BY DEF TracksInv, TrackRowsInv
<1>3. rows' = [rows EXCEPT ![t] = R] BY <1>1
<1> HIDE DEF r
<1>4. r \in Row /\ InStep(r) /\ r.text \in Songs /\ r.aliases \in IdTables BY <1>2, RowFields DEF KeptRow
<1>5. [src |-> s, song |-> r.text] \in AnyId /\ s \in Sources BY <1>4, IdFacts, SourceNames DEF AnyId
<1>6. a \in IdTables /\ a[r.src] = r.aliases[r.src] BY <1>1, <1>4, <1>5, RowFields DEF IdTables, r
<1> HIDE DEF a
<1>7. R \in Row BY <1>4, <1>6 DEF Row, AnyId, IdTables
<1>8. R.src = r.src /\ R.id = r.id /\ R.ver = r.ver /\ R.heat = r.heat /\ R.aliases = a BY <1>4 DEF Row
<1> HIDE DEF R
<1>9. InStep(R) BY <1>4, <1>6, <1>8 DEF InStep
<1>10. R \in KeptRow(budget) BY <1>2, <1>7, <1>8, <1>9, KeptLike DEF Like
<1>11. TrackRowsInv' BY <1>0, <1>2, <1>3, <1>10 DEF TrackRowsInv, TracksInv
<1>12. NumbersInv'
  <2> SUFFICES ASSUME agreed PROVE NumberedBut(rows', {}) BY <1>0 DEF NumbersInv
  <2>1. NumberedBut(rows, {}) BY DEF TracksInv, NumbersInv
  <2>2. Key(R) = Key(rows[t]) /\ R.id = rows[t].id /\ R.ver = rows[t].ver BY <1>8 DEF Key, r
  <2>3. rows \in [TrackIds -> Row] BY <1>2, RowsAreRows
  <2> QED BY <1>3, <2>1, <2>2, <2>3, SameRowSettled
<1>13. ScanInv' BY <1>0, UnscannedFacts DEF ScanInv
<1>14. OneSongOneIdentity' BY <1>0, UnscannedFacts DEF OneSongOneIdentity
<1>15. EditInv' BY <1>0 DEF EditInv, TracksInv
<1>16. RestInv' BY <1>0 DEF RestInv, Filed, Remembering, TracksInv
<1> QED BY <1>11, <1>12, <1>13, <1>14, <1>15, <1>16 DEF TracksInv

LEMMA EndScanKeeps == ASSUME TracksInv, EndScan PROVE TracksInv'
<1> USE DEF EndScan
<1>1. ScanInv' BY UnscannedFacts DEF ScanInv
<1>2. OneSongOneIdentity' BY UnscannedFacts DEF OneSongOneIdentity
<1>3. TrackRowsInv' /\ EditInv' /\ RestInv' /\ NumbersInv'
  BY DEF TracksInv, TrackRowsInv, EditInv, RestInv, Filed, Remembering, NumbersInv
<1> QED BY <1>1, <1>2, <1>3 DEF TracksInv

LEMMA LessWork ==
  ASSUME TracksInv, budget > 0, budget' = budget - 1, UNCHANGED scan
  PROVE  /\ budget' \in 0..MaxTrackWork /\ KeptRow(budget) \subseteq KeptRow(budget')
         /\ rows \in [TrackIds -> KeptRow(budget')] /\ ScanInv'
<1>1. budget' \in 0..MaxTrackWork /\ KeptRow(budget) \subseteq KeptRow(budget') BY WorkIsDone DEF TracksInv
<1>2. rows \in [TrackIds -> KeptRow(budget')] BY <1>1 DEF TracksInv, TrackRowsInv
<1>3. ScanInv' BY <1>1 DEF TracksInv, ScanInv
<1> QED BY <1>1, <1>2, <1>3

LEMMA ReplaceFileKeeps == ASSUME TracksInv, NEW t \in TrackIds, ReplaceFile(t) PROVE TracksInv'
<1>0. /\ budget > 0 /\ budget' = budget - 1 /\ remembered' = [remembered EXCEPT ![t] = NoEdit]
      /\ UNCHANGED <<rows, groups, scan, edit, listens, agreed>>
  BY DEF ReplaceFile
<1>1. PICK n \in Songs : files' = [files EXCEPT ![t] = [song |-> n, fresh |-> TRUE]] BY DEF ReplaceFile
<1>2. /\ budget' \in 0..MaxTrackWork /\ KeptRow(budget) \subseteq KeptRow(budget')
      /\ rows \in [TrackIds -> KeptRow(budget')] /\ ScanInv' BY <1>0, LessWork
<1>3. TrackRowsInv' BY <1>0, <1>2 DEF TrackRowsInv
<1>4. EditInv' BY <1>0, <1>2 DEF EditInv, TracksInv
<1>5. RestInv'
  <2>1. [song |-> n, fresh |-> TRUE] \in [song : Songs, fresh : BOOLEAN] BY FreshFile
  <2>2. Filed' BY <1>1, <2>1 DEF Filed, TracksInv, RestInv
  <2>3. Remembering' BY <1>0 DEF Remembering, TracksInv, RestInv
  <2> QED BY <1>0, <2>2, <2>3 DEF RestInv, TracksInv
<1>6. NumbersInv' /\ OneSongOneIdentity' BY <1>0 DEF NumbersInv, OneSongOneIdentity, TracksInv
<1> QED BY <1>2, <1>3, <1>4, <1>5, <1>6 DEF TracksInv

LEMMA CountPlayKeeps == ASSUME TracksInv, NEW t \in TrackIds, CountPlay(t) PROVE TracksInv'
<1>0. /\ budget > 0 /\ budget' = budget - 1 /\ rows' = [rows EXCEPT ![t].heat = @ + 1]
      /\ UNCHANGED <<groups, files, remembered, scan, edit, agreed>>
  BY DEF CountPlay
<1>1. /\ budget' \in 0..MaxTrackWork /\ KeptRow(budget) \subseteq KeptRow(budget')
      /\ rows \in [TrackIds -> KeptRow(budget')] /\ ScanInv' BY <1>0, LessWork
<1>2. rows \in [TrackIds -> KeptRow(budget)] /\ rows \in [TrackIds -> Row] /\ budget \in 0..MaxTrackWork
  BY RowsAreRows DEF TracksInv, TrackRowsInv
<1> DEFINE r == rows[t]
           R == [r EXCEPT !.heat = @ + 1]
<1>3. rows' = [rows EXCEPT ![t] = R] BY <1>0
<1>4. r \in Row /\ InStep(r) /\ HeatFits(r, budget) BY <1>2 DEF KeptRow
<1>5. r.heat \in 0..MaxTrackWork BY <1>4, RowFields
<1>6. r.heat + 1 \in 0..MaxTrackWork /\ r.heat + 1 + budget' <= MaxTrackWork
  BY <1>0, <1>2, <1>4, <1>5, TracksAssumption DEF HeatFits
<1> HIDE DEF r
<1>7. R \in Row BY <1>4, <1>6 DEF Row
<1>8. /\ R.src = r.src /\ R.id = r.id /\ R.ver = r.ver /\ R.heat = r.heat + 1 /\ R.aliases = r.aliases
      /\ R.text = r.text
  BY <1>4 DEF Row
<1> HIDE DEF R
<1>9. InStep(R) /\ HeatFits(R, budget') BY <1>4, <1>6, <1>8 DEF InStep, HeatFits
<1>10. R \in KeptRow(budget') BY <1>7, <1>9 DEF KeptRow
<1>11. TrackRowsInv' BY <1>1, <1>3, <1>10 DEF TrackRowsInv
<1>12. NumbersInv'
  <2> SUFFICES ASSUME agreed PROVE NumberedBut(rows', {}) BY <1>0 DEF NumbersInv
  <2>1. NumberedBut(rows, {}) BY DEF TracksInv, NumbersInv
  <2>2. Key(R) = Key(rows[t]) /\ R.id = rows[t].id /\ R.ver = rows[t].ver BY <1>8 DEF Key, r
  <2> QED BY <1>2, <1>3, <2>1, <2>2, SameRowSettled
<1>13. OneSongOneIdentity'
  <2>1. \A u \in TrackIds : /\ mergeKey(rows'[u]) = mergeKey(rows[u]) /\ rows'[u].id = rows[u].id
                            /\ Key(rows'[u]) = Key(rows[u]) /\ rows'[u].aliases = rows[u].aliases
    BY <1>2, <1>3, <1>8 DEF mergeKey, Key, r
  <2> QED BY <1>0, <2>1 DEF OneSongOneIdentity, TracksInv
<1>14. EditInv' BY <1>0, <1>1 DEF EditInv, TracksInv
<1>15. RestInv' BY <1>0 DEF RestInv, Filed, Remembering, TracksInv
<1> QED BY <1>1, <1>11, <1>12, <1>13, <1>14, <1>15 DEF TracksInv

LEMMA BeginEditKeeps ==
  ASSUME TracksInv, NEW kind, NEW t \in TrackIds, BeginEdit(kind, t)
  PROVE  TracksInv'
<1>0. /\ budget > 0 /\ budget' = budget - 1 /\ edit' = [kind |-> kind, track |-> t, row |-> rows[t]]
      /\ remembered' = IF kind = "reidentify" THEN [remembered EXCEPT ![t] = NoEdit] ELSE remembered
      /\ UNCHANGED <<rows, groups, files, scan, listens, agreed>>
  BY DEF BeginEdit
<1>1. /\ budget' \in 0..MaxTrackWork /\ KeptRow(budget) \subseteq KeptRow(budget')
      /\ rows \in [TrackIds -> KeptRow(budget')] /\ ScanInv' BY <1>0, LessWork
<1>2. TrackRowsInv' BY <1>0, <1>1 DEF TrackRowsInv
<1>3. EditInv' BY <1>0, <1>1 DEF EditInv
<1>4. RestInv' BY <1>0 DEF RestInv, Filed, Remembering, TracksInv
<1>5. NumbersInv' /\ OneSongOneIdentity' BY <1>0 DEF NumbersInv, OneSongOneIdentity, TracksInv
<1> QED BY <1>1, <1>2, <1>3, <1>4, <1>5 DEF TracksInv

-----------------------------------------------------------------------------
(* The steps of the editor.                                                *)
LEMMA WriteBackKeeps ==
  ASSUME TracksInv, NEW r, NEW regroups, WrittenBack(r, regroups), rows' \in [TrackIds -> KeptRow(budget)],
         Recorded(groups'), Remembering', agreed' => NumberedBut(rows', {})
  PROVE  TracksInv'
<1>0. edit' = NoEdit /\ scan' = [scan EXCEPT !.tidy = FALSE] /\ UNCHANGED <<files, listens, budget>>
  BY DEF WrittenBack
<1>1. agreed' \in BOOLEAN BY DEF WrittenBack
<1>2. TrackRowsInv' BY <1>0 DEF TrackRowsInv, TracksInv
<1>3. scan' \in ScanRecords /\ scan'.tidy = FALSE /\ scan'.pc = scan.pc /\ scan'.next = scan.next /\ scan'.copy = scan.copy
  BY <1>0 DEF TracksInv, ScanInv, ScanRecords
<1>4. ScanInv' BY <1>0, <1>3 DEF ScanInv, TracksInv
<1>5. EditInv' BY <1>0 DEF EditInv
<1>6. RestInv' BY <1>0, <1>1 DEF RestInv, Filed, TracksInv
<1>7. NumbersInv' BY DEF NumbersInv
<1>8. OneSongOneIdentity' BY <1>3 DEF OneSongOneIdentity
<1> QED BY <1>2, <1>4, <1>5, <1>6, <1>7, <1>8 DEF TracksInv

\* A regrouping that counts was made from the row as it is.
LEMMA FromTheRow ==
  ASSUME TracksInv, edit # NoEdit, NEW r, NEW regroups, WrittenBack(r, regroups), agreed'
  PROVE  /\ regroups /\ NumberedBut(rows, {})
         /\ Key(edit.row) = Key(rows[edit.track]) /\ edit.row.id = rows[edit.track].id
         /\ edit.row.ver = rows[edit.track].ver
<1>1. agreed /\ regroups /\ [edit.row EXCEPT !.heat = 0] = [rows[edit.track] EXCEPT !.heat = 0] BY DEF WrittenBack
<1>2. edit.row \in Row /\ rows[edit.track] \in Row BY DEF TracksInv, EditInv, TrackRowsInv, KeptRow
<1> DEFINE a == edit.row  b == rows[edit.track]
<1>3. \A x \in Row : LET y == [x EXCEPT !.heat = 0] IN y.src = x.src /\ y.id = x.id /\ y.ver = x.ver BY DEF Row
<1>4. [a EXCEPT !.heat = 0] = [b EXCEPT !.heat = 0] /\ a \in Row /\ b \in Row BY <1>1, <1>2
<1> HIDE DEF a, b
<1>5. a.src = b.src /\ a.id = b.id /\ a.ver = b.ver BY <1>3, <1>4
<1> QED BY <1>1, <1>5 DEF TracksInv, NumbersInv, Key, a, b

LEMMA EditTypes ==
  ASSUME TracksInv, edit # NoEdit
  PROVE  /\ edit.track \in TrackIds /\ edit.row \in KeptRow(budget)
         /\ rows \in [TrackIds -> KeptRow(budget)] /\ rows \in [TrackIds -> Row]
         /\ Filed /\ Remembering /\ Recorded(groups)
         /\ Key(edit.row) \in Sources \X AnyId
<1>1. edit.row \in KeptRow(budget) BY DEF TracksInv, EditInv
<1>2. Key(edit.row) \in Sources \X AnyId BY <1>1, RowFields DEF KeptRow, Key
<1> QED BY <1>2, RowsAreRows DEF TracksInv, EditInv, TrackRowsInv, RestInv

LEMMA SaveKeeps == ASSUME TracksInv, Save PROVE TracksInv'
<1> DEFINE t == edit.track  old == edit.row
<1>0. edit # NoEdit BY DEF Save
<1>1. PICK id \in Ids :
        LET r     == SavedRow(old, id)
            rs    == [rows EXCEPT ![t] = r]
            after == IF old.id = id THEN <<rs, groups>> ELSE reResolveVersions(rs, groups, Key(old), Key(r))
        IN  /\ rows' = after[1] /\ groups' = after[2]
            /\ remembered' = [remembered EXCEPT ![t] = HitOf(id)]
            /\ WrittenBack(r, Key(old) = Key(r) \/ old.id # id)
  BY DEF Save
<1> DEFINE r  == SavedRow(old, id)
           rs == [rows EXCEPT ![t] = r]
<1>2. /\ t \in TrackIds /\ old \in KeptRow(budget) /\ rows \in [TrackIds -> KeptRow(budget)] /\ rows \in [TrackIds -> Row]
      /\ Remembering /\ Recorded(groups) /\ Key(old) \in Sources \X AnyId
  BY <1>0, EditTypes
<1>3. r \in KeptRow(budget) /\ Like(r, old) /\ Key(r) = <<id.src, id>> /\ r.id = id
  BY <1>2, SavedRowFacts DEF Key
<1>4. WrittenBack(r, Key(old) = Key(r) \/ old.id # id) BY <1>1
<1>5. Remembering' BY <1>1, <1>2, HitFacts DEF Remembering
<1>6. agreed' => /\ Key(old) = Key(r) \/ old.id # id
                 /\ NumberedBut(rows, {}) /\ Key(old) = Key(rows[t]) /\ old.id = rows[t].id /\ old.ver = rows[t].ver
  BY <1>0, <1>4, FromTheRow
<1>7. old.id = id => rows' = rs /\ groups' = groups BY <1>1
<1>8. old.id # id => LET A == reResolveVersions(rs, groups, Key(old), Key(r)) IN rows' = A[1] /\ groups' = A[2] BY <1>1
<1> HIDE DEF r, t, old
<1>9. rs \in [TrackIds -> KeptRow(budget)] BY <1>2, <1>3
<1>10. CASE old.id = id
  <2>1. agreed' => NumberedBut(rs, {})
    <3> SUFFICES ASSUME agreed' PROVE NumberedBut(rs, {}) OBVIOUS
    <3>1. Key(r) = Key(rows[t]) /\ r.id = rows[t].id /\ r.ver = rows[t].ver BY <1>3, <1>6, <1>10 DEF Like
    <3> QED BY <1>2, <1>6, <3>1, SameRowSettled
  <2> HIDE DEF rs
  <2> QED BY <1>2, <1>4, <1>5, <1>7, <1>9, <1>10, <2>1, WriteBackKeeps
<1>11. CASE old.id # id
  <2>1. NumberedBut(rs, IF agreed' THEN {Key(old), Key(r)} ELSE {Key(rs[u]) : u \in TrackIds})
    <3>1. CASE agreed' BY <1>2, <1>6, <3>1, OneRowUnsettles
    <3>2. CASE ~agreed' BY <3>2 DEF NumberedBut
    <3> QED BY <3>1, <3>2
  <2> DEFINE A == reResolveVersions(rs, groups, Key(old), Key(r))
             X == IF agreed' THEN {Key(old), Key(r)} ELSE {Key(rs[u]) : u \in TrackIds}
  <2> HIDE DEF rs
  <2>2. A[1] \in [TrackIds -> KeptRow(budget)] /\ Recorded(A[2]) /\ NumberedBut(A[1], X \ {Key(old), Key(r)})
    BY <1>2, <1>9, <2>1, ReResolveFacts
  <2>3. agreed' => X \ {Key(old), Key(r)} = {} OBVIOUS
  <2> HIDE DEF A, X
  <2>4. rows' = A[1] /\ groups' = A[2] BY <1>8, <1>11 DEF A
  <2>5. agreed' => NumberedBut(rows', {}) BY <2>2, <2>3, <2>4
  <2> QED BY <1>4, <1>5, <2>2, <2>4, <2>5, WriteBackKeeps
<1> QED BY <1>10, <1>11

LEMMA SaveSourceKeeps == ASSUME TracksInv, SaveSource PROVE TracksInv'
<1> DEFINE t == edit.track  old == edit.row
           cleared == IF old.id = NoId THEN old ELSE SetExternalID(old, HasTable(old), NoId)
<1>0. edit # NoEdit BY DEF SaveSource
<1>1. PICK s \in Sources :
        LET r     == [cleared EXCEPT !.src = s]
            rs    == [rows EXCEPT ![t] = r]
            after == IF old.id = NoId THEN <<rs, groups>> ELSE DropFromGroups(rs, groups, t, Key(old))
        IN  /\ rows' = after[1] /\ groups' = after[2]
            /\ remembered' = [remembered EXCEPT ![t] = [src |-> s, id |-> NoId, text |-> old.text]]
            /\ WrittenBack(r, TRUE)
  BY DEF SaveSource
<1> DEFINE r  == [cleared EXCEPT !.src = s]
           rs == [rows EXCEPT ![t] = r]
<1>2. /\ t \in TrackIds /\ old \in KeptRow(budget) /\ rows \in [TrackIds -> KeptRow(budget)] /\ rows \in [TrackIds -> Row]
      /\ Remembering /\ Recorded(groups)
  BY <1>0, EditTypes
<1>3. WrittenBack(r, TRUE) BY <1>1
<1>4. remembered' = [remembered EXCEPT ![t] = [src |-> s, id |-> NoId, text |-> old.text]] BY <1>1
<1>5. old.id = NoId => rows' = rs /\ groups' = groups BY <1>1
<1>6. old.id # NoId => LET A == DropFromGroups(rs, groups, t, Key(old)) IN rows' = A[1] /\ groups' = A[2] BY <1>1
<1>7. agreed' => NumberedBut(rows, {}) /\ Key(old) = Key(rows[t]) /\ old.id = rows[t].id
  BY <1>0, <1>3, FromTheRow
<1>8. cleared \in Row /\ Like(cleared, old) /\ cleared.id = NoId
  <2>1. old \in Row BY <1>2 DEF KeptRow
  <2>2. NoId \in AnyId BY DEF AnyId
  <2>3. CASE old.id = NoId BY <2>1, <2>3 DEF Like
  <2>4. CASE old.id # NoId BY <2>1, <2>2, <2>4, SetExternalIDFacts, TableOf DEF Like
  <2> QED BY <2>3, <2>4
<1> HIDE DEF cleared
<1>9. r \in Row /\ Like(r, cleared) /\ r.id = NoId /\ r.src = s BY <1>8 DEF Row, Like
<1> HIDE DEF r
<1>10. r \in KeptRow(budget) BY <1>2, <1>8, <1>9, KeptLike DEF Like, InStep
<1>11. Remembering'
  <2>1. old.text \in Songs BY <1>2, RowFields DEF KeptRow
  <2>2. [src |-> s, id |-> NoId, text |-> old.text] \in Found BY <2>1 DEF Found
  <2> QED BY <1>2, <1>4, <2>2 DEF Remembering
<1> HIDE DEF t, old
<1>12. rs \in [TrackIds -> KeptRow(budget)] BY <1>2, <1>10
<1>13. CASE old.id = NoId
  <2>1. agreed' => NumberedBut(rs, {}) BY <1>2, <1>7, <1>9, <1>13, SameRowSettled
  <2> HIDE DEF rs
  <2> QED BY <1>2, <1>3, <1>5, <1>11, <1>12, <1>13, <2>1, WriteBackKeeps
<1>14. CASE old.id # NoId
  <2> DEFINE X == IF agreed' THEN {Key(old), Key(r)} ELSE {Key(rs[u]) : u \in TrackIds}
             A == DropFromGroups(rs, groups, t, Key(old))
  <2>1. NumberedBut(rs, X)
    <3>1. CASE agreed' BY <1>2, <1>7, <3>1, OneRowUnsettles
    <3>2. CASE ~agreed' BY <3>2 DEF NumberedBut
    <3> QED BY <3>1, <3>2
  <2>2. rs[t].id = NoId BY <1>2, <1>9
  <2> HIDE DEF rs
  <2>3. A[1] \in [TrackIds -> KeptRow(budget)] /\ Recorded(A[2]) /\ NumberedBut(A[1], X \ {Key(old)})
    BY <1>2, <1>12, <2>1, <2>2, DropFacts
  <2>4. agreed' => X \ {Key(old)} \subseteq {Key(r)} OBVIOUS
  <2> HIDE DEF A, X
  <2>5. Key(r)[2] = NoId BY <1>9 DEF Key
  <2>6. rows' = A[1] /\ groups' = A[2] BY <1>6, <1>14 DEF A
  <2>7. agreed' => NumberedBut(rows', {})
    <3> SUFFICES ASSUME agreed', NEW u \in TrackIds, A[1][u].id # NoId
                 PROVE  A[1][u].ver <= 1 <=> u = Min(Holders(A[1], Key(A[1][u])))
      BY <2>6 DEF NumberedBut
    <3>1. Key(A[1][u]) # Key(r) BY <2>5 DEF Key
    <3> QED BY <2>3, <2>4, <3>1 DEF NumberedBut
  <2> QED BY <1>3, <1>11, <2>3, <2>6, <2>7, WriteBackKeeps
<1> QED BY <1>13, <1>14

LEMMA IdentifyKeeps == ASSUME TracksInv, Identify PROVE TracksInv'
<1> DEFINE t == edit.track  old == edit.row
<1>0. edit # NoEdit /\ UNCHANGED <<groups, remembered>> BY DEF Identify
<1>1. PICK id \in Ids :
        LET cleared == IF old.src # id.src /\ old.id # NoId THEN SetExternalID(old, HasTable(old), NoId) ELSE old
            r    == SetExternalID([cleared EXCEPT !.src = id.src, !.text = id.song], HasTable(old), id)
        IN  rows' = [rows EXCEPT ![t] = r] /\ WrittenBack(r, Key(old) = Key(r))
  BY DEF Identify
<1> DEFINE cleared == IF old.src # id.src /\ old.id # NoId THEN SetExternalID(old, HasTable(old), NoId) ELSE old
           based == [cleared EXCEPT !.src = id.src, !.text = id.song]
           r == SetExternalID(based, HasTable(old), id)
           rs == [rows EXCEPT ![t] = r]
<1>2. /\ t \in TrackIds /\ old \in KeptRow(budget) /\ rows \in [TrackIds -> KeptRow(budget)] /\ rows \in [TrackIds -> Row]
      /\ Remembering /\ Recorded(groups)
  BY <1>0, EditTypes
<1>3. rows' = rs /\ WrittenBack(r, Key(old) = Key(r)) BY <1>1
<1>4. agreed' => /\ Key(old) = Key(r) /\ NumberedBut(rows, {})
                 /\ Key(old) = Key(rows[t]) /\ old.ver = rows[t].ver
  BY <1>0, <1>3, FromTheRow
<1>5. old \in Row /\ HasTable(old) \in BOOLEAN /\ (HasTable(old) \/ old.aliases = NoAliases)
  BY <1>2, TableOf DEF KeptRow
<1>6. id \in AnyId /\ NoId \in AnyId /\ id.src \in Sources /\ id.song \in Songs BY IdFacts, SourceNames DEF AnyId
<1> HIDE DEF old
<1>7. cleared \in Row /\ Like(cleared, old) /\ (HasTable(old) \/ cleared.aliases = NoAliases)
  BY <1>5, <1>6, SetExternalIDFacts DEF Like
<1> HIDE DEF cleared
<1>8. based \in Row /\ Like(based, cleared) /\ based.src = id.src /\ based.aliases = cleared.aliases
  BY <1>6, <1>7 DEF Row, Like
<1> HIDE DEF based
<1>9. r \in Row /\ InStep(r) /\ Like(r, based) /\ r.id = id
  BY <1>5, <1>6, <1>7, <1>8, SetExternalIDFacts DEF Like
<1> HIDE DEF r
<1>10. r \in KeptRow(budget) /\ r.ver = old.ver BY <1>2, <1>7, <1>8, <1>9, KeptLike DEF Like
<1>11. rs \in [TrackIds -> KeptRow(budget)] BY <1>2, <1>10
<1>12. agreed' => NumberedBut(rs, {})
  <2> SUFFICES ASSUME agreed' PROVE NumberedBut(rs, {}) OBVIOUS
  <2>1. Key(r) = Key(rows[t]) /\ r.ver = rows[t].ver BY <1>4, <1>10
  <2>2. r.id = rows[t].id BY <2>1 DEF Key
  <2> QED BY <1>2, <1>4, <2>1, <2>2, SameRowSettled
<1> HIDE DEF rs
<1>13. Remembering' BY <1>0, <1>2 DEF Remembering
<1> QED BY <1>0, <1>2, <1>3, <1>11, <1>12, <1>13, WriteBackKeeps

LEMMA ReidentifyKeeps == ASSUME TracksInv, Reidentify PROVE TracksInv'
<1> DEFINE t == edit.track  old == edit.row
<1>0. edit # NoEdit /\ UNCHANGED remembered BY DEF Reidentify
<1>1. PICK hit \in Answers(t, FALSE) :
        LET other == Key(old) # Key(hit)
            r     == IF other THEN Afresh(old, hit) ELSE Adopted(WithRecordingId(old, RecordingId(t), TRUE), hit, TRUE)
            rs    == [rows EXCEPT ![t] = r]
            after == IF other THEN reResolveVersions(rs, groups, Key(old), Key(r)) ELSE <<rs, groups>>
        IN  rows' = after[1] /\ groups' = after[2] /\ WrittenBack(r, TRUE)
  BY DEF Reidentify
<1> DEFINE other == Key(old) # Key(hit)
           m == WithRecordingId(old, RecordingId(t), TRUE)
           r == IF other THEN Afresh(old, hit) ELSE Adopted(m, hit, TRUE)
           rs == [rows EXCEPT ![t] = r]
<1>2. /\ t \in TrackIds /\ old \in KeptRow(budget) /\ rows \in [TrackIds -> KeptRow(budget)] /\ rows \in [TrackIds -> Row]
      /\ Filed /\ Remembering /\ Recorded(groups) /\ Key(old) \in Sources \X AnyId
  BY <1>0, EditTypes
<1>3. WrittenBack(r, TRUE) BY <1>1
<1>4. ~other => rows' = rs /\ groups' = groups BY <1>1
<1>5. other => LET A == reResolveVersions(rs, groups, Key(old), Key(r)) IN rows' = A[1] /\ groups' = A[2] BY <1>1
<1>6. agreed' => /\ NumberedBut(rows, {}) /\ Key(old) = Key(rows[t]) /\ old.id = rows[t].id
                 /\ old.ver = rows[t].ver
  BY <1>0, <1>3, FromTheRow
<1>7. hit \in Found /\ hit.id # NoId BY <1>2, AnswersFacts
<1>8. m \in KeptRow(budget) /\ Like(m, old) BY <1>2, WithRecordingIdFacts, RecordingIdFacts DEF Filed
<1> HIDE DEF m
<1>9. r \in KeptRow(budget) /\ Key(r) = Key(hit) /\ (~other => r.ver = old.ver)
  <2>1. CASE other BY <1>2, <1>7, <2>1, AfreshFacts
  <2>2. CASE ~other
    <3>1. r = Adopted(m, hit, TRUE) BY <2>2
    <3> HIDE DEF r
    <3>2. r \in KeptRow(budget) /\ Like(r, m) /\ r.src = hit.src /\ r.id = hit.id BY <1>7, <1>8, <3>1, AdoptedFacts
    <3> QED BY <1>8, <3>2 DEF Like, Key
  <2> QED BY <2>1, <2>2
<1>10. other <=> Key(old) # Key(hit) OBVIOUS
<1> HIDE DEF r, t, old, other
<1>11. rs \in [TrackIds -> KeptRow(budget)] BY <1>2, <1>9
<1>12. Remembering' BY <1>0, <1>2 DEF Remembering
<1>13. CASE ~other
  <2>1. agreed' => NumberedBut(rs, {})
    <3> SUFFICES ASSUME agreed' PROVE NumberedBut(rs, {}) OBVIOUS
    <3>1. Key(r) = Key(rows[t]) /\ r.ver = rows[t].ver BY <1>6, <1>9, <1>10, <1>13
    <3>2. r.id = rows[t].id BY <3>1 DEF Key
    <3> QED BY <1>2, <1>6, <3>1, <3>2, SameRowSettled
  <2> HIDE DEF rs
  <2> QED BY <1>2, <1>3, <1>4, <1>11, <1>12, <1>13, <2>1, WriteBackKeeps
<1>14. CASE other
  <2> DEFINE A == reResolveVersions(rs, groups, Key(old), Key(r))
             X == IF agreed' THEN {Key(old), Key(r)} ELSE {Key(rs[u]) : u \in TrackIds}
  <2>1. NumberedBut(rs, X)
    <3>1. CASE agreed' BY <1>2, <1>6, <3>1, OneRowUnsettles
    <3>2. CASE ~agreed' BY <3>2 DEF NumberedBut
    <3> QED BY <3>1, <3>2
  <2> HIDE DEF rs
  <2>2. A[1] \in [TrackIds -> KeptRow(budget)] /\ Recorded(A[2]) /\ NumberedBut(A[1], X \ {Key(old), Key(r)})
    BY <1>2, <1>11, <2>1, ReResolveFacts
  <2>3. agreed' => X \ {Key(old), Key(r)} = {} OBVIOUS
  <2> HIDE DEF A, X
  <2>4. rows' = A[1] /\ groups' = A[2] BY <1>5, <1>14 DEF A
  <2>5. agreed' => NumberedBut(rows', {}) BY <2>2, <2>3, <2>4
  <2> QED BY <1>3, <1>12, <2>2, <2>4, <2>5, WriteBackKeeps
<1> QED BY <1>13, <1>14

LEMMA UnmatchedKeeps == ASSUME TracksInv, Unmatched PROVE TracksInv'
<1> DEFINE t == edit.track  old == edit.row
           r == [old EXCEPT !.src = "user", !.id = NoId, !.aliases = NoAliases, !.text = files[t].song]
           rs == [rows EXCEPT ![t] = r]
<1>0. /\ edit # NoEdit /\ rows' = rs /\ WrittenBack(r, old.id = NoId) /\ UNCHANGED <<groups, remembered>>
  BY DEF Unmatched
<1>1. /\ t \in TrackIds /\ old \in KeptRow(budget) /\ rows \in [TrackIds -> KeptRow(budget)] /\ rows \in [TrackIds -> Row]
      /\ Filed /\ Remembering /\ Recorded(groups)
  BY <1>0, EditTypes
<1>2. agreed' => old.id = NoId /\ NumberedBut(rows, {}) /\ old.id = rows[t].id BY <1>0, FromTheRow
<1>3. old \in Row /\ files[t].song \in Songs BY <1>1 DEF KeptRow, Filed
<1> HIDE DEF old
<1>4. NoAliases \in [Sources -> Ids \cup {NoId}] BY IdFacts DEF IdTables, AnyId
<1>5. r \in Row BY <1>3, <1>4, SourceNames DEF Row
<1>6. Like(r, old) /\ r.id = NoId BY <1>3 DEF Row, Like
<1> HIDE DEF r
<1>7. r \in KeptRow(budget) BY <1>1, <1>5, <1>6, KeptLike DEF InStep
<1>8. rs \in [TrackIds -> KeptRow(budget)] BY <1>1, <1>7
<1>9. agreed' => NumberedBut(rs, {}) BY <1>1, <1>2, <1>6, SameRowSettled
<1> HIDE DEF rs
<1>10. Remembering' BY <1>0, <1>1 DEF Remembering
<1> QED BY <1>0, <1>1, <1>8, <1>9, <1>10, WriteBackKeeps

-----------------------------------------------------------------------------
LEMMA TracksStep == TracksInv /\ [TracksNext]_trackVars => TracksInv'
<1> SUFFICES ASSUME TracksInv, [TracksNext]_trackVars PROVE TracksInv' OBVIOUS
<1>1. ASSUME NEW overwrite \in BOOLEAN, ScanLibrary(overwrite) PROVE TracksInv' BY <1>1, ScanLibraryKeeps
<1>2. CASE ScanTrack BY <1>2, ScanTrackKeeps
<1>3. CASE mergeDuplicates BY <1>3, MergeKeeps
<1>4. CASE resolveVersions BY <1>4, ResolveKeeps
<1>5. CASE AddExternalID BY <1>5, AddExternalIDKeeps
<1>6. CASE EndScan BY <1>6, EndScanKeeps
<1>7. ASSUME NEW t \in TrackIds, ReplaceFile(t) PROVE TracksInv' BY <1>7, ReplaceFileKeeps
<1>8. ASSUME NEW t \in TrackIds, CountPlay(t) PROVE TracksInv' BY <1>8, CountPlayKeeps
<1>9. ASSUME NEW t \in TrackIds, NEW kind \in Edits \ {"unmatched"}, BeginEdit(kind, t) PROVE TracksInv'
  BY <1>9, BeginEditKeeps
<1>10. CASE Save BY <1>10, SaveKeeps
<1>11. CASE SaveSource BY <1>11, SaveSourceKeeps
<1>12. CASE Identify BY <1>12, IdentifyKeeps
<1>13. CASE Reidentify BY <1>13, ReidentifyKeeps
<1>14. CASE Unmatched BY <1>14, UnmatchedKeeps
<1>15. CASE UNCHANGED trackVars
  <2> USE <1>15 DEF trackVars
  <2>1. TrackRowsInv' /\ ScanInv' /\ EditInv' BY DEF TracksInv, TrackRowsInv, ScanInv, EditInv
  <2>2. RestInv' /\ NumbersInv' BY DEF TracksInv, RestInv, Filed, Remembering, NumbersInv
  <2>3. OneSongOneIdentity' BY DEF TracksInv, OneSongOneIdentity
  <2> QED BY <2>1, <2>2, <2>3 DEF TracksInv
<1> QED BY <1>1, <1>2, <1>3, <1>4, <1>5, <1>6, <1>7, <1>8, <1>9, <1>10, <1>11, <1>12, <1>13, <1>14, <1>15
        DEF TracksNext

(* For any files, songs, edits and plays, however they interleave with the  *)
(* scan: an alias under a row's own source is its id, of the versions of a *)
(* song exactly the best file is listed once a regrouping was not bypassed *)
(* (scanner.go, rest/metadata.go), and after a merge of groups of one text *)
(* all tracks of a text are one song (merge.go).                           *)
THEOREM TracksAreSound == TracksSpec => []TracksSound
<1>1. TracksInit => TracksInv BY TracksStart
<1>2. TracksInv /\ [TracksNext]_trackVars => TracksInv' BY TracksStep
<1>3. TracksInv => TracksSound BY InvMeansTracksSound
<1> QED BY <1>1, <1>2, <1>3, PTL DEF TracksSpec
=============================================================================
