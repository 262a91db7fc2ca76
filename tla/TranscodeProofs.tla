----------------------------- MODULE TranscodeProofs -----------------------------
(***************************************************************************)
(* Proofs about Fmp4 and Transcode, for any finished file of whole         *)
(* fragments, any requests and any number of upsets.                       *)
(***************************************************************************)
EXTENDS Transcode, FiniteSetTheorems, WellFoundedInduction, TLAPS

-----------------------------------------------------------------------------
(* Induction over the natural numbers, as a fact about sets.               *)

Below == {p \in Nat \X Nat : p[1] < p[2]}

LEMMA BelowIsWellFounded == IsWellFoundedOn(Below, Nat)
<1>1. IsWellFoundedOn(OpToRel(<, Nat), Nat) BY NatLessThanWellFounded
<1>2. Below = OpToRel(<, Nat) BY DEF Below, OpToRel
<1> QED BY <1>1, <1>2

LEMMA LeastNatural ==
  ASSUME NEW T \in SUBSET Nat, T # {}
  PROVE  \E n \in T : \A m \in T : n <= m
<1>1. PICK n \in T : \A m \in T : ~(<<m, n>> \in Below) BY BelowIsWellFounded, WFMin
<1>2. \A m \in T : ~(m < n) 
  <2>1. \A m \in T : m < n => <<m, n>> \in Below BY DEF Below
  <2> QED BY <1>1, <2>1
<1> QED BY <1>2

LEMMA Induction ==
  ASSUME NEW S, 0 \in S, \A n \in Nat : n \in S => n + 1 \in S
  PROVE  \A n \in Nat : n \in S
<1> DEFINE T == {n \in Nat : n \notin S}
<1>1. SUFFICES ASSUME T # {} PROVE FALSE OBVIOUS
<1>2. PICK n \in T : \A m \in T : n <= m BY <1>1, LeastNatural
<1>3. n \in Nat \ {0} OBVIOUS
<1>4. n - 1 \in S BY <1>2, <1>3
<1>5. (n - 1) + 1 \in S BY <1>3, <1>4
<1> QED BY <1>3, <1>5

LEMMA GreatestExists ==
  ASSUME NEW N \in Nat, NEW S \in SUBSET (1..N), S # {}
  PROVE  \E n \in S : \A m \in S : m <= n
<1> DEFINE T == {b \in Nat : \A m \in S : m <= b}
<1>1. N \in T OBVIOUS
<1>2. PICK b \in T : \A c \in T : b <= c BY <1>1, LeastNatural
<1>3. b # 0
  <2>1. PICK m \in S : TRUE OBVIOUS
  <2>2. m \in 1..N /\ m <= b BY <1>2, <2>1
  <2> QED BY <2>2
<1>4. ~(b - 1 \in T) BY <1>2, <1>3
<1>5. PICK m \in S : ~(m <= b - 1) BY <1>3, <1>4
<1>6. m = b BY <1>5
<1> QED BY <1>6

-----------------------------------------------------------------------------
(* Where the boxes begin.                                                  *)

N == Len(Boxes)

LEMMA BoxFacts ==
  /\ N \in Nat /\ N > 3 /\ N % 2 = 1
  /\ \A i \in 1..N : Boxes[i].size \in Nat \ {0} /\ Boxes[i].time \in Nat
  /\ \A i \in 1..N : Boxes[i].type = "moof" <=> i % 2 = 0
  /\ \A i \in 1..N : i % 2 = 0 => Boxes[i].time = (i \div 2) - 1
<1>1. /\ N \in Nat /\ N > 3 /\ N % 2 = 1
      /\ \A i \in 1..N : Boxes[i] \in [type : {"moov", "moof", "mdat"}, size : Nat \ {0}, time : Nat]
  <2>1. \A S : \A s \in Seq(S) : Len(s) \in Nat /\ \A i \in 1..Len(s) : s[i] \in S OBVIOUS
  <2> DEFINE Box == [type : {"moov", "moof", "mdat"}, size : Nat \ {0}, time : Nat]
  <2>2. Boxes \in Seq(Box) BY BoxesAssumption
  <2> HIDE DEF Box
  <2>3. Len(Boxes) \in Nat /\ \A i \in 1..Len(Boxes) : Boxes[i] \in Box BY <2>1, <2>2
  <2>4. Len(Boxes) > 3 /\ Len(Boxes) % 2 = 1 BY BoxesAssumption
  <2> QED BY <2>3, <2>4 DEF N, Box
<1>2. \A i \in 1..N : Boxes[i].size \in Nat \ {0} /\ Boxes[i].time \in Nat BY <1>1
<1>3. \A i \in 1..N : Boxes[i].type = "moof" <=> i % 2 = 0
  <2>1. Boxes[1].type = "moov" BY BoxesAssumption
  <2>2. \A i \in 1..N : i > 1 => Boxes[i].type = IF i % 2 = 0 THEN "moof" ELSE "mdat" BY BoxesAssumption DEF N
  <2>3. \A i \in 1..N : i = 1 \/ i > 1 BY <1>1
  <2> QED BY <2>1, <2>2, <2>3
<1>4. \A i \in 1..N : i % 2 = 0 => Boxes[i].time = (i \div 2) - 1
  <2>1. \A i \in 1..N : i % 2 = 0 => i > 1 BY <1>1
  <2> QED BY <2>1, BoxesAssumption DEF N
<1> QED BY <1>1, <1>2, <1>3, <1>4

Begins(f, m) == f = [i \in 1..m |-> IF i = 1 THEN 0 ELSE f[i - 1] + Boxes[i - 1].size]

LEMMA OffsetsExist == \A m \in Nat : m \in 1..N + 1 => \E f : Begins(f, m)
<1> DEFINE S == {m \in Nat : m \in 1..N + 1 => \E f : Begins(f, m)}
<1>1. 0 \in S BY BoxFacts
<1>2. ASSUME NEW m \in Nat, m \in S PROVE m + 1 \in S
  <2> SUFFICES ASSUME m + 1 \in 1..N + 1 PROVE \E f : Begins(f, m + 1) OBVIOUS
  <2>1. CASE m = 0
    <3>1. Begins([i \in 1..1 |-> 0], 1) BY DEF Begins
    <3> QED BY <2>1, <3>1
  <2>2. CASE m # 0
    <3>1. m \in 1..N + 1 BY <2>2, BoxFacts
    <3>2. PICK f : Begins(f, m) BY <1>2, <3>1
    <3> DEFINE g == [i \in 1..m + 1 |-> IF i = m + 1 THEN f[m] + Boxes[m].size ELSE f[i]]
    <3>3. \A i \in 1..m : g[i] = f[i] OBVIOUS
    <3>4. \A i \in 1..m : f[i] = IF i = 1 THEN 0 ELSE f[i - 1] + Boxes[i - 1].size BY <3>2 DEF Begins
    <3>5. \A i \in 1..m + 1 : g[i] = IF i = 1 THEN 0 ELSE g[i - 1] + Boxes[i - 1].size
      <4>1. ASSUME NEW i \in 1..m + 1, i # m + 1 PROVE g[i] = IF i = 1 THEN 0 ELSE g[i - 1] + Boxes[i - 1].size
        <5>1. i \in 1..m /\ (i # 1 => i - 1 \in 1..m) BY <4>1
        <5>2. g[i] = f[i] /\ (i # 1 => g[i - 1] = f[i - 1]) BY <3>3, <5>1
        <5> HIDE DEF g
        <5> QED BY <3>4, <5>1, <5>2
      <4>2. g[m + 1] = f[m] + Boxes[m].size OBVIOUS
      <4>5. m \in 1..m /\ m + 1 # 1 /\ (m + 1) - 1 = m BY <2>2
      <4>3. m + 1 # 1 /\ (m + 1) - 1 = m /\ g[m] = f[m]
        <5> HIDE DEF g
        <5> QED BY <3>3, <4>5
      <4>4. g[m + 1] = IF m + 1 = 1 THEN 0 ELSE g[(m + 1) - 1] + Boxes[(m + 1) - 1].size
        <5> HIDE DEF g
        <5> QED BY <4>2, <4>3
      <4> HIDE DEF g
      <4> QED BY <4>1, <4>4
    <3>6. Begins(g, m + 1) BY <3>5 DEF Begins
    <3> QED BY <3>6
  <2> QED BY <2>1, <2>2
<1> HIDE DEF S
<1>3. \A m \in Nat : m \in S BY <1>1, <1>2, Induction
<1> QED BY <1>3 DEF S

LEMMA OffsetUnfolds ==
  /\ DOMAIN Offset = 1..N + 1 /\ Offset[1] = 0
  /\ \A i \in 1..N : Offset[i + 1] = Offset[i] + Boxes[i].size
<1>1. N + 1 \in Nat /\ N + 1 \in 1..N + 1 BY BoxFacts
<1>2. \E f : Begins(f, N + 1) BY <1>1, OffsetsExist
<1>3. Offset = CHOOSE f : Begins(f, N + 1) BY DEF Offset, Begins, N
<1>4. Begins(Offset, N + 1) BY <1>2, <1>3
<1>5. Offset = [i \in 1..N + 1 |-> IF i = 1 THEN 0 ELSE Offset[i - 1] + Boxes[i - 1].size] BY <1>4 DEF Begins
<1>6. \A i \in 1..N + 1 : Offset[i] = IF i = 1 THEN 0 ELSE Offset[i - 1] + Boxes[i - 1].size BY <1>5
<1>7. DOMAIN Offset = 1..N + 1 BY <1>5
<1>8. ASSUME NEW i \in 1..N PROVE Offset[i + 1] = Offset[i] + Boxes[i].size
  <2>1. i + 1 \in 1..N + 1 /\ i + 1 # 1 /\ (i + 1) - 1 = i BY BoxFacts
  <2> QED BY <1>6, <2>1
<1> QED BY <1>6, <1>7, <1>8, BoxFacts

LEMMA OffsetType == \A i \in 1..N + 1 : Offset[i] \in Nat
<1> DEFINE S == {m \in Nat : m \in 1..N + 1 => Offset[m] \in Nat}
<1>1. 0 \in S BY BoxFacts
<1>2. ASSUME NEW m \in Nat, m \in S PROVE m + 1 \in S
  <2> SUFFICES ASSUME m + 1 \in 1..N + 1 PROVE Offset[m + 1] \in Nat OBVIOUS
  <2>1. CASE m = 0 BY <2>1, OffsetUnfolds
  <2>2. CASE m # 0
    <3>1. m \in 1..N BY <2>2, BoxFacts
    <3>2. Offset[m] \in Nat BY <1>2, <3>1, BoxFacts
    <3>3. Offset[m + 1] = Offset[m] + Boxes[m].size BY <3>1, OffsetUnfolds
    <3>4. Boxes[m].size \in Nat BY <3>1, BoxFacts
    <3> QED BY <3>2, <3>3, <3>4
  <2> QED BY <2>1, <2>2
<1> HIDE DEF S
<1>3. \A m \in Nat : m \in S BY <1>1, <1>2, Induction
<1> QED BY <1>3, BoxFacts DEF S

LEMMA BoxesFollow ==
  ASSUME NEW i \in 1..N, NEW j \in i + 1..N + 1
  PROVE  Offset[i] + Boxes[i].size <= Offset[j]
<1> DEFINE S == {m \in Nat : i + 1 + m <= N + 1 => Offset[i] + Boxes[i].size <= Offset[i + 1 + m]}
<1> USE BoxFacts
<1>1. 0 \in S BY OffsetUnfolds, OffsetType
<1>2. ASSUME NEW m \in Nat, m \in S PROVE m + 1 \in S
  <2> SUFFICES ASSUME i + 1 + (m + 1) <= N + 1 PROVE Offset[i] + Boxes[i].size <= Offset[i + 1 + (m + 1)] OBVIOUS
  <2>1. i + 1 + m \in 1..N /\ i + 1 + (m + 1) = (i + 1 + m) + 1 OBVIOUS
  <2>2. Offset[(i + 1 + m) + 1] = Offset[i + 1 + m] + Boxes[i + 1 + m].size BY <2>1, OffsetUnfolds
  <2>3. Offset[i] + Boxes[i].size <= Offset[i + 1 + m] BY <1>2, <2>1
  <2>4. Offset[i + 1 + m] \in Nat /\ Offset[i] \in Nat BY <2>1, OffsetType
  <2> QED BY <2>1, <2>2, <2>3, <2>4
<1> HIDE DEF S
<1>3. \A m \in Nat : m \in S BY <1>1, <1>2, Induction
<1>4. j - (i + 1) \in S /\ i + 1 + (j - (i + 1)) = j BY <1>3
<1> QED BY <1>4 DEF S

-----------------------------------------------------------------------------
(* What the parser makes of the first n units of the file.                 *)

LEMMA Layout ==
  ASSUME NEW i \in 1..N, i % 2 = 0
  PROVE  /\ i >= 2 /\ i + 1 \in 1..N /\ i + 2 \in 1..N + 1
         /\ Offset[i] \in Nat /\ Offset[i + 1] \in Nat /\ Offset[i + 2] \in Nat /\ Total \in Nat
         /\ Offset[i] < Offset[i + 1] /\ Offset[i + 1] < Offset[i + 2] /\ Offset[i + 2] <= Total
<1>1. i >= 2 /\ i + 1 \in 1..N /\ i + 2 \in 1..N + 1 /\ i + 1 \in 1..N + 1 /\ i \in 1..N + 1 BY BoxFacts
<1>2. Offset[i] \in Nat /\ Offset[i + 1] \in Nat /\ Offset[i + 2] \in Nat BY <1>1, OffsetType
<1>3. Total \in Nat BY OffsetType, BoxFacts DEF Total, N
<1>4. Boxes[i].size \in Nat \ {0} /\ Boxes[i + 1].size \in Nat \ {0} BY <1>1, BoxFacts
<1>5. Offset[i + 1] = Offset[i] + Boxes[i].size BY OffsetUnfolds
<1>6. Offset[(i + 1) + 1] = Offset[i + 1] + Boxes[i + 1].size BY <1>1, OffsetUnfolds
<1>7. (i + 1) + 1 = i + 2 OBVIOUS
<1>8. Offset[i + 2] <= Total
  <2>1. CASE i + 2 = N + 1 BY <2>1, <1>3 DEF Total, N
  <2>2. CASE i + 2 # N + 1
    <3>1. N + 1 \in (i + 2) + 1..N + 1 /\ i + 2 \in 1..N BY <2>2, <1>1, BoxFacts
    <3>2. Offset[i + 2] + Boxes[i + 2].size <= Offset[N + 1] BY <3>1, BoxesFollow
    <3>3. Boxes[i + 2].size \in Nat BY <3>1, BoxFacts
    <3> QED BY <3>2, <3>3, <1>2, <1>3 DEF Total, N
  <2> QED BY <2>1, <2>2
<1> QED BY <1>1, <1>2, <1>3, <1>4, <1>5, <1>6, <1>7, <1>8

LEMMA EndsInOrder ==
  ASSUME NEW i \in 1..N, i % 2 = 0, NEW j \in 1..N, j % 2 = 0, i < j
  PROVE  Offset[i + 2] <= Offset[j]
<1>1. i + 2 <= j /\ i + 1 \in 1..N /\ j \in 1..N + 1 BY BoxFacts
<1>2. j \in (i + 1) + 1..N + 1 BY <1>1, BoxFacts
<1>3. Offset[i + 1] + Boxes[i + 1].size <= Offset[j] BY <1>1, <1>2, BoxesFollow
<1>4. Offset[(i + 1) + 1] = Offset[i + 1] + Boxes[i + 1].size BY <1>1, OffsetUnfolds
<1>5. (i + 1) + 1 = i + 2 OBVIOUS
<1> QED BY <1>3, <1>4, <1>5

LEMMA FragmentFacts ==
  ASSUME NEW n \in Nat, NEW i \in Fragments(n)
  PROVE  /\ i \in 1..N /\ i % 2 = 0 /\ i >= 2
         /\ Offset[i] < n /\ FragmentEnd(i, n) <= n /\ FragmentEnd(i, n) <= Offset[i + 2]
<1>1. i \in 1..N /\ i % 2 = 0 BY BoxFacts DEF Fragments, IsFragment, N
<1>2. Offset[i + 1] <= n /\ FragmentEnd(i, n) <= n BY DEF Fragments, IsFragment, Complete
<1> QED BY <1>1, <1>2, Layout DEF FragmentEnd

LEMMA EarlierFragments ==
  ASSUME NEW n \in Nat, NEW i \in Fragments(n), NEW j \in 1..N, j % 2 = 0, j < i
  PROVE  j \in Fragments(n) /\ FragmentEnd(j, n) = Offset[j + 2]
<1>1. i \in 1..N /\ i % 2 = 0 /\ Offset[i] < n BY FragmentFacts
<1>2. Offset[j + 2] <= Offset[i] BY <1>1, EndsInOrder
<1>3. Offset[j + 2] <= n /\ Offset[j + 1] + 1 <= n /\ Offset[j + 1] <= n BY <1>1, <1>2, Layout
<1>4. Seen(j + 1, n) /\ Complete(j, n) BY <1>3 DEF Seen, Complete
<1>5. FragmentEnd(j, n) = Offset[j + 2] BY <1>4 DEF FragmentEnd
<1> QED BY <1>3, <1>4, <1>5, BoxFacts DEF Fragments, IsFragment, N

LEMMA AllFragments ==
  ASSUME NEW i \in 1..N, i % 2 = 0
  PROVE  i \in Fragments(Total) /\ FragmentEnd(i, Total) = Offset[i + 2]
<1>1. Offset[i + 1] + 1 <= Total /\ Offset[i + 1] <= Total /\ Offset[i + 2] <= Total BY Layout
<1>2. Seen(i + 1, Total) /\ Complete(i, Total) BY <1>1 DEF Seen, Complete
<1>3. FragmentEnd(i, Total) = Offset[i + 2] BY <1>2 DEF FragmentEnd
<1> QED BY <1>1, <1>2, <1>3, BoxFacts DEF Fragments, IsFragment, N

LEMMA LastIsLast ==
  ASSUME NEW n \in Nat, Fragments(n) # {}
  PROVE  LastFragment(n) \in Fragments(n) /\ \A i \in Fragments(n) : i <= LastFragment(n)
<1>1. Fragments(n) \in SUBSET (1..N) /\ N \in Nat BY BoxFacts DEF Fragments, N
<1>2. \E i \in Fragments(n) : \A j \in Fragments(n) : j <= i BY <1>1, GreatestExists
<1> QED BY <1>2 DEF LastFragment

(* However much is written, the index agrees with the finished file's.     *)
LEMMA IndexPrefix == \A n \in 0..Total : IndexIsAPrefix(n)
<1> SUFFICES ASSUME NEW n \in 0..Total PROVE IndexIsAPrefix(n) OBVIOUS
<1>0. 2 \in 1..N /\ 2 % 2 = 0 /\ 1 \in 1..N /\ 2 \in 1..N + 1 BY BoxFacts
<1>1. Offset[2] \in Nat /\ Offset[2] <= Total /\ Total \in Nat BY <1>0, Layout
<1>2. n \in Nat BY <1>1
<1>3. InitSize(n) <= n /\ InitSize(n) \in {0, InitSize(Total)}
  <2>1. InitSize(Total) = Offset[2] BY <1>1 DEF InitSize, Complete
  <2> QED BY <2>1, <1>1, <1>2 DEF InitSize, Complete
<1>4. ASSUME NEW i \in Fragments(n)
      PROVE  /\ FragmentEnd(i, n) <= n /\ i \in Fragments(Total)
             /\ i # LastFragment(n) => FragmentEnd(i, n) = FragmentEnd(i, Total)
  <2>1. i \in 1..N /\ i % 2 = 0 /\ FragmentEnd(i, n) <= n BY <1>2, FragmentFacts
  <2>2. i \in Fragments(Total) /\ FragmentEnd(i, Total) = Offset[i + 2] BY <2>1, AllFragments
  <2>3. ASSUME i # LastFragment(n) PROVE FragmentEnd(i, n) = Offset[i + 2]
    <3>1. LastFragment(n) \in Fragments(n) /\ i <= LastFragment(n) BY <1>2, LastIsLast
    <3>2. LastFragment(n) \in 1..N BY <1>2, <3>1, FragmentFacts
    <3>3. i < LastFragment(n) BY <2>1, <2>3, <3>1, <3>2
    <3> QED BY <1>2, <2>1, <3>1, <3>3, EarlierFragments
  <2> QED BY <2>1, <2>2, <2>3
<1> QED BY <1>3, <1>4 DEF IndexIsAPrefix

LEMMA Covered ==
  ASSUME NEW n \in Nat, Fragments(n) # {}
  PROVE  CoveredTime(n) = LastFragment(n) \div 2
<1>1. LastFragment(n) \in 1..N /\ LastFragment(n) % 2 = 0 /\ LastFragment(n) >= 2 BY LastIsLast, FragmentFacts
<1>2. Boxes[LastFragment(n)].time = (LastFragment(n) \div 2) - 1 BY <1>1, BoxFacts
<1>3. Boxes[2].time = 0 /\ Boxes[4].time = 1
  <2>1. 2 \in 1..N /\ 4 \in 1..N /\ 2 % 2 = 0 /\ 4 % 2 = 0 /\ 2 \div 2 = 1 /\ 4 \div 2 = 2 BY BoxFacts
  <2> QED BY <2>1, BoxFacts
<1>4. CoveredTime(n) = Boxes[LastFragment(n)].time + 1 BY <1>3 DEF CoveredTime
<1> QED BY <1>1, <1>2, <1>4

LEMMA FragmentAt ==
  ASSUME NEW n \in Nat, Fragments(n) # {}, NEW t \in Nat
  PROVE  /\ FragForTime(n, t) \in Fragments(n)
         /\ FragForTime(n, t) <= 2 * t + 2
         /\ \A i \in Fragments(n) : i <= 2 * t + 2 => i <= FragForTime(n, t)
<1> DEFINE early == {i \in Fragments(n) : Boxes[i].time <= t}
<1>1. \A i \in Fragments(n) : i \in 1..N /\ (Boxes[i].time <= t <=> i <= 2 * t + 2)
  <2>1. \A i \in Fragments(n) : i \in 1..N /\ i % 2 = 0 BY FragmentFacts
  <2>2. \A i \in Fragments(n) : Boxes[i].time = (i \div 2) - 1 BY <2>1, BoxFacts
  <2> QED BY <2>1, <2>2
<1>2. 2 \in Fragments(n)
  <2>1. PICK i \in Fragments(n) : TRUE OBVIOUS
  <2>2. i >= 2 /\ 2 \in 1..N /\ 2 % 2 = 0 /\ i \in 1..N BY <2>1, FragmentFacts, BoxFacts
  <2> QED BY <2>2, EarlierFragments
<1>3. early # {} BY <1>1, <1>2
<1>4. early \in SUBSET (1..N) /\ N \in Nat BY <1>1, BoxFacts
<1>5. \E i \in early : \A j \in early : j <= i
  <2> HIDE DEF early
  <2> QED BY <1>3, <1>4, GreatestExists
<1>6. FragForTime(n, t) \in early /\ \A j \in early : j <= FragForTime(n, t)
  BY <1>3, <1>5 DEF FragForTime
<1> QED BY <1>1, <1>6

LEMMA WithinCovered ==
  ASSUME NEW n \in Nat, Fragments(n) # {}, NEW t \in Nat, t < CoveredTime(n)
  PROVE  FragForTime(n, t) = 2 * t + 2
<1>1. LastFragment(n) \in Fragments(n) BY LastIsLast
<1>2. LastFragment(n) \in 1..N /\ LastFragment(n) % 2 = 0 BY <1>1, FragmentFacts
<1>3. t < LastFragment(n) \div 2 BY Covered
<1>4. 2 * t + 2 <= LastFragment(n) /\ 2 * t + 2 \in 1..N /\ (2 * t + 2) % 2 = 0 BY <1>2, <1>3, BoxFacts
<1>5. 2 * t + 2 \in Fragments(n) BY <1>1, <1>2, <1>4, EarlierFragments
<1>6. FragForTime(n, t) \in 1..N BY FragmentAt, FragmentFacts
<1> QED BY <1>4, <1>5, <1>6, FragmentAt

(* What a segment is cut from a growing file is a prefix of what it would  *)
(* be from the finished one.                                               *)
LEMMA CutIsPrefix ==
  ASSUME NEW n \in 0..Total, Fragments(n) # {}, NEW start \in Nat, NEW t \in Nat, NEW need \in Nat,
         start < CoveredTime(n), t <= need
  PROVE  /\ ExtractFragments(n, start, t).from = ExtractFragments(Total, start, need).from
         /\ ExtractFragments(n, start, t).to <= ExtractFragments(Total, start, need).to
<1>0. Total \in Nat
  <2>1. 2 \in 1..N /\ 2 % 2 = 0 BY BoxFacts
  <2> QED BY <2>1, Layout
<1>1. n \in Nat BY <1>0
<1>2. \A i \in Fragments(n) : i \in 1..N /\ i % 2 = 0 /\ i \in Fragments(Total) BY <1>1, FragmentFacts, AllFragments
<1>3. Fragments(Total) # {} BY <1>2
<1>4. FragForTime(n, start) = 2 * start + 2 BY <1>1, WithinCovered
<1>5. FragForTime(Total, start) = 2 * start + 2
  <2>1. 2 * start + 2 \in Fragments(Total) BY <1>1, <1>2, <1>4, FragmentAt
  <2>2. FragForTime(Total, start) \in 1..N BY <1>0, <1>3, FragmentAt, FragmentFacts
  <2>3. FragForTime(Total, start) <= 2 * start + 2 /\ 2 * start + 2 <= FragForTime(Total, start)
    BY <1>0, <1>3, <2>1, FragmentAt
  <2> QED BY <2>2, <2>3
<1> DEFINE i == FragForTime(n, t)
<1> DEFINE j == FragForTime(Total, need)
<1>6. i \in Fragments(n) /\ i <= 2 * t + 2 BY <1>1, FragmentAt
<1>7. j \in Fragments(Total) /\ (i <= 2 * need + 2 => i <= j) BY <1>0, <1>2, <1>3, <1>6, FragmentAt
<1>8. i \in 1..N /\ i % 2 = 0 /\ j \in 1..N /\ j % 2 = 0 BY <1>0, <1>2, <1>6, <1>7, FragmentFacts
<1>9. i <= j BY <1>6, <1>7, <1>8
<1>10. FragmentEnd(i, n) <= Offset[i + 2] BY <1>1, <1>6, FragmentFacts
<1>11. FragmentEnd(j, Total) = Offset[j + 2] BY <1>8, AllFragments
<1>12. Offset[i + 2] <= Offset[j + 2]
  <2>1. CASE i = j BY <2>1, <1>8, Layout
  <2>2. CASE i < j
    <3>1. Offset[i + 2] <= Offset[j] BY <1>8, <2>2, EndsInOrder
    <3> QED BY <3>1, <1>8, Layout
  <2> QED BY <1>8, <1>9, <2>1, <2>2
<1>13. FragmentEnd(i, n) \in Int /\ Offset[i + 2] \in Nat /\ Offset[j + 2] \in Nat
  BY <1>8, Layout DEF FragmentEnd
<1> HIDE DEF i, j
<1>14. FragmentEnd(i, n) <= FragmentEnd(j, Total) BY <1>10, <1>11, <1>12, <1>13
<1> QED BY <1>4, <1>5, <1>14 DEF ExtractFragments, i, j

-----------------------------------------------------------------------------
(* The invariant of the transcoder.                                        *)

Files == [content : Nat, size : 0..Total, newer : BOOLEAN]
Steps == {"idle", "look", "wait", "recheck", "ffmpeg", "pipe", "stuck", "poll", "parsed"}
AtWork == {"ffmpeg", "pipe", "stuck"}
Holders == Workers \cup {Leftover}

Types ==
    /\ source \in Nat /\ tcache \in Files \cup {NoFile} /\ temps \in [Holders -> Files \cup {NoFile}]
    /\ recent \in Seq(Holders)
    /\ inflight \in Streams \cup {NoOne} /\ running \in BOOLEAN /\ retried \in BOOLEAN /\ midway \in BOOLEAN
    /\ tstep \in [Workers -> Steps] /\ tstep[Background] \in {"idle", "recheck", "ffmpeg"}
    /\ tasked \in [Streams -> Questions] /\ opened \in [Streams -> Files \cup {NoFile}]

(* Only whole files of this source or an earlier one are in the cache; of  *)
(* the current one, unless it was replaced while it was read.              *)
FilesInv ==
    /\ tcache # NoFile => tcache.size = Total /\ tcache.content <= source
    /\ \A w \in Holders : temps[w] # NoFile => temps[w].content <= source
    /\ ~midway => /\ tcache # NoFile /\ tcache.newer => tcache.content = source
                  /\ \A w \in Holders : temps[w] # NoFile => temps[w].content = source

(* Whoever writes has a temporary file, and is the one of inflight as long *)
(* as nobody who had waited transcodes on his own.                         *)
WorkInv ==
    /\ running <=> tstep[Background] # "idle"
    /\ \A w \in Workers : temps[w] # NoFile <=> tstep[w] \in AtWork
    /\ inflight # NoOne => tstep[inflight] \in AtWork \cup {"recheck"}
    /\ ~retried => \A r \in Streams : tstep[r] \in AtWork => inflight = r

(* What a request was answered.                                            *)
Right(a, q) ==
    /\ a.kind = "file" => a.to = Total
    /\ a.short => a.done
    /\ a.kind = "segment" /\ q.kind = "range" =>
           /\ a.from = ExtractFragments(Total, q.start, q.need).from
           /\ a.to <= ExtractFragments(Total, q.start, q.need).to
    /\ a.kind = "segment" /\ q.kind = "init" => a.to = InitSize(Total)
AnswersInv == DOMAIN answer = Streams /\ \A r \in Streams : Right(answer[r], tasked[r])

(* Who parses has a file open.                                             *)
ParsedInv == \A r \in Streams : tstep[r] = "parsed" => opened[r] # NoFile

TranscodeInv == Types /\ FilesInv /\ WorkInv /\ AnswersInv /\ ParsedInv

LEMMA TotalType == Total \in Nat /\ Offset[2] \in Nat /\ Offset[2] <= Total
<1>1. 2 \in 1..N /\ 2 % 2 = 0 BY BoxFacts
<1>2. Offset[2] \in Nat /\ Total \in Nat /\ Offset[2] < Offset[3] /\ Offset[3] < Offset[4]  /\ Offset[4] <= Total
      /\ Offset[3] \in Nat /\ Offset[4] \in Nat
  BY <1>1, Layout
<1> QED BY <1>2

LEMMA FileFacts ==
  /\ NoFile \notin Files
  /\ \A c \in Nat : [content |-> c, size |-> 0, newer |-> TRUE] \in Files
  /\ \A f \in Files : /\ [f EXCEPT !.newer = FALSE] \in Files
                      /\ \A size \in f.size + 1..Total : [f EXCEPT !.size = size, !.newer = TRUE] \in Files
<1>1. NoFile \notin Files BY TranscodeAssumption DEF Files
<1>2. \A c \in Nat : [content |-> c, size |-> 0, newer |-> TRUE] \in Files BY TotalType DEF Files
<1>3. ASSUME NEW f \in Files PROVE [f EXCEPT !.newer = FALSE] \in Files BY DEF Files
<1>4. ASSUME NEW f \in Files, NEW size \in f.size + 1..Total
      PROVE  [f EXCEPT !.size = size, !.newer = TRUE] \in Files
  <2>1. size \in 0..Total BY TotalType DEF Files
  <2> QED BY <2>1 DEF Files
<1> QED BY <1>1, <1>2, <1>3, <1>4

LEMMA InvImpliesSound == TranscodeInv => TranscodeSound
<1> SUFFICES ASSUME TranscodeInv PROVE TranscodeSound OBVIOUS
<1> USE DEF TranscodeInv
<1>1. TranscodeTypeOK
  <2>1. \A f \in Files : f.content <= source => f \in [content : 0..source, size : 0..Total, newer : BOOLEAN]
    BY DEF Files, Types
  <2>2. \A w \in Holders : temps[w] # NoFile => temps[w] \in [content : 0..source, size : 0..Total, newer : BOOLEAN]
    BY <2>1 DEF Types, FilesInv
  <2>3. tcache # NoFile => tcache \in [content : 0..source, size : 0..Total, newer : BOOLEAN]
    BY <2>1 DEF Types, FilesInv
  <2>4. \A w \in Workers : temps[w] # NoFile <=> w \in Transcoding \/ tstep[w] = "stuck"
    BY DEF WorkInv, AtWork, Transcoding
  <2>5. inflight # NoOne => tstep[inflight] \in {"recheck", "ffmpeg", "pipe", "stuck"} BY DEF WorkInv, AtWork
  <2> QED BY <2>2, <2>3, <2>4, <2>5 DEF TranscodeTypeOK, Types, WorkInv, Holders
<1>2. CacheIsWhole BY DEF CacheIsWhole, FilesInv, AnswersInv, Right
<1>3. TranscodesAreShared
  <2>1. SUFFICES ASSUME ~retried PROVE Cardinality(Transcoding \ {Background}) <= 1 BY DEF TranscodesAreShared
  <2>2. \A r \in Transcoding \ {Background} : r = inflight
    BY <2>1 DEF Transcoding, Workers, WorkInv, AtWork
  <2>3. Transcoding \ {Background} = {} \/ Transcoding \ {Background} = {inflight} BY <2>2
  <2>4. Cardinality({}) = 0 /\ Cardinality({inflight}) = 1 BY FS_EmptySet, FS_Singleton
  <2> QED BY <2>3, <2>4
<1>4. HitsAreCurrent BY DEF HitsAreCurrent, CacheValid, FilesInv
<1>5. SegmentsArePrefixes
  <2>1. \A r \in Streams : opened[r] # NoFile => opened[r].size \in 0..Total BY DEF Types, Files
  <2>2. \A r \in Streams : opened[r] # NoFile => IndexIsAPrefix(opened[r].size) BY <2>1, IndexPrefix
  <2> QED BY <2>2 DEF SegmentsArePrefixes, AnswersInv, Right
<1> QED BY <1>1, <1>2, <1>3, <1>4, <1>5 DEF TranscodeSound

LEMMA InitTranscode == TranscodeInit => TranscodeInv
<1> SUFFICES ASSUME TranscodeInit PROVE TranscodeInv OBVIOUS
<1> USE TranscodeAssumption, TotalType DEF TranscodeInit, Workers, Holders
<1>1. Types
  <2>1. [kind |-> "play", start |-> 0, need |-> 0] \in Questions BY DEF Questions
  <2>2. tasked \in [Streams -> Questions] BY <2>1
  <2>3. recent \in Seq(Holders) OBVIOUS
  <2> QED BY <2>2, <2>3 DEF Types, Steps
<1>2. FilesInv BY DEF FilesInv
<1>3. WorkInv BY DEF WorkInv, AtWork
<1>4. AnswersInv BY DEF AnswersInv, Right, NoAnswer
<1>5. ParsedInv BY DEF ParsedInv
<1> QED BY <1>1, <1>2, <1>3, <1>4, <1>5 DEF TranscodeInv

LEMMA WithoutType ==
  ASSUME NEW S, NEW seq \in Seq(S), NEW w
  PROVE  Without(seq, w) \in Seq(S)
<1>1. CASE ~\E i \in DOMAIN seq : seq[i] = w BY <1>1 DEF Without
<1>2. CASE \E i \in DOMAIN seq : seq[i] = w
  <2> DEFINE i == CHOOSE i \in DOMAIN seq : seq[i] = w
  <2>1. i \in 1..Len(seq) BY <1>2
  <2>2. Without(seq, w) = RemoveAt(seq, i) BY <1>2 DEF Without
  <2> HIDE DEF i
  <2>3. SubSeq(seq, 1, i - 1) \in Seq(S) /\ SubSeq(seq, i + 1, Len(seq)) \in Seq(S) BY <2>1
  <2> QED BY <2>2, <2>3 DEF RemoveAt
<1> QED BY <1>1, <1>2

(* The file a segment request would open.                                  *)
LEMMA CurrentFileType ==
  ASSUME Types
  PROVE  CurrentFile \in Files \cup {NoFile}
<1>1. recent # <<>> => recent[Len(recent)] \in Holders BY DEF Types
<1> QED BY <1>1 DEF CurrentFile, Types

-----------------------------------------------------------------------------
(* Every step keeps the invariant.                                         *)

(* Files, recency and history stay, as do the answers.                     *)
unchangedFiles == UNCHANGED <<source, tcache, temps, midway>>
LEMMA FilesKept == ASSUME FilesInv, unchangedFiles PROVE FilesInv'
BY DEF FilesInv, unchangedFiles

LEMMA AnswersKept == ASSUME AnswersInv, UNCHANGED <<answer, tasked>> PROVE AnswersInv'
BY DEF AnswersInv

LEMMA ParsedKept ==
  ASSUME ParsedInv, UNCHANGED opened, \A r \in Streams : tstep'[r] = "parsed" => tstep[r] = "parsed"
  PROVE  ParsedInv'
BY DEF ParsedInv

LEMMA RepliesRightly ==
  ASSUME AnswersInv, UNCHANGED tasked, NEW r \in Streams, NEW k, NEW bytes, NEW short \in BOOLEAN,
         Reply(r, k, bytes, short), 
         k = "file" => bytes.to = Total, short => CacheValid,
         k = "segment" /\ tasked[r].kind = "range" =>
             /\ bytes.from = ExtractFragments(Total, tasked[r].start, tasked[r].need).from
             /\ bytes.to <= ExtractFragments(Total, tasked[r].start, tasked[r].need).to,
         k = "segment" /\ tasked[r].kind = "init" => bytes.to = InitSize(Total)
  PROVE  AnswersInv'
<1>1. answer' = [answer EXCEPT ![r] = [kind |-> k, from |-> bytes.from, to |-> bytes.to, short |-> short, done |-> CacheValid]]
  BY DEF Reply
<1>2. DOMAIN answer' = Streams /\ \A s \in Streams : s # r => answer'[s] = answer[s] BY <1>1 DEF AnswersInv
<1>3. Right(answer'[r], tasked[r]) BY <1>1 DEF AnswersInv, Right
<1> QED BY <1>2, <1>3 DEF AnswersInv

LEMMA AskStreamKeeps ==
  ASSUME TranscodeInv, NEW r \in Streams, NEW q \in Questions, AskStream(r, q)
  PROVE  TranscodeInv'
<1> USE TranscodeAssumption DEF TranscodeInv, AskStream, Workers, Types, Steps
<1>0. r # Background OBVIOUS
<1>1. Types' BY <1>0
<1>2. FilesInv' BY FilesKept DEF unchangedFiles
<1>3. WorkInv'
  <2>1. tstep[r] = "idle" /\ tstep'[r] \in {"look", "poll"} OBVIOUS
  <2>2. \A w \in Streams : w # r => tstep'[w] = tstep[w] OBVIOUS
  <2>3. running' <=> tstep'[Background] # "idle" BY <1>0 DEF WorkInv
  <2>4. tstep'[Background] \in AtWork <=> tstep[Background] \in AtWork BY <1>0 DEF WorkInv, AtWork
  <2>5. UNCHANGED <<temps, inflight, retried>> OBVIOUS
  <2> HIDE DEF AskStream
  <2> QED BY <2>1, <2>2, <2>3, <2>4, <2>5 DEF WorkInv, AtWork
<1>4. AnswersInv'
  <2>1. \A s \in Streams : s # r => answer'[s] = answer[s] /\ tasked'[s] = tasked[s] BY DEF AnswersInv
  <2>2. Right(answer'[r], tasked'[r]) BY DEF AnswersInv, Right, NoAnswer
  <2> QED BY <2>1, <2>2 DEF AnswersInv
<1>5. ParsedInv' BY <1>0, ParsedKept
<1> QED BY <1>1, <1>2, <1>3, <1>4, <1>5

LEMMA LookKeeps ==
  ASSUME TranscodeInv, NEW r \in Streams, Look(r)
  PROVE  TranscodeInv'
<1> USE TranscodeAssumption DEF TranscodeInv, Look, Workers, Types, Steps, MustWait
<1>0. r # Background OBVIOUS
<1>1. Types' BY <1>0
<1>2. FilesInv' BY FilesKept DEF unchangedFiles
<1>3. WorkInv'
  <2>1. tstep[r] = "look" /\ tstep'[r] \in {"idle", "wait", "recheck"} OBVIOUS
  <2>2. \A w \in Workers : w # r => tstep'[w] = tstep[w] OBVIOUS
  <2>3. inflight' = inflight \/ (inflight = NoOne /\ inflight' = r /\ tstep'[r] = "recheck") OBVIOUS
  <2>4. UNCHANGED <<temps, running, retried>> OBVIOUS
  <2> HIDE DEF Look
  <2>5. running' <=> tstep'[Background] # "idle" BY <1>0, <2>2, <2>4 DEF WorkInv
  <2>6. \A w \in Workers : temps'[w] # NoFile <=> tstep'[w] \in AtWork BY <2>1, <2>2, <2>4 DEF WorkInv, AtWork
  <2>7. inflight' # NoOne => tstep'[inflight'] \in AtWork \cup {"recheck"} BY <2>1, <2>2, <2>3 DEF WorkInv, AtWork
  <2>8. ~retried' => \A w \in Streams : tstep'[w] \in AtWork => inflight' = w
    BY <2>1, <2>2, <2>3, <2>4 DEF WorkInv, AtWork
  <2> QED BY <2>5, <2>6, <2>7, <2>8 DEF WorkInv
<1>4. AnswersInv'
  <2>1. CASE CacheValid
    <3>1. tcache.size = Total BY <2>1 DEF CacheValid, FilesInv
    <3> QED BY <2>1, <3>1, RepliesRightly
  <2>2. CASE ~CacheValid BY <2>2, AnswersKept
  <2> QED BY <2>1, <2>2
<1>5. ParsedInv' BY ParsedKept
<1> QED BY <1>1, <1>2, <1>3, <1>4, <1>5

(* A request that ends gives its entries back and wakes those that wait.   *)
LEMMA UnlockedFacts ==
  ASSUME Types, NEW w \in Workers, Unlocked(w)
  PROVE  /\ inflight' \in Streams \cup {NoOne} /\ running' \in BOOLEAN
         /\ tstep' \in [Workers -> Steps] /\ tstep'[Background] \in {"idle", "recheck", "ffmpeg"}
         /\ tstep'[w] = "idle"
         /\ \A v \in Workers \ {w} : tstep'[v] = tstep[v] \/ (tstep[v] = "wait" /\ tstep'[v] = "recheck")
BY TranscodeAssumption DEF Types, Unlocked, Steps, Workers

LEMMA UnlockedKeepsParsed ==
  ASSUME Types, ParsedInv, NEW w \in Workers, Unlocked(w), UNCHANGED opened
  PROVE  ParsedInv'
<1>1. \A r \in Streams : tstep'[r] = "parsed" => tstep[r] = "parsed" BY UnlockedFacts DEF Workers
<1> QED BY <1>1, ParsedKept

LEMMA UnlockedKeepsWork ==
  ASSUME Types, WorkInv, NEW w \in Workers, Unlocked(w), UNCHANGED retried,
         \A v \in Workers \ {w} : temps'[v] = temps[v], temps'[w] = NoFile
  PROVE  WorkInv'
<1> USE TranscodeAssumption DEF Types, WorkInv, AtWork, Workers
<1>1. running' <=> tstep'[Background] # "idle" BY UnlockedFacts DEF Unlocked
<1>2. \A v \in Workers : temps'[v] # NoFile <=> tstep'[v] \in AtWork BY UnlockedFacts
<1>3. inflight' # NoOne => tstep'[inflight'] \in AtWork \cup {"recheck"}
  BY UnlockedFacts DEF Unlocked
<1>4. ~retried' => \A r \in Streams : tstep'[r] \in AtWork => inflight' = r
  BY UnlockedFacts DEF Unlocked
<1> QED BY <1>1, <1>2, <1>3, <1>4

LEMMA RecheckKeeps ==
  ASSUME TranscodeInv, NEW w \in Workers, Recheck(w)
  PROVE  TranscodeInv'
<1> USE DEF TranscodeInv
<1>1. CASE CacheValid
  <2> USE <1>1 DEF Recheck
  <2>1. Unlocked(w) /\ UNCHANGED <<temps, retried>> BY DEF Types
  <2>2. Types' BY <2>1, UnlockedFacts DEF Types
  <2>3. FilesInv' BY <2>1, FilesKept DEF unchangedFiles
  <2>4. temps[w] = NoFile BY DEF WorkInv, AtWork
  <2>5. WorkInv' BY <2>1, <2>4, UnlockedKeepsWork
  <2>6. AnswersInv'
    <3>1. CASE w = Background BY <3>1, AnswersKept
    <3>2. CASE w # Background
      <4>1. w \in Streams /\ tcache.size = Total BY <3>2 DEF Workers, CacheValid, FilesInv
      <4> QED BY <3>2, <4>1, RepliesRightly
    <3> QED BY <3>1, <3>2
  <2>7. ParsedInv' BY <2>1, UnlockedKeepsParsed
  <2> QED BY <2>2, <2>3, <2>5, <2>6, <2>7
<1>2. CASE ~CacheValid
  <2> USE <1>2, TranscodeAssumption DEF Recheck, Workers, Holders
  <2> DEFINE new == [content |-> source, size |-> 0, newer |-> TRUE]
  <2>1. new \in Files /\ new # NoFile
    <3> HIDE <1>2, TranscodeAssumption DEF Recheck
    <3>1. source \in Nat BY DEF Types
    <3> QED BY <3>1, FileFacts
  <2>2. temps' = [temps EXCEPT ![w] = new] OBVIOUS
  <2> HIDE DEF new
  <2>3. Types' BY <2>1, <2>2 DEF Types, Steps
  <2>4. FilesInv'
    <3>1. temps'[w] = new /\ \A v \in Holders : v # w => temps'[v] = temps[v] BY <2>2 DEF Types
    <3>2. new.content = source BY DEF new
    <3>3. UNCHANGED <<source, tcache, midway>> /\ source \in Nat BY DEF Types
    <3> HIDE <1>2 DEF Recheck
    <3> QED BY <3>1, <3>2, <3>3 DEF FilesInv
  <2>5. WorkInv'
    <3>1. tstep'[w] \in {"pipe", "ffmpeg"} /\ \A v \in Workers : v # w => tstep'[v] = tstep[v] BY DEF Types
    <3>2. temps'[w] # NoFile /\ \A v \in Workers : v # w => temps'[v] = temps[v] BY <2>1, <2>2 DEF Types
    <3>3. ~retried' => ~retried /\ w \in {inflight, Background} BY DEF Types
    <3>4. UNCHANGED <<inflight, running>> OBVIOUS
    <3>5. tstep[w] = "recheck" OBVIOUS
    <3> HIDE <1>2 DEF Recheck
    <3>6. running' <=> tstep'[Background] # "idle" BY <3>1, <3>4, <3>5 DEF WorkInv
    <3>7. \A v \in Workers : temps'[v] # NoFile <=> tstep'[v] \in AtWork BY <3>1, <3>2 DEF WorkInv, AtWork
    <3>8. inflight' # NoOne => tstep'[inflight'] \in AtWork \cup {"recheck"}
      BY <3>1, <3>4 DEF WorkInv, AtWork, Types
    <3>9. ~retried' => \A r \in Streams : tstep'[r] \in AtWork => inflight' = r
      BY <3>1, <3>3, <3>4 DEF WorkInv, AtWork
    <3> QED BY <3>6, <3>7, <3>8, <3>9 DEF WorkInv
  <2>6. AnswersInv' BY AnswersKept
  <2>7. ParsedInv' BY ParsedKept DEF Types
  <2> QED BY <2>3, <2>4, <2>5, <2>6, <2>7
<1> QED BY <1>1, <1>2

LEMMA FfmpegWritesKeeps ==
  ASSUME TranscodeInv, NEW w \in Workers, FfmpegWrites(w)
  PROVE  TranscodeInv'
<1> USE DEF TranscodeInv
<1>1. w \in Holders /\ tstep[w] \in AtWork BY DEF FfmpegWrites, Transcoding, Holders, AtWork
<1>2. temps[w] \in Files /\ temps[w] # NoFile BY <1>1 DEF Types, WorkInv
<1>3. PICK size \in temps[w].size + 1..Total : temps' = [temps EXCEPT ![w].size = size, ![w].newer = TRUE]
  BY DEF FfmpegWrites
<1> DEFINE new == [temps[w] EXCEPT !.size = size, !.newer = TRUE]
<1>4. temps' = [temps EXCEPT ![w] = new] BY <1>1, <1>2, <1>3 DEF Types, Files
<1>5. new \in Files /\ new.content = temps[w].content BY <1>2, FileFacts DEF Files
<1> HIDE DEF new
<1>6. new # NoFile BY <1>5, FileFacts
<1>7. UNCHANGED <<source, tcache, inflight, running, tstep, tasked, opened, answer, retried, midway>> BY DEF FfmpegWrites
<1>8. recent' \in Seq(Holders)
  <2>1. Without(recent, w) \in Seq(Holders) BY WithoutType DEF Types
  <2> QED BY <1>1, <2>1 DEF FfmpegWrites
<1>9. temps'[w] = new /\ \A v \in Holders : v # w => temps'[v] = temps[v] BY <1>1, <1>4 DEF Types
<1>10. Types' BY <1>1, <1>4, <1>5, <1>7, <1>8 DEF Types
<1>11. FilesInv' BY <1>1, <1>2, <1>5, <1>7, <1>9 DEF FilesInv
<1>12. WorkInv' BY <1>1, <1>6, <1>7, <1>9 DEF WorkInv, Holders
<1>13. AnswersInv' BY <1>7, AnswersKept
<1>14. ParsedInv' BY <1>7, ParsedKept
<1> QED BY <1>10, <1>11, <1>12, <1>13, <1>14

LEMMA TranscodeDoneKeeps ==
  ASSUME TranscodeInv, NEW w \in Workers, TranscodeDone(w)
  PROVE  TranscodeInv'
<1> USE DEF TranscodeInv
<1>1. w \in Holders /\ tstep[w] \in AtWork /\ temps[w].size = Total
  BY DEF TranscodeDone, ExitsWell, Transcoding, Holders, AtWork
<1>2. temps[w] \in Files /\ temps[w] # NoFile BY <1>1 DEF Types, WorkInv
<1>3. tcache' = temps[w] /\ temps' = [temps EXCEPT ![w] = NoFile] /\ Unlocked(w) BY DEF TranscodeDone
<1>4. UNCHANGED <<source, tasked, opened, retried, midway>> BY DEF TranscodeDone
<1>5. recent' \in Seq(Holders) BY WithoutType DEF Types, TranscodeDone
<1>6. temps'[w] = NoFile /\ \A v \in Holders : v # w => temps'[v] = temps[v] BY <1>1, <1>3 DEF Types
<1>7. Types' BY <1>2, <1>3, <1>4, <1>5, UnlockedFacts DEF Types
<1>8. FilesInv' BY <1>1, <1>2, <1>3, <1>4, <1>6 DEF FilesInv
<1>9. WorkInv' BY <1>3, <1>4, <1>6, UnlockedKeepsWork DEF Holders
<1>10. AnswersInv'
  <2>1. CASE w = Background BY <2>1, <1>4, AnswersKept DEF TranscodeDone
  <2>2. CASE w # Background
    <3>1. w \in Streams BY <2>2 DEF Workers
    <3>2. Reply(w, "file", [from |-> 0, to |-> temps[w].size], FALSE) BY <2>2 DEF TranscodeDone
    <3> QED BY <1>1, <1>4, <3>1, <3>2, RepliesRightly
  <2> QED BY <2>1, <2>2
<1>11. ParsedInv' BY <1>3, <1>4, UnlockedKeepsParsed
<1> QED BY <1>7, <1>8, <1>9, <1>10, <1>11

LEMMA TranscodeFailsKeeps ==
  ASSUME TranscodeInv, NEW w \in Workers, TranscodeFails(w)
  PROVE  TranscodeInv'
<1> USE DEF TranscodeInv
<1>1. w \in Holders BY DEF Holders
<1>2. temps' = [temps EXCEPT ![w] = NoFile] /\ Unlocked(w) BY DEF TranscodeFails
<1>3. UNCHANGED <<source, tcache, tasked, opened, retried, midway>> BY DEF TranscodeFails
<1>4. recent' \in Seq(Holders) BY WithoutType DEF Types, TranscodeFails
<1>5. temps'[w] = NoFile /\ \A v \in Holders : v # w => temps'[v] = temps[v] BY <1>1, <1>2 DEF Types
<1>6. Types' BY <1>2, <1>3, <1>4, UnlockedFacts DEF Types
<1>7. FilesInv' BY <1>3, <1>5 DEF FilesInv
<1>8. WorkInv' BY <1>2, <1>3, <1>5, UnlockedKeepsWork DEF Holders
<1>9. AnswersInv'
  <2>1. CASE w = Background BY <2>1, <1>3, AnswersKept DEF TranscodeFails
  <2>2. CASE w # Background
    <3>1. w \in Streams /\ Reply(w, "error", NoBytes, FALSE) BY <2>2 DEF Workers, TranscodeFails
    <3> QED BY <1>3, <3>1, RepliesRightly
  <2> QED BY <2>1, <2>2
<1>10. ParsedInv' BY <1>2, <1>3, UnlockedKeepsParsed
<1> QED BY <1>6, <1>7, <1>8, <1>9, <1>10

(* Only where a request stands changes, and it does not transcode before   *)
(* or after, or it only comes to be stuck.                                 *)
LEMMA StepKeepsWork ==
  ASSUME Types, WorkInv, NEW r \in Streams, NEW pc \in Steps, tstep' = [tstep EXCEPT ![r] = pc],
         UNCHANGED <<temps, inflight, running, retried>>,
         \/ tstep[r] \in {"poll", "parsed"} /\ pc \notin AtWork
         \/ tstep[r] = "pipe" /\ pc = "stuck"
  PROVE  WorkInv' /\ tstep' \in [Workers -> Steps] /\ tstep'[Background] \in {"idle", "recheck", "ffmpeg"}
<1>1. r # Background /\ r \in Workers /\ Background \in Workers BY TranscodeAssumption DEF Workers
<1>2. tstep'[r] = pc /\ \A w \in Workers : w # r => tstep'[w] = tstep[w] BY <1>1 DEF Types
<1>3. tstep' \in [Workers -> Steps] BY <1>1 DEF Types
<1>4. running' <=> tstep'[Background] # "idle" BY <1>1, <1>2 DEF WorkInv
<1>5. \A w \in Workers : temps'[w] # NoFile <=> tstep'[w] \in AtWork BY <1>1, <1>2 DEF WorkInv, AtWork
<1>6. inflight' # NoOne => tstep'[inflight'] \in AtWork \cup {"recheck"}
  BY <1>1, <1>2 DEF WorkInv, AtWork, Types, Workers
<1>7. ~retried' => \A w \in Streams : tstep'[w] \in AtWork => inflight' = w BY <1>1, <1>2 DEF WorkInv, AtWork, Workers
<1> QED BY <1>1, <1>2, <1>3, <1>4, <1>5, <1>6, <1>7 DEF WorkInv, Types

LEMMA NothingForTenSecondsKeeps ==
  ASSUME TranscodeInv, NEW r \in Streams, NothingForTenSeconds(r)
  PROVE  TranscodeInv'
<1> USE DEF TranscodeInv, NothingForTenSeconds
<1>1. WorkInv' /\ tstep' \in [Workers -> Steps] /\ tstep'[Background] \in {"idle", "recheck", "ffmpeg"}
  BY StepKeepsWork DEF Steps
<1>2. Types' BY <1>1 DEF Types
<1>3. FilesInv' BY FilesKept DEF unchangedFiles
<1>4. AnswersInv' BY AnswersKept
<1>5. ParsedInv' BY ParsedKept DEF Types
<1> QED BY <1>1, <1>2, <1>3, <1>4, <1>5

LEMMA OpenFileKeeps ==
  ASSUME TranscodeInv, NEW r \in Streams, OpenFile(r)
  PROVE  TranscodeInv'
<1> USE DEF TranscodeInv, OpenFile
<1>1. WorkInv' /\ tstep' \in [Workers -> Steps] /\ tstep'[Background] \in {"idle", "recheck", "ffmpeg"}
  <2>1. "parsed" \in Steps /\ "parsed" \notin AtWork /\ tstep' = [tstep EXCEPT ![r] = "parsed"]
        /\ UNCHANGED <<temps, inflight, running, retried>> /\ tstep[r] \in {"poll", "parsed"}
    BY DEF Steps, AtWork
  <2> HIDE DEF OpenFile
  <2> QED BY <2>1, StepKeepsWork
<1>2. CurrentFile \in Files \cup {NoFile} BY CurrentFileType
<1>3. Types' BY <1>1, <1>2 DEF Types
<1>4. FilesInv' BY FilesKept DEF unchangedFiles
<1>5. AnswersInv' BY AnswersKept
<1>6. ParsedInv' BY DEF ParsedInv, Types
<1> QED BY <1>1, <1>3, <1>4, <1>5, <1>6

LEMMA GiveUpKeeps ==
  ASSUME TranscodeInv, NEW r \in Streams, GiveUp(r)
  PROVE  TranscodeInv'
<1> USE DEF TranscodeInv, GiveUp
<1>1. WorkInv' /\ tstep' \in [Workers -> Steps] /\ tstep'[Background] \in {"idle", "recheck", "ffmpeg"}
  <2>1. "idle" \in Steps /\ "idle" \notin AtWork /\ tstep' = [tstep EXCEPT ![r] = "idle"]
        /\ UNCHANGED <<temps, inflight, running, retried>> /\ tstep[r] \in {"poll", "parsed"}
    BY DEF Steps, AtWork
  <2> HIDE DEF GiveUp
  <2> QED BY <2>1, StepKeepsWork
<1>2. Types' BY <1>1 DEF Types
<1>3. FilesInv' BY FilesKept DEF unchangedFiles
<1>4. AnswersInv' BY RepliesRightly
<1>5. ParsedInv' BY ParsedKept DEF Types
<1> QED BY <1>1, <1>2, <1>3, <1>4, <1>5

LEMMA ServeSegmentKeeps ==
  ASSUME TranscodeInv, NEW r \in Streams, ServeSegment(r)
  PROVE  TranscodeInv'
<1> USE DEF TranscodeInv
<1> DEFINE q == tasked[r]
<1> DEFINE n == opened[r].size
<1>1. tstep[r] = "parsed" /\ opened' = [opened EXCEPT ![r] = NoFile]
      /\ UNCHANGED <<source, tcache, temps, recent, inflight, running, tasked, retried, midway>>
  BY DEF ServeSegment
<1>2. PICK pc \in {"idle", "poll"} : tstep' = [tstep EXCEPT ![r] = pc] BY DEF ServeSegment
<1>3. WorkInv' /\ tstep' \in [Workers -> Steps] /\ tstep'[Background] \in {"idle", "recheck", "ffmpeg"}
  <2>1. pc \in Steps /\ pc \notin AtWork /\ tstep[r] \in {"poll", "parsed"} BY <1>1 DEF Steps, AtWork
  <2> QED BY <1>1, <1>2, <2>1, StepKeepsWork
<1>4. Types' BY <1>1, <1>3 DEF Types
<1>5. FilesInv' BY <1>1, FilesKept DEF unchangedFiles
<1>6. AnswersInv'
  <2>0. opened[r] # NoFile BY <1>1 DEF ParsedInv
  <2>1. n \in 0..Total /\ n \in Nat /\ q \in Questions BY <2>0, TotalType DEF Types, Files
  <2>2. \/ /\ q.kind = "init" /\ InitSize(n) > 0
           /\ Reply(r, "segment", [from |-> 0, to |-> InitSize(n)], FALSE)
        \/ /\ q.kind = "range" /\ Fragments(n) # {} /\ CoveredTime(n) >= q.need
           /\ Reply(r, "segment", ExtractFragments(n, q.start, q.need), FALSE)
        \/ /\ q.kind = "range" /\ Fragments(n) # {} /\ CoveredTime(n) < q.need /\ CacheValid
           /\ CoveredTime(n) > q.start
           /\ Reply(r, "segment", ExtractFragments(n, q.start, CoveredTime(n)), TRUE)
        \/ CacheValid /\ Reply(r, "out of range", NoBytes, TRUE)
        \/ UNCHANGED answer
    BY DEF ServeSegment, NothingMoreComes
  <2> HIDE DEF q, n
  <2>3. CASE /\ q.kind = "init" /\ InitSize(n) > 0
             /\ Reply(r, "segment", [from |-> 0, to |-> InitSize(n)], FALSE)
    <3>1. InitSize(n) = InitSize(Total) BY <2>1, <2>3, TotalType DEF InitSize, Complete
    <3> QED BY <1>1, <2>3, <3>1, RepliesRightly DEF q
  <2>4. ASSUME q.kind = "range"
        PROVE  q.start \in Nat /\ q.need \in Nat /\ q.start < q.need
    BY <2>1, <2>4, TranscodeAssumption DEF Questions
  <2>5. CASE /\ q.kind = "range" /\ Fragments(n) # {} /\ CoveredTime(n) >= q.need
             /\ Reply(r, "segment", ExtractFragments(n, q.start, q.need), FALSE)
    <3>1. CoveredTime(n) \in Int BY <2>1, <2>5, Covered, LastIsLast, FragmentFacts
    <3>2. q.start < CoveredTime(n) BY <2>4, <2>5, <3>1
    <3>3. /\ ExtractFragments(n, q.start, q.need).from = ExtractFragments(Total, q.start, q.need).from
          /\ ExtractFragments(n, q.start, q.need).to <= ExtractFragments(Total, q.start, q.need).to
      BY <2>1, <2>4, <2>5, <3>2, CutIsPrefix
    <3> QED BY <1>1, <2>5, <3>3, RepliesRightly DEF q
  <2>6. CASE /\ q.kind = "range" /\ Fragments(n) # {} /\ CoveredTime(n) < q.need /\ CacheValid
             /\ CoveredTime(n) > q.start
             /\ Reply(r, "segment", ExtractFragments(n, q.start, CoveredTime(n)), TRUE)
    <3>1. CoveredTime(n) \in Nat
      <4>1. LastFragment(n) \in 1..N BY <2>1, <2>6, LastIsLast, FragmentFacts
      <4> QED BY <2>1, <2>6, <4>1, Covered
    <3>2. /\ ExtractFragments(n, q.start, CoveredTime(n)).from = ExtractFragments(Total, q.start, q.need).from
          /\ ExtractFragments(n, q.start, CoveredTime(n)).to <= ExtractFragments(Total, q.start, q.need).to
      BY <2>1, <2>4, <2>6, <3>1, CutIsPrefix
    <3> QED BY <1>1, <2>6, <3>2, RepliesRightly DEF q
  <2>7. CASE CacheValid /\ Reply(r, "out of range", NoBytes, TRUE) BY <1>1, <2>7, RepliesRightly
  <2>8. CASE UNCHANGED answer BY <1>1, <2>8, AnswersKept
  <2> QED BY <2>2, <2>3, <2>5, <2>6, <2>7, <2>8
<1>7. ParsedInv' BY <1>1, <1>2 DEF ParsedInv, Types, Workers
<1> QED BY <1>3, <1>4, <1>5, <1>6, <1>7

LEMMA CleanCacheOnceKeeps ==
  ASSUME TranscodeInv, CleanCacheOnce
  PROVE  TranscodeInv'
<1> USE DEF TranscodeInv
<1>1. tcache' = NoFile /\ temps' = [temps EXCEPT ![Leftover] = NoFile]
      /\ UNCHANGED <<source, inflight, running, tstep, tasked, opened, answer, retried, midway>>
  BY DEF CleanCacheOnce
<1>2. recent' \in Seq(Holders) BY WithoutType DEF Types, CleanCacheOnce
<1>3. temps'[Leftover] = NoFile /\ \A w \in Holders : w # Leftover => temps'[w] = temps[w] BY <1>1 DEF Types, Holders
<1>4. Types' BY <1>1, <1>2 DEF Types
<1>5. FilesInv' BY <1>1, <1>3 DEF FilesInv
<1>6. WorkInv'
  <2>1. \A w \in Workers : w \in Holders /\ w # Leftover BY TranscodeAssumption DEF Workers, Holders
  <2> QED BY <1>1, <1>3, <2>1 DEF WorkInv
<1>7. AnswersInv' BY <1>1, AnswersKept
<1>8. ParsedInv' BY <1>1, ParsedKept
<1> QED BY <1>4, <1>5, <1>6, <1>7, <1>8

LEMMA SourceReplacedKeeps ==
  ASSUME TranscodeInv, SourceReplaced
  PROVE  TranscodeInv'
<1> USE DEF TranscodeInv
<1>1. UNCHANGED <<recent, inflight, running, tstep, tasked, opened, answer, retried>> BY DEF SourceReplaced
<1>2. source' = source + 1 /\ tcache' = Older(tcache) /\ temps' = [w \in Holders |-> Older(temps[w])]
      /\ midway' = (midway \/ \E w \in Holders : temps[w] # NoFile)
  BY DEF SourceReplaced, Types
<1>3. \A f \in Files \cup {NoFile} :
         /\ Older(f) \in Files \cup {NoFile} /\ (Older(f) = NoFile <=> f = NoFile)
         /\ f # NoFile => Older(f).content = f.content /\ Older(f).size = f.size /\ Older(f).newer = FALSE
  BY FileFacts DEF Older, Files
<1>4. Types' BY <1>1, <1>2, <1>3 DEF Types
<1>5. FilesInv'
  <2>1. source \in Nat /\ tcache \in Files \cup {NoFile} /\ \A w \in Holders : temps[w] \in Files \cup {NoFile} BY DEF Types
  <2>2. \A f \in Files : f.content \in Nat BY DEF Files
  <2>3. tcache' # NoFile => tcache'.size = Total /\ tcache'.content <= source' /\ tcache'.newer = FALSE
    BY <1>2, <1>3, <2>1, <2>2 DEF FilesInv
  <2>4. ASSUME NEW w \in Holders, temps'[w] # NoFile PROVE temps'[w].content <= source' /\ midway'
    <3>1. temps[w] # NoFile /\ temps'[w].content = temps[w].content BY <1>2, <1>3, <2>1, <2>4
    <3>2. temps[w] \in Files /\ temps[w].content \in Nat BY <2>1, <2>2, <3>1
    <3>3. temps[w].content <= source BY <3>1 DEF FilesInv
    <3>4. midway' BY <1>2, <3>1
    <3>5. temps'[w].content <= source' BY <1>2, <2>1, <3>1, <3>2, <3>3
    <3> QED BY <3>4, <3>5
  <2> QED BY <2>3, <2>4 DEF FilesInv
<1>6. WorkInv' BY <1>1, <1>2, <1>3 DEF WorkInv, Types, Holders
<1>7. AnswersInv' BY <1>1, AnswersKept
<1>8. ParsedInv' BY <1>1, ParsedKept
<1> QED BY <1>4, <1>5, <1>6, <1>7, <1>8

LEMMA ServerStopsKeeps ==
  ASSUME TranscodeInv, ServerStops
  PROVE  TranscodeInv'
<1> USE DEF TranscodeInv
<1> DEFINE left == IF recent = <<>> THEN NoFile ELSE temps[recent[Len(recent)]]
<1>1. /\ temps' = [w \in Holders |-> IF w = Leftover THEN left ELSE NoFile]
      /\ recent' = IF left = NoFile THEN <<>> ELSE <<Leftover>>
      /\ inflight' = NoOne /\ running' = FALSE /\ tstep' = [w \in Workers |-> "idle"]
      /\ opened' = [r \in Streams |-> NoFile] /\ answer' = [r \in Streams |-> NoAnswer]
      /\ UNCHANGED <<source, tcache, tasked, retried, midway>>
  BY DEF ServerStops, Types
<1>2. left = NoFile \/ \E w \in Holders : temps[w] # NoFile /\ left = temps[w]
  <2>1. recent # <<>> => recent[Len(recent)] \in Holders BY DEF Types
  <2> QED BY <2>1
<1>3. left \in Files \cup {NoFile} BY <1>2 DEF Types
<1> HIDE DEF left
<1>4. Types'
  <2>1. Leftover \in Holders /\ Background \in Workers BY DEF Holders, Workers
  <2>2. recent' \in Seq(Holders) BY <1>1, <2>1
  <2>3. tstep' \in [Workers -> Steps] /\ tstep'[Background] = "idle" BY <1>1, <2>1 DEF Steps
  <2>4. temps' \in [Holders -> Files \cup {NoFile}] /\ opened' \in [Streams -> Files \cup {NoFile}] BY <1>1, <1>3
  <2> QED BY <1>1, <2>2, <2>3, <2>4 DEF Types
<1>5. FilesInv'
  <2>1. \A w \in Holders : temps'[w] # NoFile => temps'[w] = left /\ left # NoFile BY <1>1
  <2>2. left # NoFile => left.content <= source /\ (~midway => left.content = source) BY <1>2 DEF FilesInv
  <2> QED BY <1>1, <2>1, <2>2 DEF FilesInv
<1>6. WorkInv'
  <2>1. \A w \in Workers : temps'[w] = NoFile /\ tstep'[w] = "idle"
    BY <1>1, TranscodeAssumption DEF Workers, Holders
  <2> QED BY <1>1, <2>1 DEF WorkInv, AtWork, Workers
<1>7. AnswersInv' BY <1>1 DEF AnswersInv, Right, NoAnswer
<1>8. ParsedInv' BY <1>1 DEF ParsedInv, Workers
<1> QED BY <1>4, <1>5, <1>6, <1>7, <1>8

LEMMA TranscodeStep == TranscodeInv /\ [TranscodeNext]_tvars => TranscodeInv'
<1> SUFFICES ASSUME TranscodeInv, [TranscodeNext]_tvars PROVE TranscodeInv' OBVIOUS
<1>1. ASSUME NEW r \in Streams, \/ \E q \in Questions : AskStream(r, q)
                                \/ Look(r) \/ NothingForTenSeconds(r) \/ OpenFile(r) \/ ServeSegment(r) \/ GiveUp(r)
      PROVE  TranscodeInv'
  BY <1>1, AskStreamKeeps, LookKeeps, NothingForTenSecondsKeeps, OpenFileKeeps, ServeSegmentKeeps, GiveUpKeeps
<1>2. ASSUME NEW w \in Workers, Recheck(w) \/ FfmpegWrites(w) \/ TranscodeDone(w) \/ TranscodeFails(w)
      PROVE  TranscodeInv'
  BY <1>2, RecheckKeeps, FfmpegWritesKeeps, TranscodeDoneKeeps, TranscodeFailsKeeps
<1>3. CASE CleanCacheOnce \/ SourceReplaced \/ ServerStops
  BY <1>3, CleanCacheOnceKeeps, SourceReplacedKeeps, ServerStopsKeeps
<1>4. CASE UNCHANGED tvars
  <2> USE <1>4 DEF tvars, TranscodeInv
  <2>1. Types' BY DEF Types
  <2>2. FilesInv' BY FilesKept DEF unchangedFiles
  <2>3. WorkInv' BY DEF WorkInv
  <2>4. AnswersInv' BY AnswersKept
  <2>5. ParsedInv' BY ParsedKept
  <2> QED BY <2>1, <2>2, <2>3, <2>4, <2>5
<1> QED BY <1>1, <1>2, <1>3, <1>4 DEF TranscodeNext

(* The cache holds whole files of the current source, requests share one   *)
(* transcode, and what is cut from a growing file is a prefix of what the  *)
(* finished one gives, whatever fails, is replaced or stops                *)
(* (transcoder.go, fmp4.go).                                               *)
THEOREM TranscodesAreSound == TranscodeSpec => []TranscodeSound
BY InitTranscode, TranscodeStep, InvImpliesSound, PTL DEF TranscodeSpec
=============================================================================
