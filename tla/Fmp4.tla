---------------------------------- MODULE Fmp4 ---------------------------------
(* The parser of fragmented MP4 files of internal/infrastructure/transcoder/   *)
(* fmp4.go: what it makes of the first n units of a file that is still being   *)
(* written.  A unit is the size of a box header.                               *)
EXTENDS Integers, Sequences

CONSTANT Boxes \* the finished file: a sequence of [type, size, time]

(* External: what ffmpeg writes with the flags of buildFfmpegCmd, one moov and *)
(* then fragments of a moof and its mdat, of equal length in time.             *)
ASSUME BoxesAssumption ==
    /\ Boxes \in Seq([type : {"moov", "moof", "mdat"}, size : Nat \ {0}, time : Nat])
    /\ Len(Boxes) > 3 /\ Len(Boxes) % 2 = 1
    /\ Boxes[1].type = "moov"
    /\ \A i \in 1..Len(Boxes) :
           /\ i > 1 => Boxes[i].type = IF i % 2 = 0 THEN "moof" ELSE "mdat"
           /\ i > 1 /\ i % 2 = 0 => Boxes[i].time = (i \div 2) - 1

Offset[i \in 1..Len(Boxes) + 1] == IF i = 1 THEN 0 ELSE Offset[i - 1] + Boxes[i - 1].size

Total == Offset[Len(Boxes) + 1]

(* readBoxAt and findBox: a box is seen once its header is there. *)
Seen(i, n) == Offset[i] + 1 <= n

Complete(i, n) == Offset[i + 1] <= n

(* buildFmp4Index: the init segment. *)
InitSize(n) == IF Complete(1, n) THEN Offset[2] ELSE 0

(* Where a fragment ends: at the end of its mdat, or of the moof as long as    *)
(* not even the header of the mdat can be read.                                *)
FragmentEnd(i, n) == IF Seen(i + 1, n) THEN Offset[i + 2] ELSE Offset[i + 1]

IsFragment(i, n) == Boxes[i].type = "moof" /\ Complete(i, n) /\ FragmentEnd(i, n) <= n

Fragments(n) == {i \in 1..Len(Boxes) : IsFragment(i, n)}

LastFragment(n) == CHOOSE i \in Fragments(n) : \A j \in Fragments(n) : j <= i

(* The covered time: the last start and the step of the first two, or 1. *)
CoveredTime(n) ==
    LET step == IF 4 \in Fragments(n) THEN Boxes[4].time - Boxes[2].time ELSE 1
    IN  IF Fragments(n) = {} THEN 0 ELSE Boxes[LastFragment(n)].time + step

FragForTime(n, t) ==
    LET early == {i \in Fragments(n) : Boxes[i].time <= t}
    IN  IF early = {} THEN 2 ELSE CHOOSE i \in early : \A j \in early : j <= i

(* extractFragments: the bytes after from, up to to. *)
ExtractFragments(n, start, end) ==
    [from |-> Offset[FragForTime(n, start)], to |-> FragmentEnd(FragForTime(n, end), n)]

\* An index of n units never hands out bytes that are not there, and agrees with
\* that of the finished file on where every fragment but the last begins and
\* ends: what lets requests be served from a file ffmpeg is still writing.
IndexIsAPrefix(n) ==
    /\ InitSize(n) <= n /\ InitSize(n) \in {0, InitSize(Total)}
    /\ \A i \in Fragments(n) :
           /\ FragmentEnd(i, n) <= n /\ i \in Fragments(Total)
           /\ i # LastFragment(n) => FragmentEnd(i, n) = FragmentEnd(i, Total)
===============================================================================
