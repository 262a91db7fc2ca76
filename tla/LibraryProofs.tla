----------------------------- MODULE LibraryProofs ------------------------------
(***************************************************************************)
(* Proofs about what comes into the library, and about the library whole.  *)
(* Downloads, for any number of jobs and names, any order of their steps   *)
(* and any number of cancels, lost writes and stops; RepoCache, for any    *)
(* URLs and syncers; MarketPlugin, for any number of versions, failures,   *)
(* stops and requests.  With Settings the last two make AdminChangesApply; *)
(* with what TablesProofs and TracksProofs show of the other parts, the    *)
(* other promises of MCLibrary.                                            *)
(***************************************************************************)
EXTENDS MCLibrary, TablesProofs, TracksProofs, WellFoundedInduction, TLAPS

-----------------------------------------------------------------------------
(* Download jobs.                                                          *)

(* The state in the shape its steps leave it in.                           *)
JobPcs == {"none", "started", "find", "begin", "fetch", "copy", "processing", "failed",
           "complete", "ended"}
JobTypes ==
    /\ jobrow \in [Jobs -> Statuses \cup {NoJob}]
    /\ job \in [Jobs -> [pc : JobPcs, status : Statuses, target : Targets \cup {NoJob}]]
    /\ active \subseteq Jobs /\ cut \subseteq Jobs
    /\ saved \in [Targets -> [by : Jobs, whole : BOOLEAN] \cup {NoJob}]

Working(j) == job[j].pc \notin {"none", "started", "ended"}
ActiveWork == \A j \in Jobs : j \in active <=> Working(j)

(* What the row may say while the goroutine is where it is.  Only the job  *)
(* itself writes the row, and a library takes it away.                     *)
RowFollows == \A j \in Jobs :
    /\ job[j].pc # "ended" => jobrow[j] \notin {"failed", "completed"}
    /\ job[j].pc \in {"copy", "processing", "complete"} => job[j].target \in Targets

(* A context is only ever cancelled by a cancel, which the row then shows. *)
CutsAreWithdrawn ==
    /\ cut \subseteq withdrawn
    /\ \A j \in withdrawn \cap Jobs :
          /\ jobrow[j] \notin {"failed", "completed"} /\ (j \in cut \/ Ended(j))
          /\ job[j].pc \notin {"none", "started"}

(* A name is one job's, and what a job has copied stays in its file.       *)
OneNameEach == OwnNames =>
    \A i, j \in Jobs : i # j => job[i].target # job[j].target \/ job[i].target = NoJob
Copied(j) == job[j].pc \in {"processing", "complete"} \/ jobrow[j] = "completed"
CopiesAreKept == OwnNames =>
    \A j \in Jobs : Copied(j) => /\ job[j].target \in Targets
                                 /\ saved[job[j].target] = [by |-> j, whole |-> TRUE]

DownloadsInv == /\ JobTypes /\ ActiveWork /\ RowFollows /\ withdrawn \subseteq Jobs
                /\ CutsAreWithdrawn /\ OneNameEach /\ CopiesAreKept /\ EndedIsSettled

LEMMA InvImpliesDownloadsSound == DownloadsInv => DownloadsSound
<1> SUFFICES ASSUME DownloadsInv PROVE DownloadsSound OBVIOUS
<1> USE DEF DownloadsInv
<1>1. DownloadsTypeOK BY DEF JobTypes, ActiveWork, Working, DownloadsTypeOK
<1>2. CancelledIsNotCompleted BY DEF CutsAreWithdrawn, CancelledIsNotCompleted
<1>3. CompletedHasItsFile BY DEF CopiesAreKept, Copied, CompletedHasItsFile
<1> QED BY <1>1, <1>2, <1>3 DEF DownloadsSound

LEMMA InitDownloads == DownloadsInit => DownloadsInv
BY DownloadsAssumption
   DEF DownloadsInit, FreshJob, Statuses, JobPcs, DownloadsInv, JobTypes, ActiveWork, Working, RowFollows,
       CutsAreWithdrawn, OneNameEach, Copied, CopiesAreKept, EndedIsSettled, Ended

(* A step of the goroutine of job j touches no other job and no other      *)
(* job's file.                                                             *)
JobStep(j) ==
    \/ CreateJob(j) \/ RegisterJob(j) \/ FindJob(j) \/ BeginFetch(j) \/ CopyBody(j)
    \/ FetchFails(j) \/ Processing(j) \/ FinishJob(j) \/ \E t \in Targets : CreateFile(j, t)

LEMMA RowWrites ==
  ASSUME JobTypes, NEW j \in Jobs, NEW status \in Statuses, UpdateRow(j, status)
  PROVE  /\ jobrow' \in [Jobs -> Statuses \cup {NoJob}]
         /\ \A i \in Jobs \ {j} : jobrow'[i] = jobrow[i]
         /\ jobrow'[j] = jobrow[j] \/ (jobrow'[j] = status /\ j \notin cut)
         /\ \/ jobrow'[j] = status \/ jobrow'[j] = NoJob
            \/ j \in cut \/ j \in lostWrite'
         /\ lostWrite \subseteq lostWrite' /\ lostWrite' \subseteq lostWrite \cup {j}
BY DEF UpdateRow, Reaches, JobTypes

(* What a step of job j does to the state as the invariant sees it.        *)
Touches(j) ==
    /\ \A i \in Jobs \ {j} : /\ job'[i] = job[i] /\ jobrow'[i] = jobrow[i]
                             /\ i \in active' <=> i \in active
    /\ cut' = cut /\ withdrawn' = withdrawn
    /\ lostWrite \subseteq lostWrite' /\ lostWrite' \subseteq lostWrite \cup {j}
    /\ JobTypes'
    /\ job'[j].pc # "none"

JobRows == [pc : JobPcs, status : Statuses, target : Targets \cup {NoJob}]

LEMMA JobMoves ==
  ASSUME JobTypes, NEW j \in Jobs, NEW r \in JobRows, job' = [job EXCEPT ![j] = r]
  PROVE  job' \in [Jobs -> JobRows] /\ job'[j] = r /\ \A i \in Jobs \ {j} : job'[i] = job[i]
<1>1. job \in [Jobs -> JobRows] BY DEF JobTypes, JobRows
<1> QED BY <1>1

LEMMA JobStepTouches ==
  ASSUME JobTypes, NEW j \in Jobs, JobStep(j)
  PROVE  Touches(j)
<1>1. job[j] \in JobRows BY DEF JobTypes, JobRows
<1>2. ASSUME NEW r \in JobRows, job' = [job EXCEPT ![j] = r], r.pc # "none",
             \A i \in Jobs \ {j} : jobrow'[i] = jobrow[i] /\ (i \in active' <=> i \in active),
             jobrow' \in [Jobs -> Statuses \cup {NoJob}], active' \subseteq Jobs,
             cut' = cut, withdrawn' = withdrawn, lostWrite \subseteq lostWrite', lostWrite' \subseteq lostWrite \cup {j},
             saved' \in [Targets -> [by : Jobs, whole : BOOLEAN] \cup {NoJob}]
      PROVE  Touches(j)
  <2>1. job' \in [Jobs -> JobRows] /\ job'[j] = r /\ \A i \in Jobs \ {j} : job'[i] = job[i] BY <1>2, JobMoves
  <2> QED BY <1>2, <2>1 DEF Touches, JobTypes, JobRows
<1>3. active \subseteq Jobs /\ jobrow \in [Jobs -> Statuses \cup {NoJob}] /\ saved \in [Targets -> [by : Jobs, whole : BOOLEAN] \cup {NoJob}]
  BY DEF JobTypes
<1>4. CASE CreateJob(j)
  <2>1. [job[j] EXCEPT !.pc = "started"] \in JobRows BY <1>1 DEF JobRows, JobPcs
  <2>2. job' = [job EXCEPT ![j] = [job[j] EXCEPT !.pc = "started"]] BY <1>4 DEF CreateJob
  <2>3. [job[j] EXCEPT !.pc = "started"].pc = "started" BY <1>1 DEF JobRows
  <2>4. jobrow' = [jobrow EXCEPT ![j] = "pending"] /\ "pending" \in Statuses /\ UNCHANGED <<active, cut, saved, lostWrite, withdrawn>>
    BY <1>4 DEF CreateJob, Statuses
  <2> QED BY <1>2, <1>3, <2>1, <2>2, <2>3, <2>4
<1>5. CASE RegisterJob(j)
  <2>1. [job[j] EXCEPT !.pc = "find"] \in JobRows /\ [job[j] EXCEPT !.pc = "find"].pc = "find" BY <1>1 DEF JobRows, JobPcs
  <2>2. job' = [job EXCEPT ![j] = [job[j] EXCEPT !.pc = "find"]] BY <1>5 DEF RegisterJob
  <2>3. active' = active \cup {j} /\ UNCHANGED <<jobrow, cut, saved, lostWrite, withdrawn>> BY <1>5 DEF RegisterJob
  <2> QED BY <1>2, <1>3, <2>1, <2>2, <2>3
<1>6. CASE FindJob(j)
  <2>1. UNCHANGED <<jobrow, cut, saved, lostWrite, withdrawn>> BY <1>6 DEF FindJob
  <2>2. CASE j \in cut \/ jobrow[j] = NoJob
    <3>1. [job[j] EXCEPT !.pc = "ended"] \in JobRows /\ [job[j] EXCEPT !.pc = "ended"].pc = "ended" BY <1>1 DEF JobRows, JobPcs
    <3>2. job' = [job EXCEPT ![j] = [job[j] EXCEPT !.pc = "ended"]] /\ active' = active \ {j} BY <1>6, <2>2 DEF FindJob, Leave
    <3> QED BY <1>2, <1>3, <2>1, <3>1, <3>2
  <2>3. CASE ~(j \in cut \/ jobrow[j] = NoJob)
    <3> DEFINE r == [pc |-> "begin", status |-> jobrow[j], target |-> NoJob]
    <3>1. r \in JobRows /\ r.pc = "begin" BY <1>3, <2>3 DEF JobRows, JobPcs
    <3>2. job' = [job EXCEPT ![j] = r] /\ active' = active BY <1>6, <2>3 DEF FindJob
    <3> HIDE DEF r
    <3> QED BY <1>2, <1>3, <2>1, <3>1, <3>2
  <2> QED BY <2>2, <2>3
<1>7. CASE BeginFetch(j)
  <2> DEFINE r == [job[j] EXCEPT !.pc = "fetch", !.status = "downloading"]
  <2>1. r \in JobRows /\ r.pc = "fetch" BY <1>1 DEF JobRows, JobPcs, Statuses
  <2>2. job' = [job EXCEPT ![j] = r] BY <1>7 DEF BeginFetch
  <2>3. UpdateRow(j, "downloading") /\ "downloading" \in Statuses /\ UNCHANGED <<active, cut, saved, withdrawn>>
    BY <1>7 DEF BeginFetch, Statuses
  <2> HIDE DEF r
  <2> QED BY <1>2, <1>3, <2>1, <2>2, <2>3, RowWrites
<1>8. CASE CopyBody(j)
  <2> DEFINE r == [job[j] EXCEPT !.pc = "processing", !.status = "processing"]
  <2>1. r \in JobRows /\ r.pc = "processing" BY <1>1 DEF JobRows, JobPcs, Statuses
  <2>2. job' = [job EXCEPT ![j] = r] BY <1>8 DEF CopyBody
  <2>3. saved' = [saved EXCEPT ![job[j].target] = [by |-> j, whole |-> TRUE]] /\ UNCHANGED <<jobrow, active, cut, lostWrite, withdrawn>>
    BY <1>8 DEF CopyBody
  <2> HIDE DEF r
  <2> QED BY <1>2, <1>3, <2>1, <2>2, <2>3
<1>9. CASE FetchFails(j)
  <2> DEFINE r == [job[j] EXCEPT !.pc = "failed", !.status = "failed"]
  <2>1. r \in JobRows /\ r.pc = "failed" BY <1>1 DEF JobRows, JobPcs, Statuses
  <2>2. job' = [job EXCEPT ![j] = r] BY <1>9 DEF FetchFails
  <2>3. UNCHANGED <<jobrow, active, cut, saved, lostWrite, withdrawn>> BY <1>9 DEF FetchFails
  <2> HIDE DEF r
  <2> QED BY <1>2, <1>3, <2>1, <2>2, <2>3
<1>10. CASE Processing(j)
  <2>1. [job[j] EXCEPT !.pc = "complete"] \in JobRows /\ [job[j] EXCEPT !.pc = "complete"].pc = "complete" BY <1>1 DEF JobRows, JobPcs
  <2>2. job' = [job EXCEPT ![j] = [job[j] EXCEPT !.pc = "complete"]] BY <1>10 DEF Processing
  <2>3. UpdateRow(j, "processing") /\ "processing" \in Statuses /\ UNCHANGED <<active, cut, saved, withdrawn>>
    BY <1>10 DEF Processing, Statuses
  <2> QED BY <1>2, <1>3, <2>1, <2>2, <2>3, RowWrites
<1>11. CASE FinishJob(j)
  <2>1. [job[j] EXCEPT !.pc = "ended"] \in JobRows /\ [job[j] EXCEPT !.pc = "ended"].pc = "ended" BY <1>1 DEF JobRows, JobPcs
  <2>2. job' = [job EXCEPT ![j] = [job[j] EXCEPT !.pc = "ended"]] /\ active' = active \ {j} BY <1>11 DEF FinishJob, Leave
  <2>3. UpdateRow(j, Outcome(j)) /\ Outcome(j) \in Statuses /\ UNCHANGED <<cut, saved, withdrawn>>
    BY <1>11 DEF FinishJob, Statuses, Outcome
  <2> QED BY <1>2, <1>3, <2>1, <2>2, <2>3, RowWrites
<1>12. ASSUME NEW t \in Targets, CreateFile(j, t) PROVE Touches(j)
  <2> DEFINE r == [job[j] EXCEPT !.pc = "copy", !.target = t]
  <2>1. r \in JobRows /\ r.pc = "copy" BY <1>1 DEF JobRows, JobPcs
  <2>2. job' = [job EXCEPT ![j] = r] BY <1>12 DEF CreateFile
  <2>3. saved' = [saved EXCEPT ![t] = [by |-> j, whole |-> FALSE]] /\ UNCHANGED <<jobrow, active, cut, lostWrite, withdrawn>>
    BY <1>12 DEF CreateFile
  <2> HIDE DEF r
  <2> QED BY <1>2, <1>3, <2>1, <2>2, <2>3
<1> QED BY <1>4, <1>5, <1>6, <1>7, <1>8, <1>9, <1>10, <1>11, <1>12 DEF JobStep

(* The parts of the invariant that speak of one job at a time.             *)
Kept(j) ==
    /\ j \in active <=> Working(j)
    /\ job[j].pc # "ended" => jobrow[j] \notin {"failed", "completed"}
    /\ job[j].pc \in {"copy", "processing", "complete"} => job[j].target \in Targets
    /\ j \in withdrawn => /\ jobrow[j] \notin {"failed", "completed"} /\ (j \in cut \/ Ended(j))
                          /\ job[j].pc \notin {"none", "started"}
    /\ Ended(j) /\ jobrow[j] # NoJob /\ j \notin withdrawn \cup lostWrite
          => jobrow[j] \in {"failed", "completed"}

LEMMA InvIsKept ==
  DownloadsInv <=> /\ JobTypes /\ withdrawn \subseteq Jobs /\ cut \subseteq withdrawn
                   /\ \A j \in Jobs : Kept(j)
                   /\ OneNameEach /\ CopiesAreKept
BY DEF DownloadsInv, ActiveWork, RowFollows, CutsAreWithdrawn, EndedIsSettled, Kept

LEMMA JobStepKeeps ==
  ASSUME JobTypes, cut \subseteq withdrawn, NEW j \in Jobs, Kept(j), JobStep(j)
  PROVE  Kept(j)'
<1> USE DEF JobTypes, Kept, Working, Ended
<1>1. CASE CreateJob(j) BY <1>1 DEF CreateJob
<1>2. CASE RegisterJob(j) BY <1>2 DEF RegisterJob
<1>3. CASE FindJob(j)
  <2>1. CASE Leave(j) BY <1>3, <2>1 DEF FindJob, Leave
  <2>2. CASE ~Leave(j) BY <1>3, <2>2 DEF FindJob
  <2> QED BY <2>1, <2>2
<1>4. CASE BeginFetch(j)
  <2>1. "downloading" \in Statuses BY DEF Statuses
  <2>2. jobrow'[j] \in {jobrow[j], "downloading"} BY <1>4, <2>1, RowWrites DEF BeginFetch
  <2> QED BY <1>4, <2>2 DEF BeginFetch
<1>5. CASE CopyBody(j) BY <1>5 DEF CopyBody
<1>6. CASE FetchFails(j) BY <1>6 DEF FetchFails
<1>7. CASE Processing(j)
  <2>1. "processing" \in Statuses BY DEF Statuses
  <2>2. jobrow'[j] \in {jobrow[j], "processing"} BY <1>7, <2>1, RowWrites DEF Processing
  <2> QED BY <1>7, <2>2 DEF Processing
<1>8. CASE FinishJob(j)
  <2>1. Outcome(j) \in Statuses /\ Outcome(j) \in {"failed", "completed"} BY DEF Statuses, Outcome
  <2>2. job'[j].pc = "ended" /\ j \notin active' /\ UNCHANGED <<cut, withdrawn>> /\ j \in active
    BY <1>8 DEF FinishJob, Leave
  <2>3. /\ jobrow'[j] = jobrow[j] \/ j \notin cut
        /\ \/ jobrow'[j] = Outcome(j) \/ jobrow'[j] = NoJob \/ j \in cut \/ j \in lostWrite'
    BY <1>8, <2>1, RowWrites DEF FinishJob
  <2> QED BY <1>8, <2>1, <2>2, <2>3 DEF FinishJob
<1>9. ASSUME NEW t \in Targets, CreateFile(j, t) PROVE Kept(j)'
  <2>1. job'[j].pc = "copy" /\ job'[j].target = t BY <1>9 DEF CreateFile
  <2>2. job[j].pc = "fetch" /\ UNCHANGED <<jobrow, active, cut, lostWrite, withdrawn>> BY <1>9 DEF CreateFile
  <2> QED BY <2>1, <2>2
<1> QED BY <1>1, <1>2, <1>3, <1>4, <1>5, <1>6, <1>7, <1>8, <1>9 DEF JobStep

(* A job takes a name nobody has, and only writes to its own.              *)
LEMMA JobStepKeepsNames ==
  ASSUME JobTypes, OwnNames, OneNameEach, NEW j \in Jobs, Kept(j), JobStep(j)
  PROVE  /\ OneNameEach'
         /\ \A i \in Jobs \ {j} : job[i].target \in Targets => saved'[job[i].target] = saved[job[i].target]
<1> USE DEF JobTypes
<1>0. Touches(j) BY JobStepTouches
<1>1. ASSUME NEW t \in Targets, CreateFile(j, t)
      PROVE  /\ OneNameEach'
             /\ \A i \in Jobs \ {j} : job[i].target \in Targets => saved'[job[i].target] = saved[job[i].target]
  <2>1. job'[j].target = t BY <1>1 DEF CreateFile
  <2>2. \A i \in Jobs \ {j} : job[i].target # t BY <1>1 DEF CreateFile, NamesFor
  <2>3. saved' = [saved EXCEPT ![t] = [by |-> j, whole |-> FALSE]] BY <1>1 DEF CreateFile
  <2>4. \A i \in Jobs \ {j} : job'[i] = job[i] BY <1>0 DEF Touches
  <2> QED BY <2>1, <2>2, <2>3, <2>4 DEF OneNameEach
<1>2. ASSUME ~\E t \in Targets : CreateFile(j, t) PROVE job'[j].target \in {job[j].target, NoJob}
  <2>1. CASE FindJob(j)
    <3>1. CASE Leave(j) BY <3>1 DEF Leave
    <3>2. CASE ~Leave(j) BY <2>1, <3>2 DEF FindJob
    <3> QED BY <3>1, <3>2
  <2>2. CASE ~FindJob(j)
    BY <1>2, <2>2 DEF JobStep, CreateJob, RegisterJob, BeginFetch, CopyBody, FetchFails, Processing,
       FinishJob, Leave
  <2> QED BY <2>1, <2>2
<1>3. ASSUME ~\E t \in Targets : CreateFile(j, t) PROVE OneNameEach'
  <2>1. \A i \in Jobs \ {j} : job'[i] = job[i] BY <1>0 DEF Touches
  <2> QED BY <1>2, <1>3, <2>1 DEF OneNameEach
<1>4. ASSUME ~\E t \in Targets : CreateFile(j, t), NEW i \in Jobs \ {j}, job[i].target \in Targets
      PROVE  saved'[job[i].target] = saved[job[i].target]
  <2>1. CASE CopyBody(j)
    <3>1. job[j].target \in Targets /\ job[i].target # job[j].target
      BY <1>4, <2>1, DownloadsAssumption DEF CopyBody, Kept, OneNameEach
    <3> QED BY <2>1, <3>1 DEF CopyBody
  <2>2. CASE ~CopyBody(j)
    BY <1>4, <2>2 DEF JobStep, CreateJob, RegisterJob, FindJob, BeginFetch, FetchFails, Processing,
       FinishJob
  <2> QED BY <2>1, <2>2
<1> QED BY <1>1, <1>3, <1>4

LEMMA JobStepKeepsCopy ==
  ASSUME JobTypes, NEW j \in Jobs, Kept(j), JobStep(j), Copied(j)',
         Copied(j) => job[j].target \in Targets /\ saved[job[j].target] = [by |-> j, whole |-> TRUE]
  PROVE  job'[j].target \in Targets /\ saved'[job'[j].target] = [by |-> j, whole |-> TRUE]
<1> USE DEF JobTypes
<1>1. CASE CopyBody(j) BY <1>1 DEF CopyBody, Kept
<1>2. CASE Processing(j)
  <2>1. job[j].pc = "processing" /\ job'[j].target = job[j].target /\ saved' = saved BY <1>2 DEF Processing
  <2> QED BY <2>1 DEF Copied
<1>3. CASE FinishJob(j)
  <2>1. /\ job[j].pc \in {"failed", "complete"} /\ job'[j].pc = "ended"
        /\ job'[j].target = job[j].target /\ saved' = saved
    BY <1>3 DEF FinishJob, Leave
  <2>2. jobrow'[j] = "completed" BY <2>1 DEF Copied
  <2>3. jobrow[j] # "completed" BY <2>1 DEF Kept
  <2>4. Outcome(j) = "completed"
    <3>1. Outcome(j) \in Statuses BY DEF Statuses, Outcome
    <3> QED BY <1>3, <2>2, <2>3, <3>1, RowWrites DEF FinishJob
  <2>5. job[j].pc = "complete" BY <2>1, <2>4 DEF Outcome
  <2> QED BY <2>1, <2>5 DEF Copied
<1>4. CASE CreateJob(j) \/ RegisterJob(j) \/ FetchFails(j)
  BY <1>4 DEF CreateJob, RegisterJob, FetchFails, Copied, Kept
<1>5. CASE FindJob(j)
  <2>1. CASE Leave(j) BY <1>5, <2>1 DEF FindJob, Leave, Copied, Kept
  <2>2. CASE ~Leave(j) BY <1>5, <2>2 DEF FindJob, Copied, Kept
  <2> QED BY <2>1, <2>2
<1>6. CASE BeginFetch(j)
  <2>1. "downloading" \in Statuses BY DEF Statuses
  <2>2. jobrow'[j] \in {jobrow[j], "downloading"} BY <1>6, <2>1, RowWrites DEF BeginFetch
  <2> QED BY <1>6, <2>2 DEF BeginFetch, Copied, Kept
<1>7. ASSUME NEW t \in Targets, CreateFile(j, t) PROVE FALSE
  <2>1. job'[j].pc = "copy" BY <1>7 DEF CreateFile
  <2>2. job[j].pc = "fetch" /\ jobrow' = jobrow BY <1>7 DEF CreateFile
  <2> QED BY <2>1, <2>2 DEF Copied, Kept
<1> QED BY <1>1, <1>2, <1>3, <1>4, <1>5, <1>6, <1>7 DEF JobStep

LEMMA JobStepKeepsInv ==
  ASSUME DownloadsInv, NEW j \in Jobs, JobStep(j)
  PROVE  DownloadsInv'
<1>0. /\ JobTypes /\ withdrawn \subseteq Jobs /\ cut \subseteq withdrawn
      /\ \A i \in Jobs : Kept(i) BY InvIsKept
<1>1. Touches(j) BY <1>0, JobStepTouches
<1>2. \A i \in Jobs : Kept(i)'
  <2> SUFFICES ASSUME NEW i \in Jobs PROVE Kept(i)' OBVIOUS
  <2>1. CASE i = j BY <1>0, <2>1, JobStepKeeps
  <2>2. CASE i # j
    <3>1. /\ job'[i] = job[i] /\ jobrow'[i] = jobrow[i] /\ (i \in active' <=> i \in active)
          /\ cut' = cut /\ withdrawn' = withdrawn /\ (i \in lostWrite' <=> i \in lostWrite)
      BY <1>1, <2>2 DEF Touches
    <3> QED BY <1>0, <3>1 DEF Kept, Working, Ended
  <2> QED BY <2>1, <2>2
<1>3. OneNameEach'
  BY <1>0, JobStepKeepsNames DEF DownloadsInv, OneNameEach
<1>4. CopiesAreKept'
  <2> SUFFICES ASSUME OwnNames, NEW i \in Jobs, Copied(i)'
               PROVE  job'[i].target \in Targets /\ saved'[job'[i].target] = [by |-> i, whole |-> TRUE]
    BY DEF CopiesAreKept
  <2>1. Copied(i) => job[i].target \in Targets /\ saved[job[i].target] = [by |-> i, whole |-> TRUE]
    BY DEF DownloadsInv, CopiesAreKept
  <2>2. CASE i = j BY <1>0, <2>1, <2>2, JobStepKeepsCopy
  <2>3. CASE i # j
    <3>1. job'[i] = job[i] /\ jobrow'[i] = jobrow[i] BY <1>1, <2>3 DEF Touches
    <3>2. Copied(i) BY <3>1 DEF Copied
    <3>3. OneNameEach BY DEF DownloadsInv
    <3> QED BY <1>0, <2>1, <2>3, <3>1, <3>2, <3>3, JobStepKeepsNames
  <2> QED BY <2>2, <2>3
<1>5. JobTypes' /\ cut' = cut /\ withdrawn' = withdrawn BY <1>1 DEF Touches
<1> QED BY <1>0, <1>2, <1>3, <1>4, <1>5
        DEF DownloadsInv, ActiveWork, RowFollows, CutsAreWithdrawn, EndedIsSettled, Kept

(* A cancel, a deleted library and a stop act on all jobs at once.         *)
LEMMA OutsideKeepsInv ==
  ASSUME DownloadsInv, (\E j \in Jobs : CancelJob(j)) \/ LibraryGoes \/ ManagerStops
  PROVE  DownloadsInv'
<1>0. /\ JobTypes /\ withdrawn \subseteq Jobs /\ cut \subseteq withdrawn
      /\ \A i \in Jobs : Kept(i) BY InvIsKept
<1> SUFFICES /\ JobTypes' /\ withdrawn' \subseteq Jobs /\ cut' \subseteq withdrawn'
             /\ \A i \in Jobs : Kept(i)'
             /\ OneNameEach' /\ CopiesAreKept'
  BY DEF DownloadsInv, ActiveWork, RowFollows, CutsAreWithdrawn, EndedIsSettled, Kept
<1>1. ASSUME NEW j \in Jobs, CancelJob(j)
      PROVE  /\ JobTypes' /\ withdrawn' \subseteq Jobs /\ cut' \subseteq withdrawn'
             /\ \A i \in Jobs : Kept(i)'
             /\ OneNameEach' /\ CopiesAreKept'
  <2>1. /\ UNCHANGED <<jobrow, active, job, saved, lostWrite>>
        /\ \/ j \in active /\ cut' = cut \cup {j} /\ withdrawn' = withdrawn \cup {j}
           \/ j \notin active /\ cut' = cut /\ withdrawn' = withdrawn
    BY <1>1 DEF CancelJob, Cancelled
  <2>2. \A i \in Jobs : Kept(i)' BY <1>0, <2>1 DEF Kept, Working, Ended
  <2>3. OneNameEach' /\ CopiesAreKept'
    BY <2>1 DEF DownloadsInv, OneNameEach, CopiesAreKept, Copied
  <2> QED BY <1>0, <2>1, <2>2, <2>3 DEF JobTypes
<1>2. CASE LibraryGoes
  <2>1. jobrow' = [i \in Jobs |-> NoJob] /\ UNCHANGED <<active, job, cut, saved, lostWrite, withdrawn>>
    BY <1>2 DEF LibraryGoes
  <2>2. \A i \in Jobs : jobrow'[i] \notin {"failed", "completed"} /\ jobrow'[i] = NoJob
    BY <2>1, DownloadsAssumption DEF Statuses
  <2>3. \A i \in Jobs : Kept(i)' BY <1>0, <2>1, <2>2 DEF Kept, Working, Ended
  <2>4. OneNameEach' BY <2>1 DEF DownloadsInv, OneNameEach
  <2>5. CopiesAreKept' BY <2>1, <2>2 DEF DownloadsInv, CopiesAreKept, Copied
  <2> QED BY <1>0, <2>1, <2>3, <2>4, <2>5 DEF JobTypes
<1>3. CASE ManagerStops
  <2>1. /\ active' = {} /\ cut' = {} /\ UNCHANGED <<jobrow, saved, withdrawn>>
        /\ lostWrite' = lostWrite \cup {j \in Jobs : job[j].pc \notin {"none", "ended"}}
        /\ job' = [j \in Jobs |-> IF job[j].pc = "none" THEN FreshJob ELSE [job[j] EXCEPT !.pc = "ended"]]
    BY <1>3 DEF ManagerStops
  <2>2. \A i \in Jobs : /\ job[i].pc = "none" => job'[i] = FreshJob
                        /\ job[i].pc # "none" => job'[i].pc = "ended" /\ job'[i].target = job[i].target
    BY <1>0, <2>1 DEF JobTypes
  <2>3. FreshJob.pc = "none" /\ FreshJob.target = NoJob /\ FreshJob \in [pc : JobPcs, status : Statuses, target : Targets \cup {NoJob}]
    BY DEF FreshJob, JobPcs, Statuses
  <2>4. JobTypes'
    <3>1. \A i \in Jobs : [job[i] EXCEPT !.pc = "ended"] \in [pc : JobPcs, status : Statuses, target : Targets \cup {NoJob}]
      BY <1>0 DEF JobTypes, JobPcs
    <3> QED BY <1>0, <2>1, <2>3, <3>1 DEF JobTypes
  <2>5. \A i \in Jobs : Kept(i)' BY <1>0, <2>1, <2>2, <2>3 DEF Kept, Working, Ended
  <2>6. OneNameEach' BY <2>2, <2>3 DEF DownloadsInv, OneNameEach
  <2>7. CopiesAreKept'
    <3>1. \A i \in Jobs : Copied(i)' => Copied(i) /\ job'[i].target = job[i].target
      BY <1>0, <2>1, <2>2, <2>3 DEF Copied, Kept
    <3> QED BY <2>1, <3>1 DEF DownloadsInv, CopiesAreKept
  <2> QED BY <1>0, <2>1, <2>4, <2>5, <2>6, <2>7
<1> QED BY <1>1, <1>2, <1>3

(* Cancel, Create, execute and Stop of the download manager, in any order: *)
(* a job whose goroutine is over shows how it ended unless something took  *)
(* its write away, one cancelled while it ran never shows as completed or  *)
(* failed, and one shown as completed has its file.                        *)
THEOREM DownloadsAreSound == DownloadsSpec => []DownloadsSound
<1>1. DownloadsInv /\ [DownloadsNext]_jobVars => DownloadsInv'
  <2> SUFFICES ASSUME DownloadsInv, [DownloadsNext]_jobVars PROVE DownloadsInv' OBVIOUS
  <2>1. ASSUME NEW j \in Jobs, JobStep(j) PROVE DownloadsInv' BY <2>1, JobStepKeepsInv
  <2>2. CASE (\E j \in Jobs : CancelJob(j)) \/ LibraryGoes \/ ManagerStops BY <2>2, OutsideKeepsInv
  <2>3. CASE UNCHANGED jobVars
    BY <2>3 DEF jobVars, DownloadsInv, JobTypes, ActiveWork, Working, RowFollows, CutsAreWithdrawn,
       OneNameEach, Copied, CopiesAreKept, EndedIsSettled, Ended
  <2> QED BY <2>1, <2>2, <2>3 DEF DownloadsNext, JobStep
<1> QED BY <1>1, InitDownloads, InvImpliesDownloadsSound, PTL DEF DownloadsSpec

-----------------------------------------------------------------------------
(* A set of naturals that has a bound has a largest member.                *)
LEMMA LargestExists ==
  ASSUME NEW N \in Nat, NEW S \in SUBSET (0 .. N), S # {}
  PROVE  \E t \in S : \A x \in S : x <= t
<1> DEFINE D == {n \in Nat : N - n \in S}
<1>1. \A x \in S : N - x \in D
  <2> SUFFICES ASSUME NEW x \in S PROVE N - x \in D OBVIOUS
  <2>1. x \in 0 .. N OBVIOUS
  <2>2. N - x \in Nat /\ N - (N - x) = x BY <2>1
  <2> QED BY <2>2
<1> DEFINE below == {p \in Nat \X Nat : p[1] < p[2]}
<1>2. below = OpToRel(<, Nat) BY DEF OpToRel
<1> HIDE DEF below
<1>3. IsWellFoundedOn(below, Nat) BY <1>2, NatLessThanWellFounded
<1>4. PICK n \in D : \A m \in D : ~(<<m, n>> \in below)
  <2>1. D \subseteq Nat /\ D # {} BY <1>1
  <2> HIDE DEF D
  <2> QED BY <1>3, <2>1, WFMin
<1>5. \A m \in D : ~(m < n)
  <2> SUFFICES ASSUME NEW m \in D, m < n PROVE FALSE OBVIOUS
  <2>1. <<m, n>> \in below BY DEF below
  <2> QED BY <1>4, <2>1
<1>6. \A x \in S : x <= N - n
  <2> SUFFICES ASSUME NEW x \in S PROVE x <= N - n OBVIOUS
  <2>1. x \in 0 .. N OBVIOUS
  <2>2. N - x \in Nat /\ N - (N - x) = x BY <2>1
  <2>3. N - x \in D BY <2>2
  <2>4. n \in Nat /\ ~(N - x < n) BY <1>4, <1>5, <2>3
  <2> HIDE DEF D
  <2> QED BY <2>1, <2>4
<1>7. N - n \in S BY <1>4
<1> QED BY <1>6, <1>7

-----------------------------------------------------------------------------
(* The market's catalogs.                                                  *)

(* One sync at a time, from servers that send an ETag.                     *)
InTurn == SyncsAlone /\ ~ByDate

SyncPcs == {"rest", "add", "meta", "match", "cached", "ask", "same", "body", "newmeta", "current", "served"}
File == Copies \cup {NoFile}
SyncRecord == [pc : SyncPcs, url : Urls \cup {NoFile}, asked : File, got : File, loads : BOOLEAN]
RepoTypes ==
    /\ upstream \in [Urls -> 0 .. MaxPublished] /\ repos \subseteq Urls
    /\ body \in File /\ meta \in File /\ halved \in BOOLEAN
    /\ syncer \in [Syncers -> SyncRecord]
    /\ \A w \in Syncers : syncer[w].pc # "rest" => syncer[w].url \in Urls

Quiet(s) == s.pc \in {"rest", "add"}
OneSync == \A v, w \in Syncers : ~Quiet(syncer[v]) /\ ~Quiet(syncer[w]) => v = w

(* What a sync holds, with the files and the servers as they are: the      *)
(* answer is of its URL, it is no older than what the meta file vouches    *)
(* for, and once it is stored the body is that answer.                     *)
Answered(s, up) == s.got \in Copies /\ s.got.url = s.url /\ s.got.at <= up[s.url]
Fits(s, b, m, up, h) ==
    /\ s.pc \in {"ask", "same"} => s.asked = m
    /\ s.pc = "same" => m \in Copies /\ s.got = m /\ m.url = s.url
    /\ s.pc = "body" => Answered(s, up) /\ (m \in Copies /\ m.url = s.url => m.at <= s.got.at)
    /\ s.pc = "newmeta" => Answered(s, up) /\ b = s.got
    /\ s.pc = "current" => /\ b \in Copies /\ s.got \in Copies /\ s.got.url = s.url
                           /\ ~h => b = s.got
                           /\ b.url = s.url => b.at >= s.got.at
    /\ s.pc = "cached" /\ ~h /\ b # NoFile => b.url = s.url
    /\ s.pc = "served" /\ ~h => s.got.url = s.url

(* The meta file vouches for a body that is there or was replaced by a     *)
(* newer one, or one of another URL.                                       *)
Vouched(b, m, up) ==
    /\ m \in Copies => m.at <= up[m.url]
    /\ b \in Copies /\ m \in Copies /\ b.url = m.url => b.at >= m.at
Together == ~halved /\ (\A w \in Syncers : syncer[w].pc # "newmeta") => body = meta

RepoInv == /\ RepoTypes /\ OneSync /\ Vouched(body, meta, upstream) /\ Together
           /\ \A w \in Syncers : Fits(syncer[w], body, meta, upstream, halved)

-----------------------------------------------------------------------------

LEMMA InvImpliesRepoCacheSound == RepoInv => RepoCacheSound
<1> SUFFICES ASSUME RepoInv PROVE RepoCacheSound OBVIOUS
<1> USE DEF RepoInv
<1>1. RepoTypeOK BY DEF RepoTypes, RepoTypeOK, File, SyncRecord
<1>2. CatalogIsOfItsRepo BY DEF CatalogIsOfItsRepo, Fits
<1>3. NotModifiedMeansCurrent
  <2> SUFFICES ASSUME NEW w \in Syncers, syncer[w].pc = "current", halved => body.url = syncer[w].url
               PROVE  body.at >= syncer[w].got.at
    BY DEF NotModifiedMeansCurrent
  <2>1. body.url = syncer[w].url BY DEF Fits, RepoTypes
  <2> QED BY <2>1 DEF Fits
<1> QED BY <1>1, <1>2, <1>3 DEF RepoCacheSound

LEMMA CopyFacts ==
  /\ \A u \in Urls, t \in 0 .. MaxPublished : Copy(u, t) \in Copies /\ Copy(u, t).url = u /\ Copy(u, t).at = t
  /\ \A c \in Copies : c.url \in Urls /\ c.at \in Nat
  /\ NoFile \notin Copies
<1>1. MaxPublished \in Nat /\ \A t \in 0 .. MaxPublished : t \in Nat BY RepoCacheAssumption
<1>2. \A c \in Copies : c.url \in Urls /\ c.at \in Nat /\ c \in [url : Urls, at : Nat] BY <1>1 DEF Copies, Copy
<1>3. \A u \in Urls, t \in 0 .. MaxPublished : Copy(u, t) \in Copies /\ Copy(u, t).url = u /\ Copy(u, t).at = t
  BY DEF Copies, Copy
<1> QED BY <1>2, <1>3, RepoCacheAssumption

LEMMA NoSyncFacts == NoSync \in SyncRecord /\ NoSync.pc = "rest" /\ Quiet(NoSync)
BY DEF NoSync, SyncRecord, SyncPcs, File, Quiet

(* The newest publication of any of the URLs.                              *)
LEMMA PublishedFacts ==
  ASSUME RepoTypes, NEW u \in Urls
  PROVE  Published \in 0 .. MaxPublished /\ \A v \in Urls : upstream[v] <= Published
<1> DEFINE S == {upstream[v] : v \in Urls}
<1>1. MaxPublished \in Nat /\ S \in SUBSET (0 .. MaxPublished) /\ S # {} BY RepoCacheAssumption DEF RepoTypes
<1> HIDE DEF S
<1>2. \E t \in S : \A x \in S : x <= t BY <1>1, LargestExists
<1>3. Published = CHOOSE t \in S : \A v \in Urls : upstream[v] <= t BY DEF Published, S
<1>4. \E t \in S : \A v \in Urls : upstream[v] <= t BY <1>2 DEF S
<1>5. Published \in S /\ \A v \in Urls : upstream[v] <= Published BY <1>3, <1>4
<1> QED BY <1>1, <1>5

LEMMA InitRepo == RepoInit => RepoInv
<1> SUFFICES ASSUME RepoInit PROVE RepoInv OBVIOUS
<1> USE DEF RepoInit
<1>1. RepoTypes
  <2>1. 0 \in 0 .. MaxPublished BY RepoCacheAssumption
  <2>2. upstream \in [Urls -> 0 .. MaxPublished] /\ repos \subseteq Urls BY <2>1
  <2>3. body \in File /\ meta \in File /\ halved \in BOOLEAN BY DEF File
  <2>4. \A w \in Syncers : syncer[w] = NoSync OBVIOUS
  <2>5. syncer \in [Syncers -> SyncRecord] BY NoSyncFacts
  <2> QED BY <2>2, <2>3, <2>4, <2>5, NoSyncFacts DEF RepoTypes
<1>2. \A w \in Syncers : syncer[w].pc = "rest" BY NoSyncFacts
<1>3. OneSync BY <1>2 DEF OneSync, Quiet
<1>4. Vouched(body, meta, upstream)
  <2>1. meta \notin Copies /\ body \notin Copies BY CopyFacts
  <2> QED BY <2>1 DEF Vouched
<1>5. Together BY DEF Together
<1>6. \A w \in Syncers : Fits(syncer[w], body, meta, upstream, halved) BY <1>2 DEF Fits
<1> QED BY <1>1, <1>3, <1>4, <1>5, <1>6 DEF RepoInv

-----------------------------------------------------------------------------
(* The steps.                                                              *)

LEMMA QuietFits ==
  ASSUME NEW s, Quiet(s), NEW b, NEW m, NEW up, NEW h
  PROVE  Fits(s, b, m, up, h)
BY DEF Quiet, Fits

(* One syncer takes a step.                                                *)
LEMMA StepFacts ==
  ASSUME RepoTypes, OneSync, NEW w \in Syncers, NEW s \in SyncRecord, syncer' = [syncer EXCEPT ![w] = s],
         s.pc # "rest" => s.url \in Urls, Quiet(s) \/ ~Quiet(syncer[w]) \/ \A v \in Syncers : Quiet(syncer[v])
  PROVE  /\ syncer'[w] = s /\ \A v \in Syncers \ {w} : syncer'[v] = syncer[v]
         /\ syncer' \in [Syncers -> SyncRecord]
         /\ \A v \in Syncers : syncer'[v].pc # "rest" => syncer'[v].url \in Urls
         /\ OneSync'
         /\ ~Quiet(syncer[w]) => \A v \in Syncers \ {w} : Quiet(syncer[v])
<1>1. syncer'[w] = s /\ \A v \in Syncers \ {w} : syncer'[v] = syncer[v] BY DEF RepoTypes
<1>2. /\ syncer' \in [Syncers -> SyncRecord]
      /\ \A v \in Syncers : syncer'[v].pc # "rest" => syncer'[v].url \in Urls
  BY <1>1 DEF RepoTypes
<1>3. OneSync' BY <1>1 DEF OneSync, Quiet
<1>4. ~Quiet(syncer[w]) => \A v \in Syncers \ {w} : Quiet(syncer[v]) BY DEF OneSync
<1> QED BY <1>1, <1>2, <1>3, <1>4

LEMMA FilesStayKeeps ==
  ASSUME RepoInv, NEW w \in Syncers, NEW s \in SyncRecord, syncer' = [syncer EXCEPT ![w] = s],
         s.pc # "rest" => s.url \in Urls, Quiet(s) \/ ~Quiet(syncer[w]) \/ \A v \in Syncers : Quiet(syncer[v]),
         UNCHANGED <<upstream, body, meta, halved>>, repos' \subseteq Urls,
         Fits(s, body, meta, upstream, halved), syncer[w].pc # "newmeta"
  PROVE  RepoInv'
<1> USE DEF RepoInv
<1>1. /\ syncer'[w] = s /\ \A v \in Syncers \ {w} : syncer'[v] = syncer[v]
      /\ syncer' \in [Syncers -> SyncRecord]
      /\ \A v \in Syncers : syncer'[v].pc # "rest" => syncer'[v].url \in Urls
      /\ OneSync'
  BY StepFacts
<1>2. RepoTypes' BY <1>1 DEF RepoTypes
<1>3. Vouched(body, meta, upstream)' BY DEF Vouched
<1>4. Together' BY <1>1 DEF Together
<1>5. \A v \in Syncers : Fits(syncer'[v], body', meta', upstream', halved') BY <1>1
<1> QED BY <1>1, <1>2, <1>3, <1>4, <1>5

(* The record of a syncer and what EXCEPT makes of it.                     *)
LEMMA MovedSync ==
  ASSUME RepoTypes, NEW w \in Syncers, NEW pc \in SyncPcs
  PROVE  LET s == [syncer[w] EXCEPT !.pc = pc] IN
         /\ s \in SyncRecord /\ s.pc = pc /\ s.url = syncer[w].url /\ s.asked = syncer[w].asked
         /\ s.got = syncer[w].got /\ s.loads = syncer[w].loads
         /\ Moves(w, pc) => syncer' = [syncer EXCEPT ![w] = s]
<1>1. syncer[w] \in SyncRecord BY DEF RepoTypes
<1> DEFINE s == [syncer[w] EXCEPT !.pc = pc]
<1>2. /\ s \in SyncRecord /\ s.pc = pc /\ s.url = syncer[w].url /\ s.asked = syncer[w].asked
      /\ s.got = syncer[w].got /\ s.loads = syncer[w].loads
  BY <1>1 DEF SyncRecord
<1>3. Moves(w, pc) => syncer' = [syncer EXCEPT ![w] = s] BY DEF Moves
<1> QED BY <1>2, <1>3

LEMMA RestsKeeps ==
  ASSUME RepoInv, NEW w \in Syncers, InsertRepo(w) \/ SyncFails(w) \/ CatalogUsed(w)
  PROVE  RepoInv'
<1>1. /\ syncer' = [syncer EXCEPT ![w] = NoSync] /\ UNCHANGED <<upstream, body, meta, halved>> /\ syncer[w].pc # "newmeta"
  BY DEF InsertRepo, SyncFails, CatalogUsed, Rests, FilesStay
<1>2. repos' \subseteq Urls
  <2>1. InsertRepo(w) => syncer[w].url \in Urls BY DEF InsertRepo, RepoInv, RepoTypes
  <2> QED BY <2>1 DEF InsertRepo, SyncFails, CatalogUsed, RepoInv, RepoTypes
<1> QED BY <1>1, <1>2, NoSyncFacts, QuietFits, FilesStayKeeps

LEMMA BeginsSync ==
  ASSUME RepoInv, InTurn, NEW w \in Syncers, NEW u \in Urls, BeginAdd(w, u) \/ BeginSync(w, u) \/ BeginLoad(w, u)
  PROVE  RepoInv'
<1>1. \A pc \in {"add", "meta"} : LET s == [NoSync EXCEPT !.pc = pc, !.url = u] IN s \in SyncRecord /\ s.pc = pc /\ s.url = u
  BY DEF NoSync, SyncRecord, SyncPcs, File
<1>2. LET s == [NoSync EXCEPT !.pc = "match", !.url = u, !.loads = TRUE] IN s \in SyncRecord /\ s.pc = "match" /\ s.url = u
  BY DEF NoSync, SyncRecord, SyncPcs, File
<1>3. \E s \in SyncRecord : /\ s.pc \in {"add", "meta", "match"} /\ s.url = u /\ (s.pc # "add" => MayBegin)
                            /\ syncer' = [syncer EXCEPT ![w] = s]
  <2>1. CASE BeginAdd(w, u)
    <3> DEFINE s == [NoSync EXCEPT !.pc = "add", !.url = u]
    <3>1. s \in SyncRecord /\ s.pc = "add" /\ s.url = u BY <1>1
    <3>2. syncer' = [syncer EXCEPT ![w] = s] BY <2>1 DEF BeginAdd
    <3> HIDE DEF s
    <3> QED BY <3>1, <3>2
  <2>2. CASE BeginSync(w, u)
    <3> DEFINE s == [NoSync EXCEPT !.pc = "meta", !.url = u]
    <3>1. s \in SyncRecord /\ s.pc = "meta" /\ s.url = u BY <1>1
    <3>2. syncer' = [syncer EXCEPT ![w] = s] /\ MayBegin BY <2>2 DEF BeginSync
    <3> HIDE DEF s
    <3> QED BY <3>1, <3>2
  <2>3. CASE BeginLoad(w, u)
    <3> DEFINE s == [NoSync EXCEPT !.pc = "match", !.url = u, !.loads = TRUE]
    <3>1. s \in SyncRecord /\ s.pc = "match" /\ s.url = u BY <1>2
    <3>2. syncer' = [syncer EXCEPT ![w] = s] /\ MayBegin BY <2>3 DEF BeginLoad
    <3> HIDE DEF s
    <3> QED BY <3>1, <3>2
  <2> QED BY <2>1, <2>2, <2>3
<1>4. PICK s \in SyncRecord : /\ s.pc \in {"add", "meta", "match"} /\ s.url = u /\ (s.pc # "add" => MayBegin)
                             /\ syncer' = [syncer EXCEPT ![w] = s]
  BY <1>3
<1>5. /\ syncer[w].pc = "rest" /\ UNCHANGED <<upstream, body, meta, halved>> /\ repos' \subseteq Urls
  BY DEF BeginAdd, BeginSync, BeginLoad, FilesStay, RepoInv, RepoTypes
<1>6. Fits(s, body, meta, upstream, halved) BY <1>4 DEF Fits
<1>7. Quiet(s) \/ \A v \in Syncers : Quiet(syncer[v]) BY <1>4 DEF InTurn, MayBegin, Quiet
<1> QED BY <1>4, <1>5, <1>6, <1>7, FilesStayKeeps

LEMMA ReadsKeep ==
  ASSUME RepoInv, InTurn, NEW w \in Syncers, Match(w) \/ ReadCached(w) \/ LoadMeta(w) \/ AskServer(w) \/ SyncReturns(w)
  PROVE  RepoInv'
<1>1. /\ UNCHANGED <<upstream, body, meta, halved>> /\ repos' \subseteq Urls /\ ~Quiet(syncer[w]) /\ syncer[w].pc # "newmeta"
      /\ syncer[w].url \in Urls
  BY DEF Match, ReadCached, LoadMeta, AskServer, SyncReturns, FilesStay, RepoInv, RepoTypes, Quiet
<1>2. RepoTypes /\ syncer[w] \in SyncRecord /\ Fits(syncer[w], body, meta, upstream, halved) BY DEF RepoInv, RepoTypes
<1>3. \A v \in Syncers : ~halved /\ syncer[w].pc \in {"match", "cached", "ask"} => syncer[v].pc # "newmeta"
  BY DEF RepoInv, OneSync, Quiet
<1>4. ~halved /\ syncer[w].pc \in {"match", "cached", "ask"} => body = meta BY <1>3 DEF RepoInv, Together
<1>5. CASE Match(w)
  <2> DEFINE pc == IF CacheMatchesURL(syncer[w].url) THEN "cached" ELSE "meta"
  <2> DEFINE s == [syncer[w] EXCEPT !.pc = pc]
  <2>1. Moves(w, pc) /\ syncer[w].pc = "match" BY <1>5 DEF Match
  <2>2. pc \in {"cached", "meta"} /\ pc \in SyncPcs /\ (pc = "cached" => meta = NoFile \/ meta.url = syncer[w].url)
    BY DEF CacheMatchesURL, SyncPcs
  <2> HIDE DEF pc
  <2>3. s \in SyncRecord /\ s.pc = pc /\ s.url = syncer[w].url /\ syncer' = [syncer EXCEPT ![w] = s] BY <1>2, <2>1, <2>2, MovedSync
  <2> HIDE DEF s
  <2>4. Fits(s, body, meta, upstream, halved) BY <1>4, <2>1, <2>2, <2>3 DEF Fits
  <2> QED BY <1>1, <2>3, <2>4, FilesStayKeeps
<1>6. CASE ReadCached(w) /\ body = NoFile
  <2> DEFINE s == [syncer[w] EXCEPT !.pc = "meta"]
  <2>1. Moves(w, "meta") BY <1>6 DEF ReadCached
  <2>2. "meta" \in SyncPcs BY DEF SyncPcs
  <2>3. s \in SyncRecord /\ s.pc = "meta" /\ s.url = syncer[w].url /\ syncer' = [syncer EXCEPT ![w] = s] BY <1>2, <2>1, <2>2, MovedSync
  <2> HIDE DEF s
  <2>4. Fits(s, body, meta, upstream, halved) BY <2>3 DEF Fits
  <2> QED BY <1>1, <2>3, <2>4, FilesStayKeeps
<1>7. CASE (ReadCached(w) /\ body # NoFile) \/ (SyncReturns(w) /\ syncer[w].loads)
  <2> DEFINE s == [syncer[w] EXCEPT !.pc = "served", !.got = body]
  <2>1. syncer' = [syncer EXCEPT ![w] = s]
    BY <1>7 DEF ReadCached, SyncReturns
  <2>2. s \in SyncRecord /\ s.pc = "served" /\ s.url = syncer[w].url /\ s.got = body
    BY <1>2 DEF SyncRecord, SyncPcs, RepoTypes
  <2> HIDE DEF s
  <2>3. ~halved => body.url = syncer[w].url BY <1>2, <1>7 DEF Fits, ReadCached, SyncReturns
  <2>4. Fits(s, body, meta, upstream, halved) BY <2>2, <2>3 DEF Fits
  <2> QED BY <1>1, <2>1, <2>2, <2>4, FilesStayKeeps
<1>8. CASE SyncReturns(w) /\ ~syncer[w].loads
  <2>1. syncer' = [syncer EXCEPT ![w] = NoSync] BY <1>8 DEF SyncReturns, Rests
  <2> QED BY <1>1, <2>1, NoSyncFacts, QuietFits, FilesStayKeeps
<1>9. CASE LoadMeta(w)
  <2> DEFINE s == [syncer[w] EXCEPT !.pc = "ask", !.asked = meta]
  <2>1. syncer' = [syncer EXCEPT ![w] = s] BY <1>9 DEF LoadMeta
  <2>2. s \in SyncRecord /\ s.pc = "ask" /\ s.url = syncer[w].url /\ s.asked = meta
    BY <1>2 DEF SyncRecord, SyncPcs, RepoTypes
  <2> HIDE DEF s
  <2>3. Fits(s, body, meta, upstream, halved) BY <2>2 DEF Fits
  <2> QED BY <1>1, <2>1, <2>2, <2>3, FilesStayKeeps
<1>10. CASE AskServer(w)
  <2> DEFINE u == syncer[w].url
  <2> DEFINE c == Copy(u, upstream[u])
  <2> DEFINE pc == IF NotModified(u, syncer[w].asked) THEN "same" ELSE "body"
  <2> DEFINE s == [syncer[w] EXCEPT !.pc = pc, !.got = c]
  <2>1. syncer' = [syncer EXCEPT ![w] = s] /\ syncer[w].pc = "ask" BY <1>10 DEF AskServer
  <2>2. upstream[u] \in 0 .. MaxPublished BY <1>1 DEF RepoInv, RepoTypes
  <2>3. c \in Copies /\ c.url = u /\ c.at = upstream[u] /\ c.at \in Nat BY <1>1, <2>2, CopyFacts
  <2>4. pc \in {"same", "body"} /\ (pc = "same" => syncer[w].asked = c) BY DEF NotModified, InTurn
  <2> HIDE DEF c, pc
  <2>5. s \in SyncRecord /\ s.pc = pc /\ s.url = u /\ s.asked = syncer[w].asked /\ s.got = c
    BY <1>2, <2>3, <2>4 DEF SyncRecord, SyncPcs, File
  <2> HIDE DEF s
  <2>6. syncer[w].asked = meta BY <1>2, <2>1 DEF Fits
  <2>7. meta \in Copies /\ meta.url = u => meta.at <= c.at BY <2>3 DEF RepoInv, Vouched
  <2>8. c.at <= upstream[u] BY <2>3
  <2>9. Fits(s, body, meta, upstream, halved) BY <2>3, <2>4, <2>5, <2>6, <2>7, <2>8 DEF Fits, Answered
  <2> QED BY <1>1, <2>1, <2>5, <2>9, FilesStayKeeps
<1> QED BY <1>5, <1>6, <1>7, <1>8, <1>9, <1>10

(* A syncer takes a step that writes a file.                               *)
LEMMA WritesKeep ==
  ASSUME RepoInv, NEW w \in Syncers, NEW s \in SyncRecord, syncer' = [syncer EXCEPT ![w] = s],
         s.pc # "rest" => s.url \in Urls, ~Quiet(syncer[w]), UNCHANGED <<upstream, repos, halved>>,
         body' \in File, meta' \in File, Vouched(body', meta', upstream),
         Fits(s, body', meta', upstream, halved), s.pc = "newmeta" \/ (~halved => body' = meta')
  PROVE  RepoInv'
<1> USE DEF RepoInv
<1>1. /\ syncer'[w] = s /\ \A v \in Syncers \ {w} : syncer'[v] = syncer[v]
      /\ syncer' \in [Syncers -> SyncRecord]
      /\ \A v \in Syncers : syncer'[v].pc # "rest" => syncer'[v].url \in Urls
      /\ OneSync'
      /\ ~Quiet(syncer[w]) => \A v \in Syncers \ {w} : Quiet(syncer[v])
  BY StepFacts
<1>2. RepoTypes' BY <1>1 DEF RepoTypes
<1>3. Together' BY <1>1 DEF Together
<1>4. \A v \in Syncers \ {w} : Fits(syncer'[v], body', meta', upstream', halved') BY <1>1, QuietFits
<1>5. Vouched(body, meta, upstream)' BY DEF Vouched
<1> QED BY <1>1, <1>2, <1>3, <1>4, <1>5

LEMMA RenewKeeps ==
  ASSUME RepoInv, NEW w \in Syncers, Renew(w)
  PROVE  RepoInv'
<1>1. RepoTypes /\ Fits(syncer[w], body, meta, upstream, halved) /\ Vouched(body, meta, upstream) BY DEF RepoInv
<1>2. syncer[w].pc = "same" /\ body # NoFile /\ Moves(w, "current") /\ UNCHANGED <<upstream, repos, body, halved>>
  BY DEF Renew
<1>3. meta' = meta /\ meta \in Copies /\ syncer[w].got = meta /\ meta.url = syncer[w].url BY <1>1, <1>2 DEF Renew, Fits
<1>4. body \in Copies /\ syncer[w].url \in Urls /\ ~Quiet(syncer[w]) BY <1>1, <1>2 DEF RepoTypes, File, Quiet
<1>5. ~halved => body = meta
  <2>1. \A v \in Syncers : syncer[v].pc # "newmeta" BY <1>2, <1>4 DEF RepoInv, OneSync, Quiet
  <2> QED BY <2>1 DEF RepoInv, Together
<1> DEFINE s == [syncer[w] EXCEPT !.pc = "current"]
<1>6. "current" \in SyncPcs BY DEF SyncPcs
<1>7. s \in SyncRecord /\ s.pc = "current" /\ s.url = syncer[w].url /\ s.got = syncer[w].got /\ syncer' = [syncer EXCEPT ![w] = s]
  BY <1>1, <1>2, <1>6, MovedSync
<1> HIDE DEF s
<1>8. body.url = s.url => body.at >= s.got.at BY <1>1, <1>3, <1>4, <1>7 DEF Vouched
<1>9. Fits(s, body', meta', upstream, halved) BY <1>2, <1>3, <1>4, <1>5, <1>7, <1>8 DEF Fits
<1>10. body' \in File /\ meta' \in File /\ Vouched(body', meta', upstream) /\ (~halved => body' = meta')
  BY <1>1, <1>2, <1>3, <1>4, <1>5 DEF File
<1> QED BY <1>2, <1>4, <1>7, <1>9, <1>10, WritesKeep

LEMMA StoreKeeps ==
  ASSUME RepoInv, NEW w \in Syncers, Store(w)
  PROVE  RepoInv'
<1>1. RepoTypes /\ Fits(syncer[w], body, meta, upstream, halved) /\ Vouched(body, meta, upstream) BY DEF RepoInv
<1>2. syncer[w].pc \in {"body", "newmeta"} /\ ~Quiet(syncer[w]) /\ UNCHANGED <<upstream, repos, halved>>
  BY DEF Store, Quiet
<1>3. syncer[w].url \in Urls /\ Answered(syncer[w], upstream) BY <1>1, <1>2 DEF RepoTypes, Fits
<1> DEFINE g == syncer[w].got
<1>4. g \in Copies /\ g.url = syncer[w].url /\ g.at \in Nat /\ g.at <= upstream[g.url] BY <1>3, CopyFacts DEF Answered
<1>5. CASE syncer[w].pc = "body"
  <2> DEFINE s == [syncer[w] EXCEPT !.pc = "newmeta"]
  <2>1. "newmeta" \in SyncPcs /\ Moves(w, "newmeta") /\ body' = g /\ meta' = meta BY <1>5 DEF SyncPcs, Store, WriteCache
  <2>2. /\ s \in SyncRecord /\ s.pc = "newmeta" /\ s.url = syncer[w].url /\ s.got = g
        /\ syncer' = [syncer EXCEPT ![w] = s]
    BY <1>1, <2>1, MovedSync
  <2> HIDE DEF s
  <2>3. Fits(s, body', meta', upstream, halved) BY <1>3, <2>1, <2>2 DEF Fits, Answered
  <2>4. meta \in Copies /\ meta.url = syncer[w].url => meta.at <= g.at BY <1>1, <1>5 DEF Fits
  <2>5. meta \in Copies => meta.at \in Nat BY CopyFacts
  <2>6. Vouched(body', meta', upstream) BY <1>1, <1>4, <2>1, <2>4, <2>5 DEF Vouched
  <2>7. body' \in File /\ meta' \in File BY <1>1, <1>4, <2>1 DEF File, RepoTypes
  <2> QED BY <1>2, <1>3, <2>2, <2>3, <2>6, <2>7, WritesKeep
<1>6. CASE syncer[w].pc = "newmeta"
  <2> DEFINE s == [syncer[w] EXCEPT !.pc = "current"]
  <2>1. "current" \in SyncPcs /\ Moves(w, "current") /\ body' = body /\ meta' = g BY <1>6 DEF SyncPcs, Store, WriteCache
  <2>2. /\ s \in SyncRecord /\ s.pc = "current" /\ s.url = syncer[w].url /\ s.got = g
        /\ syncer' = [syncer EXCEPT ![w] = s]
    BY <1>1, <2>1, MovedSync
  <2> HIDE DEF s
  <2>3. body = g BY <1>1, <1>6 DEF Fits
  <2>4. Fits(s, body', meta', upstream, halved) BY <1>4, <2>1, <2>2, <2>3 DEF Fits
  <2>5. Vouched(body', meta', upstream) BY <1>4, <2>1, <2>3 DEF Vouched
  <2>6. body' \in File /\ meta' \in File /\ body' = meta' BY <1>4, <2>1, <2>3 DEF File
  <2> QED BY <1>2, <1>3, <2>2, <2>4, <2>5, <2>6, WritesKeep
<1> QED BY <1>2, <1>5, <1>6

(* A repository has a new content: what syncs hold stays no newer.         *)
LEMMA PublishKeeps ==
  ASSUME RepoInv, NEW u \in Urls, Publish(u)
  PROVE  RepoInv'
<1>1. /\ upstream' = [upstream EXCEPT ![u] = Published + 1] /\ Published < MaxPublished
      /\ UNCHANGED <<repos, body, meta, syncer, halved>>
  BY DEF Publish
<1>2. RepoTypes /\ MaxPublished \in Nat BY RepoCacheAssumption DEF RepoInv
<1>3. Published \in 0 .. MaxPublished /\ \A v \in Urls : upstream[v] <= Published BY <1>2, PublishedFacts
<1>4. upstream' \in [Urls -> 0 .. MaxPublished] BY <1>1, <1>2, <1>3 DEF RepoTypes
<1>5. \A v \in Urls : upstream[v] \in Nat /\ upstream'[v] \in Nat /\ upstream[v] <= upstream'[v]
  <2> SUFFICES ASSUME NEW v \in Urls PROVE upstream[v] \in Nat /\ upstream'[v] \in Nat /\ upstream[v] <= upstream'[v] OBVIOUS
  <2>1. upstream[v] \in 0 .. MaxPublished /\ upstream'[v] \in 0 .. MaxPublished BY <1>2, <1>4 DEF RepoTypes
  <2>2. upstream'[v] = IF v = u THEN Published + 1 ELSE upstream[v] BY <1>1, <1>2 DEF RepoTypes
  <2> QED BY <1>2, <1>3, <2>1, <2>2
<1>6. RepoTypes' BY <1>1, <1>2, <1>4 DEF RepoTypes
<1>7. \A c \in Copies : c.url \in Urls /\ c.at \in Nat /\ (c.at <= upstream[c.url] => c.at <= upstream'[c.url])
  BY <1>5, CopyFacts
<1>8. Vouched(body, meta, upstream)' BY <1>1, <1>7 DEF RepoInv, Vouched
<1>9. \A s \in SyncRecord : s.url \in Urls /\ Answered(s, upstream) => Answered(s, upstream') BY <1>7 DEF Answered
<1>10. \A w \in Syncers : Fits(syncer[w], body, meta, upstream', halved)
  <2> SUFFICES ASSUME NEW w \in Syncers PROVE Fits(syncer[w], body, meta, upstream', halved) OBVIOUS
  <2>1. /\ syncer[w] \in SyncRecord /\ (syncer[w].pc # "rest" => syncer[w].url \in Urls)
        /\ Fits(syncer[w], body, meta, upstream, halved)
    BY DEF RepoInv, RepoTypes
  <2>2. syncer[w].pc \in {"body", "newmeta"} => (Answered(syncer[w], upstream) => Answered(syncer[w], upstream')) BY <1>9, <2>1
  <2> QED BY <2>1, <2>2 DEF Fits
<1>11. OneSync' /\ Together' BY <1>1 DEF RepoInv, OneSync, Together
<1> QED BY <1>1, <1>6, <1>8, <1>10, <1>11 DEF RepoInv

LEMMA RestartKeeps ==
  ASSUME RepoInv, MarketStops
  PROVE  RepoInv'
<1>1. /\ halved' = (halved \/ \E w \in Syncers : syncer[w].pc = "newmeta")
      /\ syncer' = [w \in Syncers |-> NoSync] /\ UNCHANGED <<upstream, repos, body, meta>>
  BY DEF MarketStops
<1>2. \A w \in Syncers : syncer'[w] = NoSync BY <1>1
<1>3. RepoTypes' BY <1>1, <1>2, NoSyncFacts DEF RepoInv, RepoTypes
<1>4. OneSync' BY <1>2, NoSyncFacts DEF OneSync
<1>5. Together' BY <1>1 DEF RepoInv, Together
<1>6. Vouched(body, meta, upstream)' BY <1>1 DEF RepoInv, Vouched
<1>7. \A w \in Syncers : Fits(syncer'[w], body', meta', upstream', halved') BY <1>2, NoSyncFacts, QuietFits
<1> QED BY <1>3, <1>4, <1>5, <1>6, <1>7 DEF RepoInv

LEMMA RepoInvIsKept == InTurn /\ RepoInv /\ [RepoNext]_repoVars => RepoInv'
<1> SUFFICES ASSUME InTurn, RepoInv, [RepoNext]_repoVars PROVE RepoInv' OBVIOUS
<1>1. ASSUME NEW w \in Syncers, InsertRepo(w) \/ SyncFails(w) \/ CatalogUsed(w) PROVE RepoInv' BY <1>1, RestsKeeps
<1>2. ASSUME NEW w \in Syncers, Match(w) \/ ReadCached(w) \/ LoadMeta(w) \/ AskServer(w) \/ SyncReturns(w) PROVE RepoInv'
  BY <1>2, ReadsKeep
<1>3. ASSUME NEW w \in Syncers, Renew(w) \/ Store(w) PROVE RepoInv' BY <1>3, RenewKeeps, StoreKeeps
<1>4. ASSUME NEW w \in Syncers, NEW u \in Urls, BeginAdd(w, u) \/ BeginSync(w, u) \/ BeginLoad(w, u) PROVE RepoInv'
  BY <1>4, BeginsSync
<1>5. ASSUME NEW u \in Urls, Publish(u) PROVE RepoInv' BY <1>5, PublishKeeps
<1>6. ASSUME (\E u \in Urls : DropRepo(u)) \/ UNCHANGED repoVars PROVE RepoInv'
  <2>1. UNCHANGED <<upstream, body, meta, syncer, halved>> /\ repos' \subseteq Urls
    BY <1>6 DEF DropRepo, repoVars, RepoInv, RepoTypes
  <2> QED BY <2>1 DEF RepoInv, RepoTypes, OneSync, Together, Vouched
<1> QED BY <1>1, <1>2, <1>3, <1>4, <1>5, <1>6, RestartKeeps DEF RepoNext

\* When syncs run one at a time and the servers send an ETag, the catalog an
\* install or an update reads is always the one of the repository it asked for,
\* and a "not modified" always means that the cached body is the current one:
\* whatever fails, is added again under another URL, or stops between the two
\* files (market.go, syncRepo and loadRepoCatalog).
THEOREM CatalogsAreTheirs == InTurn => (RepoSpec => []RepoCacheSound)
<1> SUFFICES ASSUME InTurn PROVE RepoSpec => []RepoCacheSound OBVIOUS
<1>1. RepoInit => RepoInv BY InitRepo
<1>2. RepoInv /\ [RepoNext]_repoVars => RepoInv' BY RepoInvIsKept
<1>3. RepoInv => RepoCacheSound BY InvImpliesRepoCacheSound
<1> QED BY <1>1, <1>2, <1>3, PTL DEF RepoSpec

-----------------------------------------------------------------------------
(* The market's plugins on disk and in their rows.                         *)

Lasting == Places \ {Extracting}
OpKinds == {"none", "install", "update", "recover"}
OpPcs == {"none", "down", "archive", "extract", "manifest", "place", "out", "in", "clean", "record", "installed", "version"}
Operations == [kind : OpKinds, pc : OpPcs, ver : {0} \cup Versions, dir : Lasting, old : Lasting]
Passes == [kind : {"none", "repo", "local"}, pc : {"none", "started", "stat", "recover", "drop"},
           ver : {0} \cup Versions, dir : Lasting, old : Lasting]
MarketTypes ==
    /\ listed \in Versions /\ tar \in [Versions -> {Nowhere, "good", "bad"}]
    /\ dirs \in [Places -> Unpacked \cup {Nowhere}] /\ inst \in PluginRows \cup {Nowhere}
    /\ inst # Nowhere => inst.dir \in Lasting
    /\ op \in Operations /\ recon \in Passes
    /\ op.pc \notin {"none", "down"} => op.ver \in Versions
    /\ recon.pc = "recover" => recon.ver \in Versions

(* How far an operation may be, and what is in the archive and in the      *)
(* directory it unpacks.                                                   *)
Fetching == {"archive", "extract", "manifest"}
OpInv ==
    /\ op.kind = "update" => op.pc \in Fetching \cup {"out", "in", "clean", "version"}
    /\ op.kind \in {"install", "recover"} => op.pc \in Fetching \cup {"place", "record", "installed"}
    /\ op.kind = "none" => op.pc \in {"none", "down"}
    /\ op.pc \in {"extract", "manifest"} => tar[op.ver] = "good"
    /\ op.pc \in {"place", "out", "in"} => dirs[Extracting] = Content(op.ver, "good")
    /\ op.pc \in {"in", "clean"} => op.old # op.dir
    /\ op.kind = "update" /\ inst # Nowhere => inst.dir = op.dir

(* Where the directory it will fill is empty, and where it has filled it.  *)
ToFill == (op.kind \in {"install", "recover"} /\ op.pc \in Fetching \cup {"place"}) \/ op.pc = "in"
Filled == op.pc \in {"record", "installed", "clean", "version"}
PlaceInv ==
    /\ \A d \in Lasting : dirs[d] # Nowhere => dirs[d].bytes = "good"
    /\ ToFill => dirs[op.dir] = Nowhere
    /\ Filled /\ ~wiped => dirs[op.dir] # Nowhere
    /\ Filled /\ dirs[op.dir] # Nowhere => dirs[op.dir].ver = op.ver

(* The row names what is in its directory, installed or not, until an      *)
(* operation that has filled the directory writes the row.                 *)
Agrees == dirs[inst.dir] # Nowhere => dirs[inst.dir].ver = inst.ver
RowInv == ~unsure /\ inst # Nowhere =>
    /\ op.pc \notin {"down", "record", "clean", "version"} => Agrees
    /\ op.pc = "record" /\ inst.dir # op.dir => Agrees
    /\ op.pc = "in" /\ dirs[op.old] # Nowhere => dirs[op.old].ver = inst.ver

(* Somewhere the plugin is whole.                                          *)
There == \E d \in Lasting : dirs[d] # Nowhere
WholeInv ==
    /\ del.pc # "none" => wiped /\ del.dir \in Lasting
    /\ ~wiped /\ inst # Nowhere /\ inst.installed => There /\ op.kind # "install"

OfferInv ==
    /\ bought => inst # Nowhere /\ inst.source = "repo"
    /\ ~late /\ inst # Nowhere /\ (inst.update \/ check.pc = "offer") => listed > inst.ver

MarketInv == MarketTypes /\ OpInv /\ PlaceInv /\ RowInv /\ WholeInv /\ OfferInv

-----------------------------------------------------------------------------

LEMMA InvImpliesMarketSound == ~Flat /\ MarketInv => MarketSound
<1> SUFFICES ASSUME MarketInv PROVE MarketSound OBVIOUS
<1> USE DEF MarketInv
<1>1. MarketTypeOK
  <2>1. \A x \in Lasting : x \in Places BY DEF Lasting
  <2>2. \A x \in Versions : x \in 0 .. MaxListed BY MarketPluginAssumption DEF Versions
  <2>3. \A v \in Versions : tar[v] \in {Nowhere, "good", "bad"} BY DEF MarketTypes
  <2>4. \A d \in Places : dirs[d] \in Unpacked \cup {Nowhere} BY DEF MarketTypes
  <2>5. op.dir \in Lasting /\ recon.dir \in Lasting BY DEF MarketTypes, Operations, Passes
  <2> QED BY <2>1, <2>2, <2>3, <2>4, <2>5 DEF MarketTypes, MarketTypeOK
<1>2. RowNamesWhatIsThere BY DEF RowNamesWhatIsThere, RowInv, Agrees
<1>3. SwapLosesNothing BY DEF SwapLosesNothing, WholeInv, There, PlaceInv, Lasting
<1>4. OnlyVerifiedBytes BY DEF OnlyVerifiedBytes, PlaceInv, Lasting
<1>5. SourceIsKept BY DEF SourceIsKept, OfferInv
<1>6. OfferIsNewer BY DEF OfferIsNewer, OfferInv
<1>7. NoHalfInstalled BY DEF NoHalfInstalled, PlaceInv, MarketTypes
<1> QED BY <1>1, <1>2, <1>3, <1>4, <1>5, <1>6, <1>7 DEF MarketSound

LEMMA PlaceFacts ==
  /\ Home \in Lasting /\ Extracting \notin Lasting /\ Extracting \in Places
  /\ \A d \in Places : d \in Lasting \/ d = Extracting
  /\ \A d \in Lasting : d \in Places /\ d \in Nat /\ d \in 0 .. MaxBackups
  /\ \A b \in Backups : b \in Lasting
BY MarketPluginAssumption DEF Home, Lasting, Extracting, Places, Backups

LEMMA ContentFacts ==
  /\ \A v \in Versions, b \in {"half", "good", "bad"} :
       Content(v, b) \in Unpacked /\ Content(v, b) # Nowhere /\ Content(v, b).ver = v /\ Content(v, b).bytes = b
  /\ 1 \in Versions /\ Versions \subseteq Nat
<1>1. \A v \in Versions, b \in {"half", "good", "bad"} :
       Content(v, b) \in Unpacked /\ Content(v, b).ver = v /\ Content(v, b).bytes = b
  BY DEF Content, Unpacked
<1>2. 1 \in Versions /\ Versions \subseteq Nat BY MarketPluginAssumption DEF Versions
<1> QED BY <1>1, <1>2, MarketPluginAssumption

LEMMA IdleFacts ==
  /\ Idle \in Operations /\ Idle \in Passes
  /\ Idle.kind = "none" /\ Idle.pc = "none" /\ Idle.dir = Home
BY PlaceFacts DEF Idle, Operations, OpKinds, OpPcs, Passes

LEMMA InitMarket == MarketInit => MarketInv
<1> SUFFICES ASSUME MarketInit PROVE MarketInv OBVIOUS
<1> USE DEF MarketInit
<1>1. \A d \in Places : dirs[d] = Nowhere OBVIOUS
<1>2. MarketTypes
  <2>1. listed \in Versions BY ContentFacts
  <2>2. dirs \in [Places -> Unpacked \cup {Nowhere}] /\ tar \in [Versions -> {Nowhere, "good", "bad"}] OBVIOUS
  <2>3. recon \in Passes /\ op \in Operations /\ op.pc = "none" /\ recon.pc = "none" BY IdleFacts
  <2> QED BY <2>1, <2>2, <2>3 DEF MarketTypes, Passes
<1>3. OpInv BY IdleFacts DEF OpInv
<1>4. PlaceInv BY <1>1, PlaceFacts, IdleFacts DEF PlaceInv, ToFill, Filled
<1>5. RowInv /\ WholeInv BY IdleFacts DEF RowInv, WholeInv
<1>6. OfferInv BY DEF OfferInv
<1> QED BY <1>2, <1>3, <1>4, <1>5, <1>6 DEF MarketInv

-----------------------------------------------------------------------------
(* Steps that leave the files and the operation as they are.               *)

LEMMA RowChanges ==
  ASSUME MarketInv, UNCHANGED <<op, dirs, tar, unsure>>, listed' \in Versions, recon' \in Passes,
         recon'.pc = "recover" => recon'.ver \in Versions, inst' \in PluginRows \cup {Nowhere},
         inst' # Nowhere => inst # Nowhere /\ inst'.ver = inst.ver /\ inst'.dir = inst.dir,
         wiped => wiped', WholeInv', OfferInv'
  PROVE  MarketInv'
<1> USE DEF MarketInv
<1>1. MarketTypes' BY DEF MarketTypes, Passes
<1>2. OpInv' BY DEF OpInv
<1>3. PlaceInv' BY DEF PlaceInv, ToFill, Filled
<1>4. RowInv' BY DEF RowInv, Agrees
<1> QED BY <1>1, <1>2, <1>3, <1>4

LEMMA RowFacts ==
  ASSUME MarketTypes, inst # Nowhere
  PROVE  /\ inst \in PluginRows /\ inst.dir \in Lasting
         /\ \A b \in BOOLEAN : LET r == [inst EXCEPT !.installed = b] IN
              /\ r \in PluginRows /\ r # Nowhere /\ r.ver = inst.ver /\ r.dir = inst.dir /\ r.source = inst.source
              /\ r.update = inst.update /\ r.installed = b
         /\ \A b \in BOOLEAN : LET r == [inst EXCEPT !.update = b] IN
              /\ r \in PluginRows /\ r # Nowhere /\ r.ver = inst.ver /\ r.dir = inst.dir /\ r.source = inst.source
              /\ r.update = b /\ r.installed = inst.installed
<1>1. inst \in PluginRows /\ inst.dir \in Lasting BY DEF MarketTypes
<1>2. \A b \in BOOLEAN : LET r == [inst EXCEPT !.installed = b] IN
        /\ r \in PluginRows /\ r.ver = inst.ver /\ r.dir = inst.dir /\ r.source = inst.source
        /\ r.update = inst.update /\ r.installed = b
  BY <1>1 DEF PluginRows
<1>3. \A b \in BOOLEAN : LET r == [inst EXCEPT !.update = b] IN
        /\ r \in PluginRows /\ r.ver = inst.ver /\ r.dir = inst.dir /\ r.source = inst.source
        /\ r.update = b /\ r.installed = inst.installed
  BY <1>1 DEF PluginRows
<1> QED BY <1>1, <1>2, <1>3, MarketPluginAssumption

(* The catalog, the repository's row, and what checks and Reconcile read.  *)
LEMMA ReadingKeeps ==
  ASSUME MarketInv, ListNewer \/ DropTheRepo \/ BeginCheck \/ BeginReconcile \/ Reconcile
  PROVE  MarketInv'
<1>1. UNCHANGED <<op, dirs, tar, inst, del, unsure, wiped, bought, late>>
  BY DEF ListNewer, DropTheRepo, BeginCheck, BeginReconcile, Reconcile, HistoryStays
<1>2. MarketTypes /\ WholeInv /\ OfferInv BY DEF MarketInv
<1>3. listed \in Versions /\ listed' \in Versions /\ listed <= listed'
  <2>1. listed \in Versions /\ listed \in Nat BY <1>2, ContentFacts DEF MarketTypes
  <2>2. ListNewer => listed' \in Versions /\ listed <= listed' BY <2>1, MarketPluginAssumption DEF ListNewer, Versions
  <2>3. ~ListNewer => listed' = listed BY DEF DropTheRepo, BeginCheck, BeginReconcile, Reconcile
  <2> QED BY <2>1, <2>2, <2>3
<1>4. recon' \in Passes /\ (recon'.pc = "recover" => recon'.ver \in Versions)
  <2>1. recon \in Passes /\ (recon.pc = "recover" => recon.ver \in Versions) BY <1>2 DEF MarketTypes, Passes
  <2>2. CASE BeginReconcile /\ inst # Nowhere /\ inst.installed
    <3>1. recon' = [Idle EXCEPT !.kind = inst.source, !.pc = "stat", !.dir = inst.dir] BY <2>2 DEF BeginReconcile
    <3>2. inst.source \in {"repo", "local"} /\ inst.dir \in Lasting BY <1>2, <2>2, RowFacts DEF PluginRows
    <3> QED BY <3>1, <3>2, IdleFacts DEF Passes
  <2>3. CASE Reconcile
    <3>1. recon' = Idle \/ \E pc \in {"recover", "drop"} : recon' = [recon EXCEPT !.pc = pc, !.ver = listed]
      BY <2>3 DEF Reconcile
    <3>2. CASE recon' = Idle BY <3>2, IdleFacts
    <3>3. ASSUME NEW pc \in {"recover", "drop"}, recon' = [recon EXCEPT !.pc = pc, !.ver = listed]
          PROVE  recon' \in Passes /\ recon'.ver \in Versions
      BY <1>3, <2>1, <3>3 DEF Passes
    <3> QED BY <3>1, <3>2, <3>3
  <2>4. CASE recon' = Idle BY <2>4, IdleFacts
  <2>5. BeginReconcile /\ ~(inst # Nowhere /\ inst.installed) => recon' = Idle BY DEF BeginReconcile
  <2>6. CASE ~BeginReconcile /\ ~Reconcile BY <2>1, <2>6 DEF ListNewer, DropTheRepo, BeginCheck
  <2> QED BY <2>2, <2>3, <2>4, <2>5, <2>6
<1>5. WholeInv' BY <1>1, <1>2 DEF WholeInv, There
<1>6. OfferInv'
  <2>1. inst # Nowhere => inst.ver \in Nat BY <1>2, RowFacts, ContentFacts DEF PluginRows
  <2>2. check'.pc = "offer" => check.pc = "offer" \/ listed > inst.ver
    <3>1. BeginCheck => check' = [Idle EXCEPT !.pc = IF listed > inst.ver /\ repoRow THEN "offer" ELSE "clear"] BY DEF BeginCheck, Offers
    <3>2. BeginCheck => (check'.pc = "offer" => listed > inst.ver) BY <3>1, IdleFacts DEF Operations
    <3>3. ~BeginCheck => check' = check BY DEF ListNewer, DropTheRepo, BeginReconcile, Reconcile
    <3> QED BY <3>2, <3>3
  <2>3. listed \in Nat /\ listed' \in Nat BY <1>3, ContentFacts
  <2> QED BY <1>1, <1>2, <1>3, <2>1, <2>2, <2>3 DEF OfferInv
<1>7. inst' \in PluginRows \cup {Nowhere} BY <1>1, <1>2 DEF MarketTypes
<1> QED BY <1>1, <1>3, <1>4, <1>5, <1>6, <1>7, RowChanges

(* Requests and Reconcile that write or delete the row.                    *)
LEMMA DroppingKeeps ==
  ASSUME MarketInv, DeleteRow \/ ReconcileDrops \/ BeginDelete
  PROVE  MarketInv'
<1>1. UNCHANGED <<listed, op, dirs, tar, unsure, late>> /\ inst' \in {inst, Nowhere} BY DEF DeleteRow, ReconcileDrops, BeginDelete, HistoryStays
<1>2. MarketTypes /\ WholeInv /\ OfferInv BY DEF MarketInv
<1>3. recon' \in Passes /\ (recon'.pc = "recover" => recon'.ver \in Versions)
  BY <1>2, IdleFacts DEF DeleteRow, ReconcileDrops, BeginDelete, MarketTypes, Passes
<1>4. wiped => wiped' BY DEF DeleteRow, ReconcileDrops, BeginDelete
<1>5. inst' = Nowhere \/ (inst' = inst /\ wiped' /\ bought' = bought /\ check' = check) BY DEF DeleteRow, ReconcileDrops, BeginDelete
<1>6. del'.pc # "none" => wiped' /\ del'.dir \in Lasting
  <2>1. CASE BeginDelete
    <3>1. del' = [Idle EXCEPT !.pc = "files", !.dir = inst.dir] /\ wiped' /\ inst.dir \in Lasting
      BY <1>2, <2>1 DEF BeginDelete, MarketTypes
    <3> QED BY <3>1, IdleFacts DEF Operations
  <2>2. ~BeginDelete => del' \in {del, Idle} /\ wiped' = wiped BY DEF DeleteRow, ReconcileDrops
  <2> QED BY <1>2, <2>1, <2>2, IdleFacts DEF WholeInv
<1>7. WholeInv' BY <1>1, <1>5, <1>6 DEF WholeInv
<1>8. inst' = Nowhere => ~bought' \/ (BeginDelete /\ inst # Nowhere) BY DEF DeleteRow, ReconcileDrops, BeginDelete
<1>9. BeginDelete => inst' # Nowhere BY DEF BeginDelete
<1>10. OfferInv' BY <1>1, <1>2, <1>5, <1>8, <1>9 DEF OfferInv
<1> QED BY <1>1, <1>2, <1>3, <1>4, <1>7, <1>10, RowChanges DEF MarketTypes

LEMMA FlagsKeep ==
  ASSUME MarketInv, SetUninstalled \/ InstallLocal \/ StoreCheck
  PROVE  MarketInv'
<1>1. UNCHANGED <<listed, op, dirs, tar, recon, del, unsure, bought, late>> BY DEF SetUninstalled, InstallLocal, StoreCheck, HistoryStays
<1>2. MarketTypes /\ WholeInv /\ OfferInv BY DEF MarketInv
<1>3. wiped => wiped' BY DEF SetUninstalled, InstallLocal, StoreCheck, HistoryStays
<1>4. CASE inst = Nowhere
  <2>1. inst' = inst /\ wiped' = wiped BY <1>4 DEF SetUninstalled, InstallLocal, StoreCheck, HistoryStays
  <2> QED BY <1>1, <1>2, <1>3, <1>4, <2>1, RowChanges DEF MarketTypes, Passes, WholeInv, OfferInv
<1>5. CASE inst # Nowhere
  <2>1. /\ inst' \in PluginRows /\ inst' # Nowhere /\ inst'.ver = inst.ver /\ inst'.dir = inst.dir /\ inst'.source = inst.source
        /\ inst'.installed => inst.installed \/ (InstallLocal /\ dirs[inst.dir] # Nowhere /\ (wiped' \/ op = Idle))
        /\ inst'.update => inst.update \/ check.pc = "offer"
        /\ check'.pc = "offer" => check.pc = "offer"
    <3>1. CASE SetUninstalled
      <4>1. inst' = [inst EXCEPT !.installed = FALSE] /\ check' = check BY <3>1 DEF SetUninstalled
      <4> QED BY <1>2, <1>5, <4>1, RowFacts
    <3>2. CASE InstallLocal
      <4>1. inst' = [inst EXCEPT !.installed = TRUE] /\ check' = check /\ dirs[inst.dir] # Nowhere /\ (wiped' \/ op = Idle)
        BY <3>2 DEF InstallLocal
      <4> QED BY <1>2, <1>5, <3>2, <4>1, RowFacts
    <3>3. CASE StoreCheck
      <4>1. inst' = [inst EXCEPT !.update = (check.pc = "offer")] /\ check' = Idle BY <1>5, <3>3 DEF StoreCheck
      <4>2. (check.pc = "offer") \in BOOLEAN OBVIOUS
      <4> QED BY <1>2, <1>5, <4>1, <4>2, RowFacts, IdleFacts
    <3> QED BY <3>1, <3>2, <3>3
  <2>2. WholeInv' BY <1>1, <1>2, <1>3, <1>5, <2>1, RowFacts, IdleFacts DEF WholeInv, There
  <2>3. OfferInv' BY <1>1, <1>2, <1>5, <2>1 DEF OfferInv
  <2> QED BY <1>1, <1>2, <1>3, <1>5, <2>1, <2>2, <2>3, RowChanges DEF MarketTypes, Passes
<1> QED BY <1>4, <1>5

-----------------------------------------------------------------------------
(* Steps of an operation that leave the row as it is.                      *)

LEMMA OpChanges ==
  ASSUME MarketInv, UNCHANGED <<listed, inst, del, check, unsure, wiped, bought, late>>,
         op' \in Operations, op'.pc \notin {"none", "down"} => op'.ver \in Versions,
         op'.kind = "install" /\ inst # Nowhere => op.kind = "install" \/ ~inst.installed,
         recon' \in Passes, recon'.pc = "recover" => recon'.ver \in Versions,
         tar' \in [Versions -> {Nowhere, "good", "bad"}], dirs' \in [Places -> Unpacked \cup {Nowhere}],
         OpInv', PlaceInv', RowInv', There => There' \/ inst = Nowhere \/ ~inst.installed
  PROVE  MarketInv'
<1>1. MarketTypes' BY DEF MarketInv, MarketTypes
<1>2. WholeInv' BY DEF MarketInv, WholeInv
<1>3. OfferInv' BY DEF MarketInv, OfferInv
<1> QED BY <1>1, <1>2, <1>3 DEF MarketInv

LEMMA MovedOp ==
  ASSUME op \in Operations, NEW pc \in OpPcs
  PROVE  LET o == [op EXCEPT !.pc = pc] IN
         o \in Operations /\ o.pc = pc /\ o.kind = op.kind /\ o.ver = op.ver /\ o.dir = op.dir /\ o.old = op.old
BY DEF Operations

(* What an operation has at hand.                                          *)
LEMMA OpFacts ==
  ASSUME MarketInv, op.pc \notin {"none", "down"}
  PROVE  /\ op \in Operations /\ op.ver \in Versions /\ op.dir \in Lasting /\ op.old \in Lasting /\ op.kind # "none"
         /\ op.dir \in Places /\ op.old \in Places /\ op.dir # Extracting /\ op.old # Extracting
         /\ Content(op.ver, "good") \in Unpacked /\ Content(op.ver, "good") # Nowhere
         /\ Content(op.ver, "good").ver = op.ver /\ Content(op.ver, "good").bytes = "good"
         /\ Content(op.ver, "half") \in Unpacked /\ op.kind \in {"install", "update", "recover"}
<1>1. op \in Operations /\ op.ver \in Versions BY DEF MarketInv, MarketTypes
<1>2. op.dir \in Lasting /\ op.old \in Lasting /\ op.kind \in OpKinds BY <1>1 DEF Operations
<1>3. op.kind # "none" BY DEF MarketInv, OpInv
<1> QED BY <1>1, <1>2, <1>3, PlaceFacts, ContentFacts DEF OpKinds

(* An operation gives up, and what it has unpacked goes.                   *)
LEMMA ReleaseKeeps ==
  ASSUME MarketInv, Release, op.pc \notin {"none", "down", "record", "clean", "version"},
         UNCHANGED <<listed, inst, recon, del, check, unsure, wiped, bought, late>>,
         tar' \in [Versions -> {Nowhere, "good", "bad"}]
  PROVE  MarketInv'
<1>1. MarketTypes /\ RowInv /\ PlaceInv BY DEF MarketInv
<1>2. op' = Idle /\ dirs' = [dirs EXCEPT ![Extracting] = Nowhere] BY DEF Release
<1>3. dirs' \in [Places -> Unpacked \cup {Nowhere}] /\ \A d \in Lasting : dirs'[d] = dirs[d]
  BY <1>1, <1>2, PlaceFacts DEF MarketTypes
<1>4. OpInv' BY <1>2, IdleFacts DEF OpInv
<1>5. PlaceInv' BY <1>1, <1>2, <1>3, IdleFacts DEF PlaceInv, ToFill, Filled
<1>6. inst # Nowhere => inst.dir \in Lasting BY <1>1 DEF MarketTypes
<1>7. RowInv' BY <1>1, <1>2, <1>3, <1>6, IdleFacts DEF RowInv, Agrees
<1>8. There => There' BY <1>3 DEF There
<1>9. recon' \in Passes /\ (recon'.pc = "recover" => recon'.ver \in Versions) BY <1>1 DEF MarketTypes
<1> QED BY <1>2, <1>3, <1>4, <1>5, <1>7, <1>8, <1>9, IdleFacts, OpChanges

LEMMA RefusedKeeps ==
  ASSUME MarketInv, FetchRefused
  PROVE  MarketInv'
<1>1. Release /\ op.pc \notin {"none", "down", "record", "clean", "version"} BY DEF FetchRefused
<1>2. UNCHANGED <<listed, inst, recon, del, check, unsure, wiped, bought, late>> BY DEF FetchRefused, OthersStay, HistoryStays
<1>3. tar' \in [Versions -> {Nowhere, "good", "bad"}] BY DEF FetchRefused, MarketInv, MarketTypes
<1> QED BY <1>1, <1>2, <1>3, ReleaseKeeps

(* The archive is fetched and unpacked.                                    *)
LEMMA UnpackingKeeps ==
  ASSUME MarketInv, EnsureArchive \/ Extract \/ Extracted
  PROVE  MarketInv'
<1>1. UNCHANGED <<listed, inst, recon, del, check, unsure, wiped, bought, late>> /\ op.pc \in Fetching
  BY DEF EnsureArchive, Extract, Extracted, OthersStay, HistoryStays, Fetching
<1>2. MarketTypes /\ OpInv /\ PlaceInv /\ RowInv BY DEF MarketInv
<1>3. op.ver \in Versions /\ op.kind \in {"install", "update", "recover"} /\ op \in Operations BY <1>1, OpFacts DEF Fetching
<1>4. /\ op' \in Operations /\ op'.kind = op.kind /\ op'.ver = op.ver /\ op'.dir = op.dir /\ op'.old = op.old
      /\ op.pc = "archive" => op'.pc = "extract"
      /\ op.pc = "extract" => op'.pc = "manifest"
      /\ op.pc = "manifest" => op'.pc = IF op.kind = "update" THEN "out" ELSE "place"
  <2>1. {"extract", "manifest", "out", "place"} \subseteq OpPcs BY DEF OpPcs
  <2>2. EnsureArchive => op' = [op EXCEPT !.pc = "extract"] /\ op.pc = "archive" BY DEF EnsureArchive
  <2>3. Extract => op' = [op EXCEPT !.pc = "manifest"] /\ op.pc = "extract" BY DEF Extract
  <2>4. Extracted => op' = [op EXCEPT !.pc = IF op.kind = "update" THEN "out" ELSE "place"] /\ op.pc = "manifest" BY DEF Extracted
  <2>5. CASE EnsureArchive
    <3>1. op' = [op EXCEPT !.pc = "extract"] /\ op.pc = "archive" /\ "extract" \in OpPcs BY <2>1, <2>2, <2>5
    <3>2. op' \in Operations /\ op'.pc = "extract" /\ op'.kind = op.kind /\ op'.ver = op.ver /\ op'.dir = op.dir /\ op'.old = op.old
      BY <1>3, <3>1, MovedOp
    <3> QED BY <3>1, <3>2
  <2>6. CASE Extract
    <3>1. op' = [op EXCEPT !.pc = "manifest"] /\ op.pc = "extract" /\ "manifest" \in OpPcs BY <2>1, <2>3, <2>6
    <3>2. op' \in Operations /\ op'.pc = "manifest" /\ op'.kind = op.kind /\ op'.ver = op.ver /\ op'.dir = op.dir /\ op'.old = op.old
      BY <1>3, <3>1, MovedOp
    <3> QED BY <3>1, <3>2
  <2>7. CASE Extracted
    <3> DEFINE next == IF op.kind = "update" THEN "out" ELSE "place"
    <3>1. op' = [op EXCEPT !.pc = next] /\ op.pc = "manifest" /\ next \in OpPcs BY <2>1, <2>4, <2>7
    <3> HIDE DEF next
    <3>2. op' \in Operations /\ op'.pc = next /\ op'.kind = op.kind /\ op'.ver = op.ver /\ op'.dir = op.dir /\ op'.old = op.old
      BY <1>3, <3>1, MovedOp
    <3> QED BY <3>1, <3>2 DEF next
  <2> QED BY <2>5, <2>6, <2>7
<1>5. tar' \in [Versions -> {Nowhere, "good", "bad"}] /\ (op.pc \in {"archive", "extract"} => tar'[op.ver] = "good")
  <2>1. EnsureArchive => tar' \in {tar, [tar EXCEPT ![op.ver] = "good"]} /\ tar'[op.ver] = "good"
    BY <1>2, <1>3 DEF EnsureArchive, CacheHit, MarketTypes
  <2>2. ~EnsureArchive => tar' = tar BY DEF Extract, Extracted
  <2>3. op.pc = "archive" => EnsureArchive BY DEF Extract, Extracted
  <2> QED BY <1>2, <1>3, <2>1, <2>2, <2>3 DEF MarketTypes, OpInv
<1>6. /\ dirs' \in [Places -> Unpacked \cup {Nowhere}] /\ \A d \in Lasting : dirs'[d] = dirs[d]
      /\ op.pc = "manifest" => dirs'[Extracting] = Content(op.ver, "good")
  <2>1. CASE EnsureArchive BY <1>2, <2>1 DEF EnsureArchive, MarketTypes
  <2>2. CASE Extract
    <3>1. dirs' = [dirs EXCEPT ![Extracting] = Content(op.ver, "half")] /\ op.pc = "extract" BY <2>2 DEF Extract
    <3>2. Content(op.ver, "half") \in Unpacked BY <1>1, OpFacts DEF Fetching
    <3>3. dirs \in [Places -> Unpacked \cup {Nowhere}] BY <1>2 DEF MarketTypes
    <3>4. dirs' \in [Places -> Unpacked \cup {Nowhere}] BY <3>1, <3>2, <3>3
    <3>5. \A d \in Lasting : dirs'[d] = dirs[d] BY <3>1, <3>3, PlaceFacts
    <3> QED BY <3>1, <3>4, <3>5
  <2>3. CASE Extracted
    <3>1. dirs' = [dirs EXCEPT ![Extracting] = Content(op.ver, tar[op.ver])] /\ op.pc = "manifest" BY <2>3 DEF Extracted
    <3>2. tar[op.ver] = "good" BY <1>2, <3>1 DEF OpInv
    <3>3. dirs' = [dirs EXCEPT ![Extracting] = Content(op.ver, "good")] BY <3>1, <3>2
    <3>4. Content(op.ver, "good") \in Unpacked BY <1>3, ContentFacts
    <3> QED BY <1>2, <3>3, <3>4, PlaceFacts DEF MarketTypes
  <2> QED BY <2>1, <2>2, <2>3
<1>7. OpInv' BY <1>1, <1>2, <1>3, <1>4, <1>5, <1>6 DEF OpInv, Fetching
<1>8. op'.dir \in Lasting BY <1>4 DEF Operations
<1>9. PlaceInv' BY <1>1, <1>2, <1>3, <1>4, <1>6, <1>8 DEF PlaceInv, ToFill, Filled, Fetching
<1>10. inst # Nowhere => inst.dir \in Lasting BY <1>2 DEF MarketTypes
<1>11. RowInv' BY <1>1, <1>2, <1>4, <1>6, <1>10 DEF RowInv, Agrees, Fetching
<1>12. There => There' BY <1>6 DEF There
<1>13. recon' \in Passes /\ (recon'.pc = "recover" => recon'.ver \in Versions) BY <1>1, <1>2 DEF MarketTypes
<1> QED BY <1>1, <1>3, <1>4, <1>5, <1>6, <1>7, <1>9, <1>11, <1>12, <1>13, OpChanges

LEMMA PlacingKeeps ==
  ASSUME MarketInv, PlaceNew
  PROVE  MarketInv'
<1>1. UNCHANGED <<listed, tar, inst, recon, del, check, unsure, wiped, bought, late>> /\ op.pc \in {"place", "in"}
  BY DEF PlaceNew, OthersStay, HistoryStays
<1>2. MarketTypes /\ OpInv /\ PlaceInv /\ RowInv BY DEF MarketInv
<1>3. dirs[op.dir] = Nowhere /\ dirs[Extracting] = Content(op.ver, "good")
  BY <1>1, <1>2, OpFacts DEF PlaceInv, ToFill, OpInv, Fetching
<1>4. dirs' = [dirs EXCEPT ![op.dir] = dirs[Extracting], ![Extracting] = Nowhere] BY <1>3 DEF PlaceNew
<1> DEFINE pc == IF op.kind = "update" THEN "clean" ELSE "record"
<1>5. op' = [op EXCEPT !.pc = pc] BY <1>3 DEF PlaceNew
<1>6. pc \in OpPcs /\ pc \in {"clean", "record"} BY DEF OpPcs
<1>7. op' \in Operations /\ op'.kind = op.kind /\ op'.ver = op.ver /\ op'.dir = op.dir /\ op'.old = op.old /\ op'.pc = pc
  BY <1>1, <1>5, <1>6, OpFacts, MovedOp
<1>8. /\ dirs' \in [Places -> Unpacked \cup {Nowhere}]
      /\ dirs'[op.dir] = Content(op.ver, "good") /\ \A d \in Lasting \ {op.dir} : dirs'[d] = dirs[d]
  BY <1>1, <1>2, <1>3, <1>4, OpFacts, PlaceFacts DEF MarketTypes
<1>9. OpInv' BY <1>1, <1>2, <1>7, OpFacts DEF OpInv, Fetching
<1>10. PlaceInv' BY <1>1, <1>2, <1>6, <1>7, <1>8, OpFacts DEF PlaceInv, ToFill, Filled, Fetching
<1>11. inst # Nowhere => inst.dir \in Lasting BY <1>2 DEF MarketTypes
<1>12. RowInv'
  <2>1. inst # Nowhere /\ inst.dir # op.dir => dirs'[inst.dir] = dirs[inst.dir] BY <1>8, <1>11
  <2> QED BY <1>1, <1>2, <1>6, <1>7, <2>1 DEF RowInv, Agrees
<1>13. There' BY <1>1, <1>8, OpFacts DEF There
<1>14. recon' \in Passes /\ (recon'.pc = "recover" => recon'.ver \in Versions) /\ tar' \in [Versions -> {Nowhere, "good", "bad"}]
  BY <1>1, <1>2 DEF MarketTypes
<1>15. op'.ver \in Versions BY <1>1, <1>7, OpFacts
<1> QED BY <1>1, <1>7, <1>8, <1>9, <1>10, <1>12, <1>13, <1>14, <1>15, OpChanges

(* The swap of an update.                                                  *)
LEMMA SwapAwayKeeps ==
  ASSUME MarketInv, SwapAway
  PROVE  MarketInv'
<1>1. UNCHANGED <<listed, tar, inst, recon, del, check, unsure, wiped, bought, late>> /\ op.pc = "out"
  BY DEF SwapAway, OthersStay, HistoryStays
<1>2. MarketTypes /\ OpInv /\ PlaceInv /\ RowInv BY DEF MarketInv
<1>3. recon' \in Passes /\ (recon'.pc = "recover" => recon'.ver \in Versions) /\ tar' \in [Versions -> {Nowhere, "good", "bad"}]
  BY <1>1, <1>2 DEF MarketTypes
<1>4. CASE dirs[op.dir] = Nowhere
  <2>1. Release BY <1>4 DEF SwapAway
  <2> QED BY <1>1, <1>3, <2>1, ReleaseKeeps
<1>5. CASE dirs[op.dir] # Nowhere
  <2>1. PICK b \in FreeNames(op.dir) : dirs' = MoveAway(op.dir, b) /\ op' = [op EXCEPT !.pc = "in", !.old = b]
    BY <1>5 DEF SwapAway
  <2>2. b \in Lasting /\ b \in Places /\ b # Extracting /\ dirs[b] = Nowhere /\ b # op.dir
    BY <1>1, <2>1, OpFacts, PlaceFacts DEF FreeNames
  <2>3. /\ op' \in Operations /\ op'.kind = op.kind /\ op'.ver = op.ver /\ op'.dir = op.dir /\ op'.old = b /\ op'.pc = "in"
        /\ op'.ver \in Versions
    BY <1>1, <2>1, <2>2, OpFacts DEF Operations, OpPcs
  <2>4. /\ dirs' \in [Places -> Unpacked \cup {Nowhere}] /\ dirs'[b] = dirs[op.dir] /\ dirs'[op.dir] = Nowhere
        /\ \A d \in Places \ {b, op.dir} : dirs'[d] = dirs[d]
    BY <1>1, <1>2, <2>1, <2>2, OpFacts DEF MoveAway, MarketTypes
  <2>5. dirs'[Extracting] = dirs[Extracting] BY <1>1, <2>2, <2>4, OpFacts, PlaceFacts
  <2>6. \A d \in Lasting \ {b, op.dir} : dirs'[d] = dirs[d] BY <2>4, PlaceFacts
  <2>7. op.kind = "update" BY <1>1, <1>2, OpFacts DEF OpInv, Fetching
  <2>8. OpInv' BY <1>1, <1>2, <2>2, <2>3, <2>5, <2>7 DEF OpInv
  <2>9. PlaceInv' BY <1>1, <1>2, <2>2, <2>3, <2>4, <2>6, OpFacts DEF PlaceInv, ToFill, Filled, Fetching
  <2>10. RowInv'
    <3>1. inst # Nowhere => inst.dir = op.dir BY <1>2, <2>7 DEF OpInv
    <3> QED BY <1>1, <1>2, <2>3, <2>4, <3>1 DEF RowInv, Agrees
  <2>11. There' BY <1>5, <2>2, <2>4 DEF There
  <2> QED BY <1>1, <1>3, <2>3, <2>4, <2>7, <2>8, <2>9, <2>10, <2>11, OpChanges
<1> QED BY <1>4, <1>5

LEMMA SwapBackKeeps ==
  ASSUME MarketInv, SwapBack
  PROVE  MarketInv'
<1>1. UNCHANGED <<listed, tar, inst, recon, del, check, unsure, wiped, bought, late>> /\ op.pc = "in" /\ op' = Idle
  BY DEF SwapBack, OthersStay, HistoryStays
<1>2. MarketTypes /\ OpInv /\ PlaceInv /\ RowInv BY DEF MarketInv
<1>3. recon' \in Passes /\ (recon'.pc = "recover" => recon'.ver \in Versions) /\ tar' \in [Versions -> {Nowhere, "good", "bad"}]
  BY <1>1, <1>2 DEF MarketTypes
<1>4. /\ op.dir \in Lasting /\ op.old \in Lasting /\ op.old # op.dir /\ dirs[op.dir] = Nowhere /\ op.kind = "update"
      /\ op.dir \in Places /\ op.old \in Places /\ op.dir # Extracting /\ op.old # Extracting
  BY <1>1, <1>2, OpFacts DEF PlaceInv, ToFill, OpInv, Fetching
<1>5. /\ dirs' \in [Places -> Unpacked \cup {Nowhere}] /\ \A d \in Lasting \ {op.dir, op.old} : dirs'[d] = dirs[d]
      /\ \/ dirs'[op.dir] = dirs[op.old] /\ dirs'[op.old] = Nowhere
         \/ dirs'[op.dir] = dirs[op.dir] /\ dirs'[op.old] = dirs[op.old]
  <2>1. CASE dirs' = [dirs EXCEPT ![op.dir] = dirs[op.old], ![op.old] = Nowhere, ![Extracting] = Nowhere]
    BY <1>2, <1>4, <2>1, PlaceFacts DEF MarketTypes
  <2>2. CASE dirs' = [dirs EXCEPT ![Extracting] = Nowhere] BY <1>2, <1>4, <2>2, PlaceFacts DEF MarketTypes
  <2> QED BY <2>1, <2>2 DEF SwapBack
<1>6. OpInv' BY <1>1, IdleFacts DEF OpInv
<1>7. \A d \in Lasting : dirs'[d] = Nowhere \/ \E e \in Lasting : dirs'[d] = dirs[e] BY <1>4, <1>5
<1>8. PlaceInv' BY <1>1, <1>2, <1>7, IdleFacts DEF PlaceInv, ToFill, Filled
<1>9. RowInv'
  <2>1. inst # Nowhere => inst.dir = op.dir BY <1>2, <1>4 DEF OpInv
  <2> QED BY <1>1, <1>2, <1>4, <1>5, <2>1, IdleFacts DEF RowInv, Agrees
<1>10. There => There' BY <1>4, <1>5 DEF There
<1> QED BY <1>1, <1>3, <1>5, <1>6, <1>8, <1>9, <1>10, IdleFacts, OpChanges

LEMMA CleaningKeeps ==
  ASSUME MarketInv, CleanBackup
  PROVE  MarketInv'
<1>1. /\ UNCHANGED <<listed, tar, inst, recon, del, check, unsure, wiped, bought, late>> /\ op.pc = "clean"
      /\ op' = [op EXCEPT !.pc = "version"] /\ "version" \in OpPcs
  BY DEF CleanBackup, OthersStay, HistoryStays, OpPcs
<1>2. MarketTypes /\ OpInv /\ PlaceInv /\ RowInv /\ WholeInv BY DEF MarketInv
<1>3. recon' \in Passes /\ (recon'.pc = "recover" => recon'.ver \in Versions) /\ tar' \in [Versions -> {Nowhere, "good", "bad"}]
  BY <1>1, <1>2 DEF MarketTypes
<1>4. op.dir \in Lasting /\ op.old \in Places /\ op.old # op.dir /\ op.kind = "update" /\ op.old # Extracting
  BY <1>1, <1>2, OpFacts DEF OpInv, Fetching
<1>5. op' \in Operations /\ op'.kind = op.kind /\ op'.ver = op.ver /\ op'.dir = op.dir /\ op'.pc = "version" /\ op'.ver \in Versions
  BY <1>1, OpFacts, MovedOp
<1>6. dirs' \in [Places -> Unpacked \cup {Nowhere}] /\ \A d \in Lasting : dirs'[d] = dirs[d] \/ (dirs'[d] = Nowhere /\ d # op.dir)
  BY <1>2, <1>4, PlaceFacts DEF CleanBackup, MarketTypes
<1>7. OpInv' BY <1>1, <1>2, <1>4, <1>5 DEF OpInv
<1>8. PlaceInv' BY <1>1, <1>2, <1>4, <1>5, <1>6 DEF PlaceInv, ToFill, Filled
<1>9. RowInv' BY <1>1, <1>5 DEF RowInv
<1>10. There' \/ wiped BY <1>1, <1>2, <1>4, <1>6 DEF There, PlaceInv, Filled
<1>11. MarketTypes' BY <1>1, <1>2, <1>3, <1>5, <1>6 DEF MarketTypes
<1>12. WholeInv' BY <1>1, <1>2, <1>5, <1>10 DEF WholeInv
<1>13. OfferInv' BY <1>1 DEF MarketInv, OfferInv
<1> QED BY <1>7, <1>8, <1>9, <1>11, <1>12, <1>13 DEF MarketInv

-----------------------------------------------------------------------------
(* Operations begin.                                                       *)

LEMMA BeginningKeeps ==
  ASSUME MarketInv, BeginMarketInstall \/ BeginMarketUpdate
  PROVE  MarketInv'
<1>1. /\ UNCHANGED <<listed, tar, inst, recon, del, check, unsure, wiped, bought, late>> /\ op = Idle
  BY DEF BeginMarketInstall, BeginMarketUpdate, HistoryStays
<1>2. MarketTypes /\ OpInv /\ PlaceInv /\ RowInv BY DEF MarketInv
<1>3. recon' \in Passes /\ (recon'.pc = "recover" => recon'.ver \in Versions) /\ tar' \in [Versions -> {Nowhere, "good", "bad"}]
  BY <1>1, <1>2 DEF MarketTypes
<1>4. listed \in Versions /\ (inst # Nowhere => inst.dir \in Lasting) BY <1>2 DEF MarketTypes
<1>5. CASE BeginMarketInstall
  <2>1. op' = [Idle EXCEPT !.kind = "install", !.pc = "archive", !.ver = listed] BY <1>5 DEF BeginMarketInstall
  <2>2. op' \in Operations /\ op'.kind = "install" /\ op'.pc = "archive" /\ op'.ver = listed /\ op'.dir = Home
    BY <1>4, <2>1, IdleFacts DEF Operations, OpKinds, OpPcs
  <2>3. dirs' = [dirs EXCEPT ![Home] = Nowhere] BY <1>5 DEF BeginMarketInstall
  <2>4. /\ dirs' \in [Places -> Unpacked \cup {Nowhere}] /\ dirs'[Home] = Nowhere
        /\ \A d \in Lasting : dirs'[d] = dirs[d] \/ dirs'[d] = Nowhere
    BY <1>2, <2>3, PlaceFacts DEF MarketTypes
  <2>5. inst = Nowhere \/ ~inst.installed BY <1>5 DEF BeginMarketInstall
  <2>6. OpInv' BY <2>2 DEF OpInv, Fetching
  <2>7. PlaceInv' BY <1>2, <2>2, <2>4 DEF PlaceInv, ToFill, Filled
  <2>8. RowInv' BY <1>1, <1>2, <1>4, <2>2, <2>4, IdleFacts DEF RowInv, Agrees
  <2> QED BY <1>1, <1>3, <1>4, <2>2, <2>4, <2>5, <2>6, <2>7, <2>8, OpChanges
<1>6. CASE BeginMarketUpdate
  <2>1. op' = [Idle EXCEPT !.kind = "update", !.pc = "archive", !.ver = listed, !.dir = inst.dir] /\ inst # Nowhere /\ dirs' = dirs
    BY <1>6 DEF BeginMarketUpdate
  <2>2. op' \in Operations /\ op'.kind = "update" /\ op'.pc = "archive" /\ op'.ver = listed /\ op'.dir = inst.dir
    BY <1>4, <2>1, IdleFacts DEF Operations, OpKinds, OpPcs
  <2>3. OpInv' BY <1>1, <2>2 DEF OpInv, Fetching
  <2>4. PlaceInv' BY <1>2, <2>1, <2>2 DEF PlaceInv, ToFill, Filled
  <2>5. RowInv' BY <1>1, <1>2, <2>1, <2>2, IdleFacts DEF RowInv, Agrees
  <2>6. dirs' \in [Places -> Unpacked \cup {Nowhere}] /\ (There => There') BY <1>2, <2>1 DEF MarketTypes, There
  <2> QED BY <1>1, <1>3, <1>4, <2>2, <2>3, <2>4, <2>5, <2>6, OpChanges
<1> QED BY <1>5, <1>6

LEMMA RecoveryKeeps ==
  ASSUME MarketInv, RecoverPlugin
  PROVE  MarketInv'
<1>1. /\ UNCHANGED <<listed, tar, dirs, inst, del, check, unsure, wiped, bought, late>> /\ op = Idle
      /\ recon.pc = "recover" /\ recon' = Idle
  BY DEF RecoverPlugin, HistoryStays
<1>2. MarketTypes /\ OpInv /\ PlaceInv /\ RowInv BY DEF MarketInv
<1>3. /\ recon' \in Passes /\ recon'.pc # "recover" /\ tar' \in [Versions -> {Nowhere, "good", "bad"}]
      /\ dirs' \in [Places -> Unpacked \cup {Nowhere}] /\ (There => There')
      /\ recon.ver \in Versions /\ recon.dir \in Lasting
  BY <1>1, <1>2, IdleFacts DEF MarketTypes, There, Passes
<1>4. CASE StillGone
  <2>1. op' = [Idle EXCEPT !.kind = "recover", !.pc = "archive", !.ver = recon.ver, !.dir = recon.dir]
    BY <1>4 DEF RecoverPlugin
  <2>2. op' \in Operations /\ op'.kind = "recover" /\ op'.pc = "archive" /\ op'.ver = recon.ver /\ op'.dir = recon.dir
    BY <1>3, <2>1, IdleFacts DEF Operations, OpKinds, OpPcs
  <2>3. OpInv' BY <2>2 DEF OpInv, Fetching
  <2>4. PlaceInv' BY <1>1, <1>2, <1>4, <2>2 DEF PlaceInv, ToFill, Filled, StillGone
  <2>5. RowInv' BY <1>1, <1>2, <2>2, IdleFacts DEF RowInv, Agrees
  <2> QED BY <1>1, <1>3, <2>2, <2>3, <2>4, <2>5, OpChanges
<1>5. CASE ~StillGone
  <2>1. op' = op BY <1>5 DEF RecoverPlugin
  <2>2. OpInv' /\ PlaceInv' BY <1>1, <1>2, <2>1 DEF OpInv, PlaceInv, ToFill, Filled
  <2>3. RowInv' BY <1>1, <1>2, <2>1 DEF RowInv, Agrees
  <2>4. op' \in Operations /\ op'.pc = "none" /\ op'.kind = "none" BY <1>1, <2>1, IdleFacts
  <2> QED BY <1>1, <1>3, <2>2, <2>3, <2>4, OpChanges
<1> QED BY <1>4, <1>5

-----------------------------------------------------------------------------
(* Operations write the row.                                               *)

LEMMA UpsertedFacts ==
  ASSUME MarketTypes, NEW v \in Versions, NEW d \in Lasting, NEW s \in {"repo", "local"}
  PROVE  LET u == Upserted(v, d, s) IN
         /\ u \in PluginRows /\ u # Nowhere /\ u.ver = v /\ u.dir = d
         /\ u.installed => inst # Nowhere /\ inst.installed
         /\ u.source = IF inst = Nowhere THEN s ELSE inst.source
<1> DEFINE u == Upserted(v, d, s)
<1>1. d \in Places BY PlaceFacts
<1>2. CASE inst = Nowhere
  <2>1. u = PluginRow(v, d, FALSE, s, FALSE) BY <1>2 DEF Upserted
  <2>2. u \in PluginRows /\ u.ver = v /\ u.dir = d /\ ~u.installed /\ u.source = s BY <1>1, <2>1 DEF PluginRow, PluginRows
  <2> QED BY <1>2, <2>2, MarketPluginAssumption
<1>3. CASE inst # Nowhere
  <2>1. u = [inst EXCEPT !.ver = v, !.dir = d] /\ inst \in PluginRows BY <1>3 DEF Upserted, MarketTypes
  <2>2. u \in PluginRows /\ u.ver = v /\ u.dir = d /\ u.installed = inst.installed /\ u.source = inst.source
    BY <1>1, <2>1 DEF PluginRows
  <2> QED BY <1>3, <2>2, MarketPluginAssumption
<1> QED BY <1>2, <1>3

(* A row whose flag is taken away.                                         *)
LEMMA ClearedFacts ==
  ASSUME NEW r \in PluginRows
  PROVE  LET c == [r EXCEPT !.update = FALSE] IN
         /\ c \in PluginRows /\ c # Nowhere /\ c.ver = r.ver /\ c.dir = r.dir /\ c.installed = r.installed
         /\ c.source = r.source /\ c.update = FALSE
<1>1. LET c == [r EXCEPT !.update = FALSE] IN
         /\ c \in PluginRows /\ c.ver = r.ver /\ c.dir = r.dir /\ c.installed = r.installed
         /\ c.source = r.source /\ c.update = FALSE
  BY DEF PluginRows
<1> QED BY <1>1, MarketPluginAssumption

(* What an operation leaves that writes the row.                           *)
LEMMA RowWritesKeep ==
  ASSUME MarketInv, op.pc \in {"record", "installed", "version"}, UNCHANGED <<listed, tar, recon, del, check, wiped>>,
         op' \in Operations, op'.pc \notin {"none", "down"} => op'.ver \in Versions,
         inst' \in PluginRows \cup {Nowhere}, inst' # Nowhere => inst'.dir \in Lasting,
         dirs' \in [Places -> Unpacked \cup {Nowhere}], OpInv', PlaceInv', RowInv', OfferInv',
         ~wiped /\ inst' # Nowhere /\ inst'.installed => There' /\ op'.kind # "install"
  PROVE  MarketInv'
<1>1. MarketTypes' BY DEF MarketInv, MarketTypes
<1>2. WholeInv' BY DEF MarketInv, WholeInv
<1> QED BY <1>1, <1>2 DEF MarketInv

LEMMA RecordKeeps ==
  ASSUME MarketInv, Record
  PROVE  MarketInv'
<1>1. UNCHANGED <<listed, tar, recon, del, check, wiped, bought>> /\ op.pc = "record" BY DEF Record, OthersStay
<1>2. MarketTypes /\ OpInv /\ PlaceInv /\ RowInv /\ WholeInv /\ OfferInv BY DEF MarketInv
<1>3. op.ver \in Versions /\ op.dir \in Lasting /\ op \in Operations /\ op.kind \in {"install", "recover"}
  BY <1>1, <1>2, OpFacts DEF OpInv, Fetching
<1> DEFINE u == Upserted(op.ver, op.dir, "repo")
<1>4. /\ u \in PluginRows /\ u # Nowhere /\ u.ver = op.ver /\ u.dir = op.dir
      /\ u.installed => inst # Nowhere /\ inst.installed
      /\ u.source = IF inst = Nowhere THEN "repo" ELSE inst.source
  BY <1>2, <1>3, UpsertedFacts
<1>5. inst # Nowhere => inst.dir \in Lasting BY <1>2 DEF MarketTypes
<1>6. CASE /\ inst' = [u EXCEPT !.update = FALSE] /\ UNCHANGED <<dirs, unsure>>
           /\ late' = (late \/ check # Idle) /\ op' = [op EXCEPT !.pc = "installed"]
  <2> HIDE DEF u
  <2>1. /\ inst' \in PluginRows /\ inst' # Nowhere /\ inst'.ver = op.ver /\ inst'.dir = op.dir /\ inst'.source = u.source
        /\ inst'.installed = u.installed /\ inst'.update = FALSE
    BY <1>4, <1>6, ClearedFacts
  <2>2. "installed" \in OpPcs BY DEF OpPcs
  <2>3. op' \in Operations /\ op'.pc = "installed" /\ op'.kind = op.kind /\ op'.ver = op.ver /\ op'.dir = op.dir
    BY <1>3, <1>6, <2>2, MovedOp
  <2>4. OpInv' BY <1>1, <1>3, <2>3 DEF OpInv
  <2>5. PlaceInv' BY <1>1, <1>2, <1>6, <2>3 DEF PlaceInv, ToFill, Filled, Fetching
  <2>6. RowInv' BY <1>1, <1>2, <1>6, <2>1, <2>3 DEF RowInv, Agrees, PlaceInv, Filled
  <2>7. OfferInv'
    <3>1. bought' => inst'.source = "repo" BY <1>1, <1>2, <1>4, <2>1 DEF OfferInv
    <3>2. ~late' => check'.pc = "none" BY <1>1, <1>6, IdleFacts
    <3> QED BY <2>1, <3>1, <3>2 DEF OfferInv
  <2>8. ~wiped /\ inst'.installed => There' /\ op'.kind # "install" BY <1>2, <1>4, <1>6, <2>1, <2>3 DEF WholeInv, There
  <2> QED BY <1>1, <1>2, <1>3, <1>6, <2>1, <2>3, <2>4, <2>5, <2>6, <2>7, <2>8, RowWritesKeep DEF MarketTypes
<1>7. CASE /\ inst' \in {inst, u} /\ op' = Idle /\ unsure' = (unsure \/ op.kind = "recover") /\ late'
           /\ dirs' = IF op.kind = "install" THEN [dirs EXCEPT ![op.dir] = Nowhere] ELSE dirs
  <2> HIDE DEF u
  <2>1. /\ dirs' \in [Places -> Unpacked \cup {Nowhere}] /\ \A d \in Lasting : dirs'[d] \in {dirs[d], Nowhere}
        /\ op.kind = "install" => dirs'[op.dir] = Nowhere /\ \A d \in Lasting \ {op.dir} : dirs'[d] = dirs[d]
    BY <1>2, <1>3, <1>7, PlaceFacts DEF MarketTypes
  <2>2. OpInv' BY <1>7, IdleFacts DEF OpInv
  <2>3. PlaceInv' BY <1>1, <1>2, <1>7, <2>1, IdleFacts DEF PlaceInv, ToFill, Filled
  <2>4. inst' \in PluginRows \cup {Nowhere} /\ (inst' # Nowhere => inst'.dir \in Lasting) BY <1>2, <1>3, <1>4, <1>5, <1>7 DEF MarketTypes
  <2>5. RowInv'
    <3>1. SUFFICES ASSUME ~unsure', inst' # Nowhere PROVE Agrees' BY <1>7, IdleFacts DEF RowInv
    <3>2. op.kind = "install" /\ ~unsure BY <1>3, <1>7, <3>1
    <3>3. CASE inst'.dir = op.dir BY <2>1, <3>2, <3>3 DEF Agrees
    <3>4. CASE inst'.dir # op.dir
      <4>1. inst' = inst /\ inst # Nowhere BY <1>4, <1>7, <3>1, <3>4
      <4>2. Agrees /\ dirs'[inst.dir] = dirs[inst.dir] BY <1>1, <1>2, <1>5, <2>1, <3>2, <3>4, <4>1 DEF RowInv
      <4> QED BY <4>1, <4>2 DEF Agrees
    <3> QED BY <3>3, <3>4
  <2>6. OfferInv' BY <1>1, <1>2, <1>4, <1>7 DEF OfferInv
  <2>7. ~wiped /\ inst' # Nowhere /\ inst'.installed => There'
    <3>1. ~wiped /\ inst' # Nowhere /\ inst'.installed => op.kind # "install" /\ There BY <1>2, <1>4, <1>7 DEF WholeInv
    <3> QED BY <1>7, <3>1 DEF There
  <2> QED BY <1>1, <1>7, <2>1, <2>2, <2>3, <2>4, <2>5, <2>6, <2>7, IdleFacts, RowWritesKeep
<1> QED BY <1>6, <1>7 DEF Record

LEMMA InstalledKeeps ==
  ASSUME MarketInv, MarkInstalled
  PROVE  MarketInv'
<1>1. UNCHANGED <<listed, tar, dirs, recon, del, check, unsure, wiped, late>> /\ op.pc = "installed" /\ op' = Idle
  BY DEF MarkInstalled, OthersStay
<1>2. MarketTypes /\ OpInv /\ PlaceInv /\ RowInv /\ WholeInv /\ OfferInv BY DEF MarketInv
<1>3. op.dir \in Lasting /\ op.kind \in {"install", "recover"} BY <1>1, <1>2, OpFacts DEF OpInv, Fetching
<1>4. OpInv' BY <1>1, IdleFacts DEF OpInv
<1>5. PlaceInv' BY <1>1, <1>2, IdleFacts DEF PlaceInv, ToFill, Filled
<1>6. CASE UNCHANGED <<inst, bought>>
  <2>1. RowInv' BY <1>1, <1>2, <1>6, IdleFacts DEF RowInv, Agrees
  <2>2. OfferInv' BY <1>1, <1>2, <1>6 DEF OfferInv
  <2>3. ~wiped /\ inst' # Nowhere /\ inst'.installed => There' BY <1>1, <1>2, <1>6 DEF WholeInv, There
  <2> QED BY <1>1, <1>2, <1>4, <1>5, <1>6, <2>1, <2>2, <2>3, IdleFacts, RowWritesKeep DEF MarketTypes
<1>7. CASE /\ inst # Nowhere /\ inst' = [inst EXCEPT !.installed = TRUE] /\ bought' = (inst.source = "repo" \/ bought)
           /\ op.kind = "install" => dirs[inst.dir] # Nowhere
  <2>1. /\ inst' \in PluginRows /\ inst' # Nowhere /\ inst'.ver = inst.ver /\ inst'.dir = inst.dir /\ inst.dir \in Lasting
        /\ inst'.source = inst.source /\ inst'.update = inst.update
    BY <1>2, <1>7, RowFacts
  <2>2. RowInv' BY <1>1, <1>2, <1>7, <2>1, IdleFacts DEF RowInv, Agrees
  <2>3. OfferInv' BY <1>1, <1>2, <1>7, <2>1 DEF OfferInv
  <2>4. ~wiped => There' BY <1>1, <1>2, <1>3, <1>7, <2>1 DEF PlaceInv, Filled, There
  <2> QED BY <1>1, <1>2, <1>4, <1>5, <2>1, <2>2, <2>3, <2>4, IdleFacts, RowWritesKeep DEF MarketTypes
<1> QED BY <1>3, <1>6, <1>7 DEF MarkInstalled

LEMMA VersionKeeps ==
  ASSUME MarketInv, RecordVersion
  PROVE  MarketInv'
<1>1. UNCHANGED <<listed, tar, dirs, recon, del, check, wiped, bought>> /\ op.pc = "version" /\ op' = Idle
  BY DEF RecordVersion, OthersStay
<1>2. MarketTypes /\ OpInv /\ PlaceInv /\ RowInv /\ WholeInv /\ OfferInv BY DEF MarketInv
<1>3. op.dir \in Lasting /\ op.ver \in Versions /\ op.kind = "update" BY <1>1, <1>2, OpFacts DEF OpInv, Fetching
<1>4. OpInv' BY <1>1, IdleFacts DEF OpInv
<1>5. PlaceInv' BY <1>1, <1>2, IdleFacts DEF PlaceInv, ToFill, Filled
<1>6. inst # Nowhere => /\ VersionOnly \in PluginRows /\ VersionOnly.ver = op.ver /\ VersionOnly.dir = inst.dir
                        /\ VersionOnly.installed = inst.installed /\ VersionOnly.source = inst.source
                        /\ VersionOnly # Nowhere /\ inst.dir \in Lasting /\ inst.dir = op.dir
  <2> SUFFICES ASSUME inst # Nowhere
               PROVE  /\ VersionOnly \in PluginRows /\ VersionOnly.ver = op.ver /\ VersionOnly.dir = inst.dir
                      /\ VersionOnly.installed = inst.installed /\ VersionOnly.source = inst.source
                      /\ VersionOnly # Nowhere /\ inst.dir \in Lasting /\ inst.dir = op.dir
    OBVIOUS
  <2>1. inst \in PluginRows /\ VersionOnly = [inst EXCEPT !.ver = op.ver] BY <1>2 DEF MarketTypes, VersionOnly
  <2>2. /\ VersionOnly \in PluginRows /\ VersionOnly.ver = op.ver /\ VersionOnly.dir = inst.dir
        /\ VersionOnly.installed = inst.installed /\ VersionOnly.source = inst.source
    BY <1>3, <2>1 DEF PluginRows
  <2> QED BY <1>2, <1>3, <2>2, MarketPluginAssumption DEF MarketTypes, OpInv
<1>7. CASE inst = Nowhere
  <2>1. inst' = Nowhere BY <1>7 DEF RecordVersion, VersionOnly
  <2>2. RowInv' BY <2>1 DEF RowInv
  <2>3. OfferInv' BY <1>1, <1>2, <1>7, <2>1 DEF OfferInv
  <2> QED BY <1>1, <1>2, <1>4, <1>5, <2>1, <2>2, <2>3, IdleFacts, RowWritesKeep DEF MarketTypes
<1>8. CASE inst # Nowhere
  <2>1. /\ inst' \in PluginRows /\ inst' # Nowhere /\ inst'.dir = inst.dir /\ inst'.installed = inst.installed
        /\ inst'.source = inst.source
        /\ ~unsure' => inst'.ver = op.ver
        /\ late' \/ (inst'.update = FALSE /\ check = Idle)
    <3>1. CASE inst' = [VersionOnly EXCEPT !.update = FALSE] /\ late' = (late \/ check # Idle)
      <4>1. VersionOnly \in PluginRows BY <1>6, <1>8
      <4>2. /\ inst' \in PluginRows /\ inst' # Nowhere /\ inst'.ver = VersionOnly.ver /\ inst'.dir = VersionOnly.dir
            /\ inst'.installed = VersionOnly.installed /\ inst'.source = VersionOnly.source /\ inst'.update = FALSE
        BY <3>1, <4>1, ClearedFacts
      <4> QED BY <1>6, <1>8, <3>1, <4>2
    <3>2. CASE unsure' /\ late' /\ inst' \in {inst, VersionOnly}
      BY <1>2, <1>6, <1>8, <3>2 DEF MarketTypes
    <3> QED BY <1>8, <3>1, <3>2 DEF RecordVersion
  <2>2. RowInv' BY <1>1, <1>2, <1>6, <1>8, <2>1, IdleFacts DEF RowInv, Agrees, PlaceInv, Filled
  <2>3. OfferInv' BY <1>1, <1>2, <1>8, <2>1, IdleFacts DEF OfferInv
  <2>4. ~wiped /\ inst'.installed => There' BY <1>1, <1>2, <1>8, <2>1 DEF WholeInv, There
  <2> QED BY <1>1, <1>2, <1>4, <1>5, <1>6, <1>8, <2>1, <2>2, <2>3, <2>4, IdleFacts, RowWritesKeep DEF MarketTypes
<1> QED BY <1>7, <1>8

-----------------------------------------------------------------------------
(* What others do to the files, and a start of the server.                 *)

LEMMA VanishKeeps ==
  ASSUME MarketInv, NEW x \in Lasting, dirs' = [dirs EXCEPT ![x] = Nowhere], wiped',
         UNCHANGED <<listed, tar, inst, op, recon, check, unsure, bought, late>>, del'.pc # "none" => del'.dir \in Lasting
  PROVE  MarketInv'
<1>1. MarketTypes /\ OpInv /\ PlaceInv /\ RowInv /\ WholeInv /\ OfferInv BY DEF MarketInv
<1>2. /\ dirs' \in [Places -> Unpacked \cup {Nowhere}] /\ dirs'[Extracting] = dirs[Extracting]
      /\ \A d \in Lasting : dirs'[d] \in {dirs[d], Nowhere}
  BY <1>1, PlaceFacts DEF MarketTypes
<1>3. MarketTypes' BY <1>1, <1>2 DEF MarketTypes
<1>4. OpInv' BY <1>1, <1>2 DEF OpInv
<1>5. op.dir \in Lasting /\ op.old \in Lasting BY <1>1 DEF MarketTypes, Operations
<1>6. PlaceInv' BY <1>1, <1>2, <1>5 DEF PlaceInv, ToFill, Filled
<1>7. inst # Nowhere => inst.dir \in Lasting BY <1>1 DEF MarketTypes
<1>8. RowInv' BY <1>1, <1>2, <1>5, <1>7 DEF RowInv, Agrees
<1>9. WholeInv' BY <1>1 DEF WholeInv
<1>10. OfferInv' BY <1>1 DEF OfferInv
<1> QED BY <1>3, <1>4, <1>6, <1>8, <1>9, <1>10 DEF MarketInv

LEMMA DeletingKeeps ==
  ASSUME MarketInv, WipeDir \/ DeleteFiles
  PROVE  MarketInv'
<1>1. CASE WipeDir
  <2>1. dirs' = [dirs EXCEPT ![Home] = Nowhere] /\ wiped' /\ UNCHANGED <<listed, tar, inst, op, recon, check, del, unsure, bought, late>>
    BY <1>1 DEF WipeDir
  <2>2. del'.pc # "none" => del'.dir \in Lasting BY <2>1 DEF MarketInv, WholeInv
  <2> QED BY <2>1, <2>2, PlaceFacts, VanishKeeps
<1>2. CASE DeleteFiles
  <2>1. /\ dirs' = [dirs EXCEPT ![del.dir] = Nowhere] /\ UNCHANGED <<listed, tar, inst, op, recon, check, unsure, wiped, bought, late>>
        /\ del' = [del EXCEPT !.pc = "row"] /\ del.pc = "files"
    BY <1>2 DEF DeleteFiles, HistoryStays
  <2>2. wiped /\ del.dir \in Lasting BY <2>1 DEF MarketInv, WholeInv
  <2>3. del'.dir = del.dir BY <2>1
  <2> QED BY <2>1, <2>2, <2>3, VanishKeeps
<1> QED BY <1>1, <1>2

LEMMA RottingKeeps ==
  ASSUME MarketInv, RotArchive
  PROVE  MarketInv'
<1>1. UNCHANGED <<listed, dirs, inst, op, recon, del, check, unsure, wiped, bought, late>> /\ op.pc = "none"
  BY DEF RotArchive, HistoryStays
<1>2. MarketTypes /\ OpInv /\ PlaceInv /\ RowInv /\ WholeInv /\ OfferInv BY DEF MarketInv
<1>3. tar' \in [Versions -> {Nowhere, "good", "bad"}] BY <1>2 DEF RotArchive, MarketTypes
<1>4. MarketTypes' BY <1>1, <1>2, <1>3 DEF MarketTypes
<1>5. OpInv' BY <1>1, <1>2 DEF OpInv
<1>6. PlaceInv' BY <1>1, <1>2 DEF PlaceInv, ToFill, Filled
<1>7. RowInv' BY <1>1, <1>2 DEF RowInv, Agrees
<1>8. WholeInv' /\ OfferInv' BY <1>1, <1>2 DEF WholeInv, OfferInv, There
<1> QED BY <1>4, <1>5, <1>6, <1>7, <1>8 DEF MarketInv

LEMMA StoppingKeeps ==
  ASSUME MarketInv, ServerStops
  PROVE  MarketInv'
<1>1. /\ UNCHANGED <<listed, tar, dirs, inst, unsure, wiped, bought, late>> /\ op' = [Idle EXCEPT !.pc = "down"]
      /\ recon' = Idle /\ del' = Idle /\ check' = Idle
  BY DEF ServerStops, HistoryStays
<1>2. MarketTypes /\ OpInv /\ PlaceInv /\ RowInv /\ WholeInv /\ OfferInv BY DEF MarketInv
<1>3. op' \in Operations /\ op'.pc = "down" /\ op'.kind = "none" BY <1>1, IdleFacts DEF Operations, OpPcs
<1>4. MarketTypes' BY <1>1, <1>2, <1>3, IdleFacts DEF MarketTypes
<1>5. OpInv' BY <1>3 DEF OpInv
<1>6. PlaceInv' BY <1>1, <1>2, <1>3 DEF PlaceInv, ToFill, Filled
<1>7. RowInv' BY <1>3 DEF RowInv
<1>8. WholeInv' BY <1>1, <1>2, <1>3, IdleFacts DEF WholeInv, There
<1>9. OfferInv' BY <1>1, <1>2, IdleFacts DEF OfferInv
<1> QED BY <1>4, <1>5, <1>6, <1>7, <1>8, <1>9 DEF MarketInv

LEMMA DiscoveryKeeps ==
  ASSUME ~Flat, MarketInv, Discover
  PROVE  MarketInv'
<1>1. /\ UNCHANGED <<listed, tar, dirs, del, check, wiped, bought>> /\ op' = Idle /\ recon' = [Idle EXCEPT !.pc = "started"]
      /\ ~unsure' /\ late'
  BY DEF Discover
<1>2. MarketTypes /\ OpInv /\ PlaceInv /\ RowInv /\ WholeInv /\ OfferInv BY DEF MarketInv
<1>3. recon' \in Passes /\ recon'.pc = "started" BY <1>1, IdleFacts DEF Passes
<1>4. Discovered \subseteq Lasting /\ \A d \in Lasting : d \notin Discovered => dirs[d] = Nowhere BY PlaceFacts DEF Discovered
<1>5. OpInv' BY <1>1, IdleFacts DEF OpInv
<1>6. PlaceInv' BY <1>1, <1>2, IdleFacts DEF PlaceInv, ToFill, Filled
<1>7. CASE Discovered = {}
  <2>1. inst' = inst BY <1>7 DEF Discover
  <2>2. RowInv' BY <1>1, <1>2, <1>4, <1>7, <2>1, IdleFacts DEF RowInv, Agrees, MarketTypes
  <2>3. WholeInv' BY <1>1, <1>2, <2>1, IdleFacts DEF WholeInv, There
  <2>4. OfferInv' BY <1>1, <1>2, <2>1 DEF OfferInv
  <2>5. MarketTypes' BY <1>1, <1>2, <1>3, <2>1, IdleFacts DEF MarketTypes
  <2> QED BY <1>5, <1>6, <2>2, <2>3, <2>4, <2>5 DEF MarketInv
<1>8. CASE Discovered # {}
  <2>1. PICK d \in Discovered : inst' = Upserted(dirs[d].ver, d, "local")
    <3>1. MaxBackups \in Nat /\ Discovered \subseteq 0 .. MaxBackups BY <1>4, PlaceFacts, MarketPluginAssumption
    <3>2. \E t \in Discovered : \A x \in Discovered : x <= t BY <1>8, <3>1, LargestExists
    <3>3. LastOf(Discovered) \in Discovered BY <3>2 DEF LastOf
    <3> QED BY <1>8, <3>3 DEF Discover
  <2>2. d \in Lasting /\ d \in Places /\ dirs[d] # Nowhere BY <1>4, <2>1, PlaceFacts DEF Discovered
  <2>3. dirs[d].ver \in Versions BY <1>2, <2>2 DEF MarketTypes, Unpacked
  <2>4. /\ inst' \in PluginRows /\ inst' # Nowhere /\ inst'.ver = dirs[d].ver /\ inst'.dir = d
        /\ inst # Nowhere => inst'.source = inst.source
    BY <1>2, <2>1, <2>2, <2>3, UpsertedFacts
  <2>5. RowInv' BY <1>1, <2>4, IdleFacts DEF RowInv, Agrees
  <2>6. WholeInv' BY <1>1, <1>2, <2>2, IdleFacts DEF WholeInv, There
  <2>7. OfferInv' BY <1>1, <1>2, <2>4 DEF OfferInv
  <2>8. MarketTypes' BY <1>1, <1>2, <1>3, <2>2, <2>4, IdleFacts DEF MarketTypes
  <2> QED BY <1>5, <1>6, <2>5, <2>6, <2>7, <2>8 DEF MarketInv
<1> QED BY <1>7, <1>8

LEMMA MarketInvIsKept == ~Flat /\ MarketInv /\ [MarketNext]_pluginVars => MarketInv'
<1> SUFFICES ASSUME ~Flat, MarketInv, [MarketNext]_pluginVars PROVE MarketInv' OBVIOUS
<1>1. CASE ListNewer \/ DropTheRepo \/ BeginCheck \/ BeginReconcile \/ Reconcile BY <1>1, ReadingKeeps
<1>2. CASE DeleteRow \/ ReconcileDrops \/ BeginDelete BY <1>2, DroppingKeeps
<1>3. CASE SetUninstalled \/ InstallLocal \/ StoreCheck BY <1>3, FlagsKeep
<1>4. CASE BeginMarketInstall \/ BeginMarketUpdate BY <1>4, BeginningKeeps
<1>5. CASE EnsureArchive \/ Extract \/ Extracted BY <1>5, UnpackingKeeps
<1>6. CASE FetchRefused \/ PlaceNew \/ SwapAway \/ SwapBack \/ CleanBackup
  BY <1>6, RefusedKeeps, PlacingKeeps, SwapAwayKeeps, SwapBackKeeps, CleaningKeeps
<1>7. CASE Record \/ MarkInstalled \/ RecordVersion BY <1>7, RecordKeeps, InstalledKeeps, VersionKeeps
<1>8. CASE WipeDir \/ DeleteFiles BY <1>8, DeletingKeeps
<1>9. CASE RecoverPlugin \/ RotArchive \/ ServerStops \/ Discover BY <1>9, RecoveryKeeps, RottingKeeps, StoppingKeeps, DiscoveryKeeps
<1>10. CASE UNCHANGED pluginVars
  <2>1. UNCHANGED <<listed, tar, dirs, inst, op, recon, del, check, unsure, wiped, bought, late>> BY <1>10 DEF pluginVars
  <2>2. MarketTypes /\ OpInv /\ PlaceInv /\ RowInv /\ WholeInv /\ OfferInv BY DEF MarketInv
  <2>3. MarketTypes' BY <2>1, <2>2 DEF MarketTypes
  <2>4. OpInv' BY <2>1, <2>2 DEF OpInv
  <2>5. PlaceInv' BY <2>1, <2>2 DEF PlaceInv, ToFill, Filled
  <2>6. RowInv' BY <2>1, <2>2 DEF RowInv, Agrees
  <2>7. WholeInv' /\ OfferInv' BY <2>1, <2>2 DEF WholeInv, OfferInv, There
  <2> QED BY <2>3, <2>4, <2>5, <2>6, <2>7 DEF MarketInv
<1> QED BY <1>1, <1>2, <1>3, <1>4, <1>5, <1>6, <1>7, <1>8, <1>9, <1>10 DEF MarketNext

\* Wherever a download, a rename or a write fails, a stop falls or a deletion
\* comes in between, an installed plugin's row names the version in its directory,
\* a whole version stays on disk, made of verified bytes only, and the row keeps
\* its repository, with offers of newer versions only (market.go, Install,
\* UpdatePlugin and Reconcile; manager.go, Start).
THEOREM PluginFilesAreTheirs == ~Flat => (MarketSpec => []MarketSound)
<1> SUFFICES ASSUME ~Flat PROVE MarketSpec => []MarketSound OBVIOUS
<1>1. MarketInit => MarketInv BY InitMarket
<1>2. MarketInv /\ [MarketNext]_pluginVars => MarketInv' BY MarketInvIsKept
<1>3. MarketInv => MarketSound BY InvImpliesMarketSound
<1> QED BY <1>1, <1>2, <1>3, PTL DEF MarketSpec

-----------------------------------------------------------------------------
(* The parts in the composition that the runs check: what holds of the one *)
(* that runs holds there.                                                  *)
libraryVars == <<part, userVars, acctVars, setVars, cacheVars, coverVars, trackVars, jobVars, repoVars, pluginVars>>
LibraryInv ==
    /\ part \in Parts
    /\ Of("settings", SettingsInv) /\ Of("catalogs", RepoInv) /\ Of("plugin files", MarketInv)
AccountsPart == Of("accounts", AccountsInv)
RowsPart == Of("covers", RowsInv)
FilesPart == Of("covers", FilesInv)
UserPart == Of("user data", UserInv)
TracksPart == Of("tracks", TracksInv)

LEMMA OnePartRuns ==
  ASSUME [LibraryNext]_libraryVars
  PROVE  /\ part' = part
         /\ part = "settings" => [SettingsNext]_setVars
         /\ part = "catalogs" => [RepoNext]_repoVars
         /\ part = "plugin files" => [MarketNext]_pluginVars
         /\ part = "accounts" => [AccountsNext]_acctVars
         /\ part # "accounts" => UNCHANGED acctVars
         /\ part = "covers" => [CoversNext]_coverVars
         /\ part # "covers" => UNCHANGED coverVars
         /\ part = "user data" => [UserNext]_userVars
         /\ part = "tracks" => [TracksNext]_trackVars
<1>1. CASE LibraryNext
  BY <1>1 DEF LibraryNext, UserDataSteps, AccountsSteps, SettingsSteps, SettingsCacheSteps, CoversSteps, TracksSteps,
              DownloadsSteps, CatalogsSteps, PluginFilesSteps, Alone, Stays
<1>2. CASE UNCHANGED libraryVars BY <1>2 DEF libraryVars
<1> QED BY <1>1, <1>2

LEMMA LibraryInvIsKept ==
  ASSUME InTurn, ~Flat, LibraryInv, [LibraryNext]_libraryVars
  PROVE  LibraryInv'
BY OnePartRuns, NextKeepsSettings, RepoInvIsKept, MarketInvIsKept DEF LibraryInv, Of

LEMMA PartsBegin ==
  LibraryInit => LibraryInv /\ AccountsPart /\ RowsPart /\ FilesPart /\ UserPart /\ TracksPart
BY InitSettings, InitRepo, InitMarket, InitAccounts, RowsInit, FilesInit, InitUser, TracksStart
   DEF LibraryInit, LibraryInv, AccountsPart, RowsPart, FilesPart, UserPart, TracksPart, Of
LEMMA AccountsPartStep == AccountsPart /\ [LibraryNext]_libraryVars => AccountsPart'
BY OnePartRuns, AccountsStep DEF AccountsPart, Of
LEMMA RowsPartStep == RowsPart /\ [LibraryNext]_libraryVars => RowsPart'
BY OnePartRuns, RowsStep DEF RowsPart, Of
LEMMA FilesPartStep == SweepAlone /\ RowsPart /\ FilesPart /\ [LibraryNext]_libraryVars => FilesPart'
BY OnePartRuns, FilesStep DEF RowsPart, FilesPart, Of
LEMMA UserPartStep == UserPart /\ [LibraryNext]_libraryVars => UserPart'
BY OnePartRuns, UserKeeps, UserStutters DEF UserPart, Of
LEMMA TracksPartStep == TracksPart /\ [LibraryNext]_libraryVars => TracksPart'
BY OnePartRuns, TracksStep DEF TracksPart, Of

\* What the administrator saved is what the server goes by, whichever part runs:
\* the settings' effects, the market's catalogs and the plugins' directories are
\* what the rows say.  With one sync at a time, servers that send an ETag and
\* archives with a top-level directory (admin.go, market.go).
THEOREM ChangesApply == InTurn /\ ~Flat => (LibrarySpec => []AdminChangesApply)
<1> SUFFICES ASSUME InTurn, ~Flat PROVE LibrarySpec => []AdminChangesApply OBVIOUS
<1>1. LibraryInit => LibraryInv BY PartsBegin
<1>2. LibraryInv /\ [LibraryNext]_libraryVars => LibraryInv' BY LibraryInvIsKept
<1>3. LibraryInv => AdminChangesApply
  BY InvImpliesSettingsSound, InvImpliesRepoCacheSound, InvImpliesMarketSound DEF LibraryInv, AdminChangesApply, Of
<1> QED BY <1>1, <1>2, <1>3, PTL DEF LibrarySpec, libraryVars

\* Pictures, their rows and their files agree whichever part runs, if no covers
\* are deleted during a sweep or imported for an owner gone before it
\* (cover_manager.go, image_repo.go).
THEOREM CoversAlwaysHold == SweepAlone => (LibrarySpec => []CoversHold)
<1> SUFFICES ASSUME SweepAlone PROVE LibrarySpec => []CoversHold OBVIOUS
<1>1. RowsPart /\ FilesPart => CoversHold BY RowsImply, FilesImply DEF RowsPart, FilesPart, CoversHold, CoversSound, Of
<1> QED BY <1>1, PartsBegin, RowsPartStep, FilesPartStep, PTL DEF LibrarySpec, libraryVars

\* Heat, favorites, playlists, history and the saved queue agree whichever part
\* runs (user_data.go and the Subsonic handlers).
THEOREM UserDataAlwaysHolds == LibrarySpec => []UserDataHolds
<1>1. UserPart => UserDataHolds BY InvMeansSound DEF UserPart, UserDataHolds, Of
<1> QED BY <1>1, PartsBegin, UserPartStep, PTL DEF LibrarySpec, libraryVars

\* A row's identity, its aliases and its place among the versions of its song
\* agree whichever part runs (scanner.go, merge.go, rest/metadata.go).
THEOREM TracksAlwaysHold == LibrarySpec => []TracksHold
<1>1. TracksPart => TracksHold BY InvMeansTracksSound DEF TracksPart, TracksHold, Of
<1> QED BY <1>1, PartsBegin, TracksPartStep, PTL DEF LibrarySpec, libraryVars

\* No request takes a superadmin's role, and no platform's picture the place of
\* one that is there, unless a scan asked for it (admin.go, user.go,
\* cover_manager.go).
THEOREM NothingIsEverTakenAway == LibrarySpec => NothingIsTakenAway
<1>1. AccountsPart /\ [LibraryNext]_libraryVars =>
        [\A u \in Persons : users[u] # Nobody /\ users[u].role = "superadmin" => users'[u].role = "superadmin"]_acctVars
  BY OnePartRuns, SuperAdminsStep DEF AccountsPart, Of
<1>2. RowsPart /\ [LibraryNext]_libraryVars =>
        [\A t \in CoverTracks :
          LET i == db.ptr[t]  j == db'.ptr[t] IN
          (j # i /\ j # NoImage /\ i # NoImage /\ db'.row[j].content \in Network /\ ImageFilesIntact(db, i))
          => \E r \in CoverThreads : creq[r].pc \in {"embedded", "platform"} /\ creq[r].owner = t /\ creq[r].force]_coverVars
  BY OnePartRuns, NetworkStep DEF RowsPart, Of
<1> QED BY <1>1, <1>2, PartsBegin, AccountsPartStep, RowsPartStep, PTL
        DEF LibrarySpec, libraryVars, NothingIsTakenAway, SuperAdminsStay, NetworkFillsGaps
================================================================================
