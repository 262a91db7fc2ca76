------------------------------ MODULE ScannerProofs ------------------------------
(***************************************************************************)
(* Proofs about the scanner service. ScanService: for any number of scans, *)
(* deletes and files. RegistryCache: for any number of callers, settings,  *)
(* saves and rebuilds, builds are shared, and every step is one that       *)
(* FreshRegistry allows.                                                   *)
(***************************************************************************)
EXTENDS RegistryCache, ScanService, TLAPS

-------------------------------------------------------------------------------
(* ScanService.                                                            *)

(* Type correctness, in the parts the state divides into. *)
FlagType   == row \in BOOLEAN /\ files \in BOOLEAN /\ deleting \in BOOLEAN
ActiveType == active \in Runs \cup {None}
RunType    == run \in [Runs -> RunRecord]
DeleteType == del \in [Deletes -> DeleteRecord]

LEMMA TypeParts == TypeOK <=> FlagType /\ ActiveType /\ RunType /\ DeleteType
BY DEF TypeOK, FlagType, ActiveType, RunType, DeleteType

LEMMA OverTyped == Over \in RunRecord
BY ConstantsAssumption DEF Over, RunRecord, RunPcs, Outcomes, JobStates

(* A scan that moves on, with the fields its step touches. *)
LEMMA GotoTyped ==
  ASSUME RunType, NEW r \in Runs, NEW pc \in RunPcs, Goto(r, pc)
  PROVE  RunType'
<1>1. [run[r] EXCEPT !.pc = pc] \in RunRecord BY DEF RunType, RunRecord
<1> QED BY <1>1 DEF RunType, Goto

LEMMA OutcomeTyped ==
  ASSUME RunType, NEW r \in Runs, NEW pc \in RunPcs, NEW status \in Outcomes,
         run' = [run EXCEPT ![r] = [@ EXCEPT !.pc = pc, !.status = status]]
  PROVE  RunType'
<1>1. [run[r] EXCEPT !.pc = pc, !.status = status] \in RunRecord BY DEF RunType, RunRecord
<1> QED BY <1>1 DEF RunType

LEMMA JobTyped ==
  ASSUME RunType, NEW r \in Runs, NEW pc \in RunPcs, NEW job \in JobStates,
         run' = [run EXCEPT ![r] = [@ EXCEPT !.pc = pc, !.job = job]]
  PROVE  RunType'
<1>1. [run[r] EXCEPT !.pc = pc, !.job = job] \in RunRecord BY DEF RunType, RunRecord
<1> QED BY <1>1 DEF RunType

(* Where the steps that touch more than the program counter lead. *)
LEMMA StepPc ==
  ASSUME TypeOK, NEW r \in Runs
  PROVE  /\ CreateJob(r) \/ SaveFile(r) => run'[r].pc = "walk"
         /\ Finalize(r) => run'[r].pc \in {"clear", "stats"}
         /\ FindFails(r) => run'[r].pc = "clear"
         /\ WalkCancelled(r) \/ WalkFails(r) \/ RunTail(r) => run'[r].pc = "finalize"
<1>1. run \in [Runs -> RunRecord] BY DEF TypeOK
<1>2. \A pc, job : run' = [run EXCEPT ![r] = [@ EXCEPT !.pc = pc, !.job = job]]
                     => run'[r].pc = pc
  BY <1>1 DEF RunRecord
<1>3. \A pc, status : run' = [run EXCEPT ![r] = [@ EXCEPT !.pc = pc, !.status = status]]
                     => run'[r].pc = pc
  BY <1>1 DEF RunRecord
<1>4. CreateJob(r) => run'[r].pc = "walk" BY <1>2 DEF CreateJob
<1>5. SaveFile(r) => run'[r].pc = "walk" BY <1>1 DEF SaveFile, RunRecord
<1>6. Finalize(r) => run'[r].pc \in {"clear", "stats"} BY <1>2 DEF Finalize
<1>7. FindFails(r) => run'[r].pc = "clear" BY <1>3 DEF FindFails
<1>8. WalkCancelled(r) \/ WalkFails(r) \/ RunTail(r) => run'[r].pc = "finalize"
  BY <1>3 DEF WalkCancelled, WalkFails, RunTail
<1>9. QED BY <1>4, <1>5, <1>6, <1>7, <1>8

LEMMA DeleteGotoTyped ==
  ASSUME DeleteType, NEW d \in Deletes, NEW pc \in DeletePcs, DeleteGoto(d, pc)
  PROVE  DeleteType'
<1>1. [del[d] EXCEPT !.pc = pc] \in DeleteRecord BY DEF DeleteType, DeleteRecord
<1> QED BY <1>1 DEF DeleteType, DeleteGoto

(* The walk saves a file only while files are left. *)
LeftInv == \A r \in Runs : run[r].pc = "save" => run[r].left > 0

LEMMA RunStepTyped ==
  ASSUME TypeOK, LeftInv, NEW r \in Runs, RunStep(r)
  PROVE  TypeOK'
<1> USE TypeParts DEF RunPcs, Outcomes, JobStates
<1>1. DeleteType' /\ FlagType'
  BY DEF RunStep, Find, FindFails, CreateJob, NextFile, SaveFile, WalkEnds, WalkCancelled,
     WalkFails, RunTail, Finalize, UpdateStats, ClearActive, CloseDone, DeleteType, FlagType
<1>2. ActiveType'
  BY DEF RunStep, Find, FindFails, CreateJob, NextFile, SaveFile, WalkEnds, WalkCancelled,
     WalkFails, RunTail, Finalize, UpdateStats, ClearActive, CloseDone, ActiveType
<1>3. run[r] \in RunRecord
  BY DEF RunType
<1>4. RunType'
  <2>1. CASE Find(r) \/ NextFile(r) \/ WalkEnds(r) \/ UpdateStats(r) \/ ClearActive(r) \/ CloseDone(r)
    BY <2>1, GotoTyped DEF Find, NextFile, WalkEnds, UpdateStats, ClearActive, CloseDone
  <2>2. CASE FindFails(r) \/ WalkCancelled(r) \/ WalkFails(r) \/ RunTail(r)
    BY <2>2, OutcomeTyped DEF FindFails, WalkCancelled, WalkFails, RunTail
  <2>3. CASE CreateJob(r)
    BY <2>3, JobTyped DEF CreateJob
  <2>4. CASE Finalize(r)
    BY <2>4, <1>3, JobTyped DEF Finalize, RunRecord
  <2>5. CASE SaveFile(r)
    <3>1. run[r].left \in 0..MaxFiles /\ run[r].left > 0
      BY <2>5, <1>3 DEF SaveFile, LeftInv, RunRecord
    <3>2. run[r].left - 1 \in 0..MaxFiles
      BY <3>1, ConstantsAssumption
    <3>3. [run[r] EXCEPT !.pc = "walk", !.left = run[r].left - 1] \in RunRecord
      BY <3>2, <1>3 DEF RunRecord
    <3>4. run' = [run EXCEPT ![r] = [run[r] EXCEPT !.pc = "walk", !.left = run[r].left - 1]]
      BY <2>5 DEF SaveFile, RunType
    <3>5. QED
      BY <3>3, <3>4 DEF RunType
  <2>6. QED
    BY <2>1, <2>2, <2>3, <2>4, <2>5 DEF RunStep
<1>5. QED
  BY <1>1, <1>2, <1>4 DEF TypeOK, FlagType, ActiveType, RunType, DeleteType

LEMMA DeleteStepTyped ==
  ASSUME TypeOK, NEW d \in Deletes, Request(d) \/ DeleteStep(d)
  PROVE  TypeOK'
<1> USE TypeParts DEF DeletePcs
<1>1. FlagType' /\ ActiveType'
  BY DEF Request, DeleteStep, BeginLibraryDelete, CancelScan, NothingToCancel, Stopped,
     GiveUp, DeleteRow, DeleteRowFails, RemoveFiles, EndLibraryDelete, FlagType, ActiveType
<1>2. RunType'
  <2>1. CASE CancelScan(d)
    <3>1. active \in Runs /\ run[active] \in RunRecord
      BY <2>1 DEF CancelScan, ActiveType, RunType
    <3>2. [run[active] EXCEPT !.cancelled = TRUE] \in RunRecord
      BY <3>1 DEF RunRecord
    <3>3. QED
      BY <2>1, <3>1, <3>2 DEF CancelScan, RunType
  <2>2. CASE DeleteRow(d)
    <3>1. \A r \in Runs : [run[r] EXCEPT !.job = "none"] \in RunRecord
      BY DEF RunType, RunRecord, JobStates
    <3>2. QED
      BY <2>2, <3>1 DEF DeleteRow, RunType
  <2>3. CASE UNCHANGED run
    BY <2>3 DEF RunType
  <2>4. QED
    BY <2>1, <2>2, <2>3 DEF Request, DeleteStep, BeginLibraryDelete, NothingToCancel,
       Stopped, GiveUp, DeleteRowFails, RemoveFiles, EndLibraryDelete
<1>3. DeleteType'
  <2>1. CASE CancelScan(d)
    BY <2>1 DEF CancelScan, DeleteType, DeleteRecord, ActiveType
  <2>2. CASE Stopped(d) \/ GiveUp(d)
    BY <2>2 DEF Stopped, GiveUp, DeleteType, DeleteRecord
  <2>3. CASE \E pc \in DeletePcs : DeleteGoto(d, pc)
    BY <2>3, DeleteGotoTyped
  <2>4. QED
    BY <2>1, <2>2, <2>3 DEF Request, DeleteStep, BeginLibraryDelete, NothingToCancel,
       DeleteRow, DeleteRowFails, RemoveFiles, EndLibraryDelete
<1>4. QED
  BY <1>1, <1>2, <1>3 DEF TypeOK, FlagType, ActiveType, RunType, DeleteType

(* The state is well typed; the walk never counts past its files.           *)
THEOREM TypeCorrect == Spec => []TypeOK
<1>1. Init => TypeOK
  <2> SUFFICES ASSUME Init PROVE TypeOK OBVIOUS
  <2>1. FlagType /\ ActiveType BY DEF Init, FlagType, ActiveType
  <2>2. RunType BY OverTyped DEF Init, RunType
  <2>3. DeleteType BY DEF Init, DeleteType, DeleteRecord, DeletePcs
  <2>4. QED BY <2>1, <2>2, <2>3, TypeParts
<1>2. Init => LeftInv
  BY DEF Init, Over, LeftInv
<1>3. TypeOK /\ LeftInv /\ [Next]_vars => TypeOK' /\ LeftInv'
  <2> SUFFICES ASSUME TypeOK, LeftInv, [Next]_vars PROVE TypeOK' /\ LeftInv'
    OBVIOUS
  <2>0. run \in [Runs -> RunRecord]
    BY DEF TypeOK
  <2>1. ASSUME NEW r \in Runs, StartScan(r) PROVE TypeOK' /\ LeftInv'
    <3>1. \A n \in 0..MaxFiles : [Over EXCEPT !.pc = "find", !.left = n] \in RunRecord
      BY ConstantsAssumption DEF Over, RunRecord, RunPcs, Outcomes, JobStates
    <3>2. RunType'
      BY <2>0, <2>1, <3>1 DEF StartScan, RunType
    <3>3. LeftInv'
      BY <2>0, <2>1 DEF StartScan, LeftInv, Over
    <3>4. QED
      BY <2>1, <3>2, <3>3 DEF StartScan, TypeOK, RunType
  <2>2. ASSUME NEW r \in Runs, RunStep(r) PROVE TypeOK' /\ LeftInv'
    <3>1. ASSUME NEW q \in Runs, q # r PROVE run'[q] = run[q]
      BY <2>0, <2>2, <3>1 DEF RunStep, Find, FindFails, CreateJob, NextFile, SaveFile,
         WalkEnds, WalkCancelled, WalkFails, RunTail, Finalize, UpdateStats, ClearActive,
         CloseDone, Goto
    <3>2. run'[r].pc = "save" => run'[r].left > 0
      <4>1. CASE NextFile(r)
        BY <2>0, <4>1 DEF NextFile, Goto, RunRecord
      <4>2. CASE CreateJob(r) \/ SaveFile(r) \/ Finalize(r)
        BY <4>2, StepPc
      <4>3. CASE FindFails(r) \/ WalkCancelled(r) \/ WalkFails(r) \/ RunTail(r)
        BY <4>3, StepPc
      <4>4. CASE Find(r) \/ WalkEnds(r) \/ UpdateStats(r) \/ ClearActive(r) \/ CloseDone(r)
        BY <2>0, <4>4 DEF Find, WalkEnds, UpdateStats, ClearActive, CloseDone, Goto, RunRecord
      <4>5. QED
        BY <2>2, <4>1, <4>2, <4>3, <4>4 DEF RunStep
    <3>3. QED
      BY <2>2, <3>1, <3>2, RunStepTyped DEF LeftInv
  <2>3. ASSUME NEW d \in Deletes, Request(d) \/ DeleteStep(d) PROVE TypeOK' /\ LeftInv'
    <3>1. \A r \in Runs : run'[r].pc = run[r].pc /\ run'[r].left = run[r].left
      BY <2>0, <2>3 DEF Request, DeleteStep, BeginLibraryDelete, CancelScan,
         NothingToCancel, Stopped, GiveUp, DeleteRow, DeleteRowFails, RemoveFiles,
         EndLibraryDelete, RunRecord
    <3>2. QED
      BY <2>3, <3>1, DeleteStepTyped DEF LeftInv
  <2>4. CASE UNCHANGED vars
    BY <2>4 DEF vars, TypeOK, LeftInv
  <2>5. QED
    BY <2>1, <2>2, <2>3, <2>4 DEF Next
<1>4. QED
  BY <1>1, <1>2, <1>3, PTL DEF Spec

-------------------------------------------------------------------------------
(* A deletion that no other one overlaps is final. *)

(* What a step of a scan can do to the rest of the system. *)
LEMMA RunStepEffect ==
  ASSUME TypeOK, NEW r \in Runs, RunStep(r)
  PROVE  /\ UNCHANGED <<row, deleting, del>>
         /\ \A q \in Runs : q # r => run'[q] = run[q]
         /\ \/ /\ active' = active
               /\ run[r].pc \notin {"over", "close"} /\ run'[r].pc \notin {"over", "close"}
            \/ /\ active' = IF active = r THEN None ELSE active
               /\ run[r].pc = "clear" /\ run'[r].pc = "close"
            \/ /\ active' = active
               /\ run[r].pc = "close" /\ run'[r].pc = "over"
         /\ run'[r].pc \in Writing => run[r].pc \in Writing \/ row
         /\ files' # files => run[r].pc = "save"
<1>1. run \in [Runs -> RunRecord] BY DEF TypeOK
<1>2. \A pc : Goto(r, pc) => run'[r].pc = pc BY <1>1 DEF Goto, RunRecord
<1>3. CASE Find(r) \/ NextFile(r) \/ WalkEnds(r) \/ UpdateStats(r)
  BY <1>1, <1>2, <1>3 DEF Find, NextFile, WalkEnds, UpdateStats, Goto, Writing
<1>4. CASE CreateJob(r) \/ Finalize(r)
  BY <1>1, <1>4, StepPc DEF CreateJob, Finalize, Writing
<1>5. CASE SaveFile(r)
  BY <1>1, <1>5, StepPc DEF SaveFile, Writing
<1>6. CASE FindFails(r) \/ WalkCancelled(r) \/ WalkFails(r) \/ RunTail(r)
  BY <1>1, <1>6, StepPc DEF FindFails, WalkCancelled, WalkFails, RunTail, Writing
<1>7. CASE ClearActive(r) \/ CloseDone(r)
  BY <1>1, <1>2, <1>7 DEF ClearActive, CloseDone, Goto, Writing
<1>8. QED
  BY <1>3, <1>4, <1>5, <1>6, <1>7 DEF RunStep

(* A step of a delete moves no scan and no other delete. *)
LEMMA DeleteStepEffect ==
  ASSUME TypeOK, NEW d \in Deletes, Request(d) \/ DeleteStep(d)
  PROVE  /\ UNCHANGED active
         /\ \A r \in Runs : run'[r].pc = run[r].pc
         /\ \A e \in Deletes : e # d => del'[e] = del[e]
<1>1. run \in [Runs -> RunRecord] /\ del \in [Deletes -> DeleteRecord] BY DEF TypeOK
<1>2. \A r \in Runs : run'[r].pc = run[r].pc
  BY <1>1 DEF Request, DeleteStep, BeginLibraryDelete, CancelScan, NothingToCancel,
     Stopped, GiveUp, DeleteRow, DeleteRowFails, RemoveFiles, EndLibraryDelete, RunRecord
<1>3. UNCHANGED active /\ \A e \in Deletes : e # d => del'[e] = del[e]
  BY <1>1 DEF Request, DeleteStep, BeginLibraryDelete, CancelScan, NothingToCancel,
     Stopped, GiveUp, DeleteRow, DeleteRowFails, RemoveFiles, EndLibraryDelete, DeleteGoto
<1>4. QED BY <1>2, <1>3

(* Where the steps of a delete leave that delete. *)
LEMMA DeletePc ==
  ASSUME TypeOK, NEW d \in Deletes
  PROVE  /\ Request(d) => del'[d].pc = "begin"
         /\ BeginLibraryDelete(d) => del'[d].pc = "cancel"
         /\ NothingToCancel(d) => del'[d].pc = "row"
         /\ DeleteRow(d) => del'[d].pc = "files"
         /\ DeleteRowFails(d) \/ RemoveFiles(d) => del'[d].pc = "end"
         /\ EndLibraryDelete(d) => del'[d].pc = "idle"
<1>1. del \in [Deletes -> DeleteRecord] BY DEF TypeOK
<1>2. \A pc : DeleteGoto(d, pc) => del'[d].pc = pc BY <1>1 DEF DeleteRecord, DeleteGoto
<1>3. QED
  BY <1>2 DEF Request, BeginLibraryDelete, NothingToCancel, DeleteRow, DeleteRowFails,
     RemoveFiles, EndLibraryDelete

FinalInv == TypeOK /\ TrackInv /\ DeleteInv

LEMMA InitFinal == Init => TrackInv /\ DeleteInv
BY ConstantsAssumption DEF Init, Over, TrackInv, DeleteInv, SoleDelete, MarkInv, WaitInv,
   GoneInv, GoneForGood

LEMMA StartFinal ==
  ASSUME FinalInv, NEW r \in Runs, StartScan(r)
  PROVE  TrackInv' /\ DeleteInv'
<1> USE DEF FinalInv, DeleteInv
<1>1. run \in [Runs -> RunRecord] BY DEF TypeOK
<1>2. run'[r].pc = "find" /\ \A q \in Runs : q # r => run'[q] = run[q]
  BY <1>1 DEF StartScan, Over
<1>3. TrackInv' BY <1>2, ConstantsAssumption DEF StartScan, TrackInv
<1>4. SoleDelete' /\ MarkInv' BY DEF StartScan, SoleDelete, MarkInv
<1>5. WaitInv' BY DEF StartScan, MarkInv, WaitInv
<1>6. GoneInv' /\ GoneForGood' BY <1>2 DEF StartScan, GoneInv, GoneForGood, Writing
<1>7. QED BY <1>3, <1>4, <1>5, <1>6

LEMMA RunFinal ==
  ASSUME FinalInv, NEW r \in Runs, RunStep(r)
  PROVE  TrackInv' /\ DeleteInv'
<1> USE DEF FinalInv, DeleteInv
<1>1. TrackInv'
  BY RunStepEffect, ConstantsAssumption DEF TrackInv
<1>2. SoleDelete' /\ MarkInv'
  BY RunStepEffect DEF SoleDelete, MarkInv
<1>3. active' \in {active, None}
  BY RunStepEffect
<1>4. WaitInv'
  BY <1>3, RunStepEffect DEF WaitInv
<1>5. GoneInv'
  BY RunStepEffect DEF GoneInv
<1>6. GoneForGood'
  BY RunStepEffect DEF GoneInv, GoneForGood, Writing
<1>7. QED BY <1>1, <1>2, <1>4, <1>5, <1>6

LEMMA DeleteFinal ==
  ASSUME FinalInv, "overlap" \notin Faults, NEW d \in Deletes, Request(d) \/ DeleteStep(d)
  PROVE  TrackInv' /\ DeleteInv'
<1> USE DEF FinalInv, DeleteInv
<1>0. \A e \in Deletes : e # d => del'[e] = del[e]
  BY DeleteStepEffect
<1>1. TrackInv'
  BY DeleteStepEffect DEF TrackInv
<1>2. SoleDelete'
  <2>1. CASE Request(d)
    BY <2>1, <1>0 DEF Request, SoleDelete
  <2>2. CASE DeleteStep(d)
    <3>1. del[d].pc # "idle"
      BY <2>2 DEF DeleteStep, BeginLibraryDelete, CancelScan, NothingToCancel, Stopped,
         GiveUp, DeleteRow, DeleteRowFails, RemoveFiles, EndLibraryDelete
    <3>2. QED BY <1>0, <3>1 DEF SoleDelete
  <2>3. QED BY <2>1, <2>2
<1>3. \A e \in Deletes : DeleteStep(d) /\ e # d => del[e].pc = "idle"
  BY DEF SoleDelete, DeleteStep, BeginLibraryDelete, CancelScan, NothingToCancel, Stopped,
     GiveUp, DeleteRow, DeleteRowFails, RemoveFiles, EndLibraryDelete
<1>4. MarkInv'
  <2>1. CASE Request(d)
    BY <2>1, <1>0, DeletePc DEF Request, MarkInv
  <2>2. CASE BeginLibraryDelete(d)
    BY <2>2 DEF BeginLibraryDelete, MarkInv
  <2>5. CASE EndLibraryDelete(d)
    BY <2>5, <1>0, <1>3, DeletePc DEF DeleteStep, MarkInv
  <2>3. CASE CancelScan(d) \/ NothingToCancel(d) \/ Stopped(d) \/ GiveUp(d) \/ DeleteRow(d)
             \/ DeleteRowFails(d) \/ RemoveFiles(d)
    BY <2>3, <1>0 DEF CancelScan, NothingToCancel, Stopped, GiveUp, DeleteRow, DeleteRowFails,
       RemoveFiles, MarkInv
  <2>4. QED BY <2>1, <2>2, <2>3, <2>5 DEF DeleteStep
<1>5. WaitInv'
  <2>1. CASE Request(d) \/ BeginLibraryDelete(d) \/ EndLibraryDelete(d) \/ DeleteRow(d)
             \/ DeleteRowFails(d) \/ RemoveFiles(d) \/ NothingToCancel(d)
    BY <2>1, <1>0, DeletePc DEF Request, BeginLibraryDelete, EndLibraryDelete, DeleteRow,
       DeleteRowFails, RemoveFiles, NothingToCancel, WaitInv
  <2>2. CASE CancelScan(d)
    <3>1. del'[d] = [pc |-> "wait", run |-> active] /\ active \in Runs /\ active' = active
      BY <2>2 DEF CancelScan, TypeOK
    <3>2. QED BY <1>0, <3>1 DEF WaitInv
  <2>3. CASE Stopped(d)
    <3>1. del'[d] = [pc |-> "row", run |-> None] /\ active' = active
      BY <2>3 DEF Stopped, TypeOK
    <3>2. active = None
      BY <2>3 DEF Stopped, WaitInv, TrackInv
    <3>3. QED BY <1>0, <3>1, <3>2 DEF WaitInv
  <2>4. CASE GiveUp(d)
    <3>1. del'[d] = [pc |-> "end", run |-> None] /\ active' = active
      BY <2>4 DEF GiveUp, TypeOK
    <3>2. QED BY <1>0, <3>1 DEF WaitInv
  <2>5. QED BY <2>1, <2>2, <2>3, <2>4 DEF DeleteStep
<1>6. GoneInv'
  <2>1. CASE DeleteRow(d)
    <3>1. \A r \in Runs : run[r].pc \in {"over", "close"}
      BY <2>1, ConstantsAssumption DEF DeleteRow, WaitInv, TrackInv
    <3>2. QED BY <3>1, DeleteStepEffect DEF GoneInv, Writing
  <2>2. CASE row' = row
    BY <2>2, DeleteStepEffect DEF GoneInv
  <2>3. QED
    BY <2>1, <2>2 DEF Request, DeleteStep, BeginLibraryDelete, CancelScan, NothingToCancel,
       Stopped, GiveUp, DeleteRowFails, RemoveFiles, EndLibraryDelete
<1>7. GoneForGood'
  <2>1. CASE DeleteRow(d)
    BY <2>1, DeletePc DEF DeleteRow, GoneForGood
  <2>2. CASE RemoveFiles(d)
    BY <2>2 DEF RemoveFiles, GoneForGood
  <2>3. CASE row' = row /\ files' = files /\ del[d].pc # "files"
    BY <2>3, <1>0 DEF GoneForGood
  <2>4. QED
    BY <2>1, <2>2, <2>3 DEF Request, DeleteStep, BeginLibraryDelete, CancelScan,
       NothingToCancel, Stopped, GiveUp, DeleteRowFails, EndLibraryDelete
<1>8. QED BY <1>1, <1>2, <1>4, <1>5, <1>6, <1>7

LEMMA FinalInductive ==
  ASSUME "overlap" \notin Faults PROVE Spec => [](TrackInv /\ DeleteInv)
<1>1. Init => TrackInv /\ DeleteInv
  BY InitFinal
<1>2. TypeOK /\ TrackInv /\ DeleteInv /\ [Next]_vars => TrackInv' /\ DeleteInv'
  <2> SUFFICES ASSUME FinalInv, [Next]_vars PROVE TrackInv' /\ DeleteInv'
    BY DEF FinalInv
  <2>1. CASE UNCHANGED vars
    BY <2>1 DEF vars, FinalInv, TrackInv, DeleteInv, SoleDelete, MarkInv, WaitInv, GoneInv,
       GoneForGood
  <2>2. QED
    BY <2>1, StartFinal, RunFinal, DeleteFinal DEF Next
<1>3. QED
  BY <1>1, <1>2, TypeCorrect, PTL DEF Spec

(* Unless two deletions of the library overlap, no scan of the library is at *)
(* work while the row and the files of a delete that was let through go.     *)
THEOREM TeardownIsAlone ==
  ASSUME "overlap" \notin Faults
  PROVE  Spec => []TeardownAlone
<1>1. TrackInv /\ DeleteInv => TeardownAlone
  BY ConstantsAssumption DEF TrackInv, DeleteInv, WaitInv, TeardownAlone
<1>2. QED
  BY <1>1, FinalInductive, PTL

(* Unless two deletions of the library overlap, nothing that a delete removed *)
(* from the disk comes back (LibraryHandler.Delete, runScan).                *)
THEOREM DeletionIsFinal ==
  ASSUME "overlap" \notin Faults
  PROVE  Spec => []GoneForGood
<1>1. DeleteInv => GoneForGood
  BY DEF DeleteInv
<1>2. QED
  BY <1>1, FinalInductive, PTL

(* Whatever deletions do, every scan that can still write is the registered  *)
(* one, so a library has one at a time and a delete cannot miss it.          *)
THEOREM ScansAreTracked == Spec => []WritersAreTracked
<1>1. Init => TrackInv
  BY InitFinal
<1>2. TypeOK /\ TrackInv /\ [Next]_vars => TrackInv'
  <2> SUFFICES ASSUME TypeOK, TrackInv, [Next]_vars PROVE TrackInv'
    OBVIOUS
  <2>1. ASSUME NEW r \in Runs, StartScan(r) PROVE TrackInv'
    <3>1. run'[r].pc = "find" /\ \A q \in Runs : q # r => run'[q] = run[q]
      BY <2>1 DEF StartScan, Over, TypeOK
    <3>2. QED BY <2>1, <3>1, ConstantsAssumption DEF StartScan, TrackInv
  <2>2. ASSUME NEW r \in Runs, RunStep(r) PROVE TrackInv'
    BY <2>2, RunStepEffect, ConstantsAssumption DEF TrackInv
  <2>3. ASSUME NEW d \in Deletes, Request(d) \/ DeleteStep(d) PROVE TrackInv'
    BY <2>3, DeleteStepEffect DEF TrackInv
  <2>4. CASE UNCHANGED vars
    BY <2>4 DEF vars, TrackInv
  <2>5. QED
    BY <2>1, <2>2, <2>3, <2>4 DEF Next
<1>3. TrackInv => WritersAreTracked
  BY DEF TrackInv, WritersAreTracked, Writing
<1>4. QED
  BY <1>1, <1>2, <1>3, TypeCorrect, PTL DEF Spec

-------------------------------------------------------------------------------
(* The job row of a scan. *)

(* A job says "running" from its insert to finalize, which knows the outcome. *)
Settled(v) ==
    /\ v.job = "running" => v.pc \in {"walk", "save", "tail", "finalize"}
    /\ v.pc = "finalize" => v.status # "running"

JobInv == \A r \in Runs : Settled(run[r])

LEMMA RunStepSettles ==
  ASSUME TypeOK, JobInv, NEW r \in Runs, RunStep(r)
  PROVE  Settled(run'[r])
<1>1. run \in [Runs -> RunRecord] /\ run[r] \in RunRecord /\ Settled(run[r]) BY DEF TypeOK, JobInv
<1>2. \A v : run' = [run EXCEPT ![r] = v] => run'[r] = v BY <1>1
<1>3. CASE Find(r) \/ NextFile(r) \/ WalkEnds(r) \/ UpdateStats(r) \/ ClearActive(r) \/ CloseDone(r)
  BY <1>1, <1>3 DEF Find, NextFile, WalkEnds, UpdateStats, ClearActive, CloseDone, Goto, RunRecord, Settled
<1>4. CASE FindFails(r) \/ WalkCancelled(r) \/ WalkFails(r) \/ RunTail(r)
  <2>1. \A pc, status : run' = [run EXCEPT ![r] = [@ EXCEPT !.pc = pc, !.status = status]]
                         => run'[r].pc = pc /\ run'[r].status = status /\ run'[r].job = run[r].job
    BY <1>1 DEF RunRecord
  <2>2. FindFails(r) => run'[r].pc = "clear" /\ run'[r].job = run[r].job /\ run[r].pc = "find"
    BY <2>1 DEF FindFails
  <2>3. /\ WalkCancelled(r) => run'[r].pc = "finalize" /\ run'[r].status = "cancelled"
        /\ WalkFails(r) => run'[r].pc = "finalize" /\ run'[r].status = "failed"
        /\ RunTail(r) => run'[r].pc = "finalize" /\ run'[r].status = "completed"
    <3>1. WalkCancelled(r) => run'[r].pc = "finalize" /\ run'[r].status = "cancelled"
      BY <2>1 DEF WalkCancelled
    <3>2. WalkFails(r) => run'[r].pc = "finalize" /\ run'[r].status = "failed"
      BY <2>1 DEF WalkFails
    <3>3. RunTail(r) => run'[r].pc = "finalize" /\ run'[r].status = "completed"
      BY <2>1 DEF RunTail
    <3>4. QED BY <3>1, <3>2, <3>3
  <2>4. QED BY <1>1, <1>4, <2>2, <2>3 DEF Settled
<1>5. CASE CreateJob(r)
  <2> DEFINE v == [run[r] EXCEPT !.pc = "walk", !.job = IF row /\ ~run[r].cancelled THEN "running" ELSE "none"]
  <2>1. run'[r] = v BY <1>1, <1>5 DEF CreateJob
  <2>2. Settled(v) BY <1>1 DEF RunRecord, Settled
  <2>3. QED BY <2>1, <2>2
<1>6. CASE SaveFile(r)
  <2> DEFINE v == [run[r] EXCEPT !.pc = "walk", !.left = run[r].left - 1]
  <2>1. run'[r] = v BY <1>1, <1>6 DEF SaveFile
  <2>2. Settled(v) BY <1>1, <1>6 DEF RunRecord, SaveFile, Settled
  <2>3. QED BY <2>1, <2>2
<1>7. CASE Finalize(r)
  <2> DEFINE v == [run[r] EXCEPT !.pc = IF run[r].status = "cancelled" THEN "clear" ELSE "stats",
                                 !.job = IF run[r].job = "running" THEN run[r].status ELSE "none"]
  <2>1. run'[r] = v BY <1>1, <1>7 DEF Finalize
  <2>2. Settled(v) BY <1>1, <1>7 DEF RunRecord, Finalize, Settled
  <2>3. QED BY <2>1, <2>2
<1>8. QED BY <1>3, <1>4, <1>5, <1>6, <1>7 DEF RunStep

(* No scan leaves a job behind that says "running", however it ends and       *)
(* whatever is deleted meanwhile (runScan, finalize on a fresh context).     *)
THEOREM JobsSettle == Spec => []JobsAreSettled
<1>1. Init => JobInv
  BY DEF Init, Over, JobInv, Settled
<1>2. TypeOK /\ JobInv /\ [Next]_vars => JobInv'
  <2> SUFFICES ASSUME TypeOK, JobInv, [Next]_vars PROVE JobInv'
    OBVIOUS
  <2>0. run \in [Runs -> RunRecord] /\ \A r \in Runs : Settled(run[r]) BY DEF TypeOK, JobInv
  <2>1. ASSUME NEW r \in Runs, StartScan(r) PROVE JobInv'
    <3>1. \A n : Settled([Over EXCEPT !.pc = "find", !.left = n]) BY DEF Over, Settled
    <3>2. QED BY <2>0, <2>1, <3>1 DEF StartScan, JobInv
  <2>2. ASSUME NEW r \in Runs, RunStep(r) PROVE JobInv'
    BY <2>0, <2>2, RunStepSettles, RunStepEffect DEF JobInv
  <2>3. ASSUME NEW d \in Deletes, Request(d) \/ DeleteStep(d) PROVE JobInv'
    <3>1. \A r \in Runs : run'[r].pc = run[r].pc /\ run'[r].status = run[r].status /\ run'[r].job \in {run[r].job, "none"}
      BY <2>0, <2>3 DEF Request, DeleteStep, BeginLibraryDelete, CancelScan, NothingToCancel,
         Stopped, GiveUp, DeleteRow, DeleteRowFails, RemoveFiles, EndLibraryDelete, RunRecord
    <3>2. QED BY <2>0, <3>1 DEF JobInv, Settled
  <2>4. CASE UNCHANGED vars
    BY <2>4 DEF vars, JobInv
  <2>5. QED
    BY <2>1, <2>2, <2>3, <2>4 DEF Next
<1>3. JobInv => JobsAreSettled
  BY DEF JobInv, JobsAreSettled, Settled, Writing
<1>4. QED
  BY <1>1, <1>2, <1>3, TypeCorrect, PTL DEF Spec

-------------------------------------------------------------------------------
(* RegistryCache.                                                          *)

(* The inductive invariant. *)

Partial == [Switches -> Nat \cup {NoChain}]

CallerRecord == [pc : {"idle", "enter", "wait", "read", "publish", "woken"}, gen : Nat,
                 chain : Partial \cup {NoChain}, ok : BOOLEAN, scan : BOOLEAN]

SharedType ==
    /\ current \in Nat /\ registryGen \in Nat /\ registryGen <= MaxRebuilds
    /\ rebuilt \in Nat /\ rebuilt <= current /\ faulted \in BOOLEAN
    /\ registryFlight \in Callers \cup {NoFlight}

ChainType ==
    /\ registryVal \in Chains \cup {NoChain} /\ lastGood \in Chains \cup {NoChain}
    /\ engine \in Chains /\ supplied \in [Callers -> Chains]

FloorType == floor \in [Callers -> Nat] /\ \A c \in Callers : floor[c] <= rebuilt

CallerType == caller \in [Callers -> CallerRecord]

(* What a caller holds at each point of buildRegistry. *)
Holds(c) ==
    /\ caller[c].gen <= registryGen
    /\ caller[c].pc \in {"idle", "enter", "wait"} => caller[c].chain = NoChain
    /\ caller[c].pc = "read" => caller[c].chain \in [Switches -> (0..current) \cup {NoChain}]
    /\ caller[c].pc = "publish" => caller[c].chain \in Chains
    /\ caller[c].pc = "woken" => caller[c].chain \in Chains \cup {NoChain}
    /\ caller[c].pc \notin {"read", "publish"} => caller[c].ok = TRUE

FailuresKnown == \A c \in Builders : caller[c].ok \/ faulted

(* The slot holds the build of the current generation, if there is one. *)
SlotIsCurrent ==
    /\ \A c \in Builders : caller[c].gen = registryGen => registryFlight = c
    /\ registryFlight # NoFlight => /\ registryFlight \in Builders
                                    /\ caller[registryFlight].gen = registryGen

(* What the caller has read so far is no older than version n. *)
Supports(c, n) ==
    faulted \/ \A s \in Switches : \/ caller[c].pc = "read" /\ caller[c].chain[s] = NoChain
                                   \/ caller[c].chain[s] >= n

NoOlder(chain, n) == faulted \/ \A s \in Switches : chain[s] >= n

(* A build is new enough for its caller, for those that wait for it, and, while *)
(* its generation lasts, for those that may still join or hit it.               *)
BuildsServe ==
    \A c \in Builders :
        /\ Supports(c, floor[c])
        /\ \A d \in Callers : caller[d].pc = "wait" /\ caller[d].gen = caller[c].gen => Supports(c, floor[d])
        /\ caller[c].gen = registryGen => Supports(c, rebuilt)

ValuesServe ==
    /\ registryVal # NoChain => NoOlder(registryVal, rebuilt)
    /\ \A c \in Callers : caller[c].pc = "woken" /\ caller[c].chain # NoChain => NoOlder(caller[c].chain, floor[c])

RInv ==
    /\ SharedType /\ ChainType /\ FloorType /\ CallerType
    /\ \A c \in Callers : Holds(c)
    /\ FailuresKnown /\ SlotIsCurrent /\ BuildsServe /\ ValuesServe

LEMMA Initially == RegistryInit => RInv
<1> SUFFICES ASSUME RegistryInit PROVE RInv OBVIOUS
<1> USE DEF RegistryInit
<1>1. Defaults \in Chains BY DEF Defaults, Chains
<1>0. MaxRebuilds \in Nat BY RegistryAssumption
<1>a. current = 0 /\ registryGen = 0 /\ rebuilt = 0 OBVIOUS
<1>b. faulted \in BOOLEAN OBVIOUS
<1>2. SharedType BY <1>0, <1>a, <1>b DEF SharedType
<1>3. ChainType BY <1>1 DEF ChainType
<1>4. FloorType BY DEF FloorType
<1>5. NotCalling \in CallerRecord BY DEF NotCalling, CallerRecord
<1>6. CallerType BY <1>5 DEF CallerType
<1>7. \A c \in Callers : caller[c] = NotCalling OBVIOUS
<1>8. Builders = {} BY <1>7 DEF Builders, NotCalling
<1>9. \A c \in Callers : Holds(c) BY <1>7, <1>8 DEF Holds, NotCalling
<1>10. FailuresKnown /\ SlotIsCurrent /\ BuildsServe /\ ValuesServe
  BY <1>7, <1>8 DEF FailuresKnown, SlotIsCurrent, BuildsServe, ValuesServe, NotCalling
<1> QED BY <1>2, <1>3, <1>4, <1>6, <1>9, <1>10 DEF RInv
-------------------------------------------------------------------------------
(* Steps of the environment. *)

LEMMA SaveKeeps == ASSUME RInv, SaveSources PROVE RInv'
<1> USE DEF RInv, SaveSources
<1>1. current \in Nat /\ current' = current + 1 BY DEF SharedType
<1>2. Chains \subseteq Chains' BY <1>1 DEF Chains
<1>3. SharedType' BY <1>1 DEF SharedType
<1>4. ChainType' BY <1>2 DEF ChainType
<1>5. FloorType' /\ CallerType' BY DEF FloorType, CallerType
<1>6. Builders' = Builders BY DEF Builders
<1>7. [Switches -> (0..current) \cup {NoChain}] \subseteq [Switches -> (0..current') \cup {NoChain}] BY <1>1
<1>8. \A c \in Callers : Holds(c)' BY <1>2, <1>6, <1>7 DEF Holds
<1>9. FailuresKnown' /\ SlotIsCurrent' BY <1>6 DEF FailuresKnown, SlotIsCurrent
<1>10. BuildsServe' BY <1>6 DEF BuildsServe, Supports, Builders
<1>11. ValuesServe' BY DEF ValuesServe, NoOlder
<1> QED BY <1>3, <1>4, <1>5, <1>8, <1>9, <1>10, <1>11

LEMMA TTLKeeps == ASSUME RInv, TTLPasses PROVE RInv'
<1> USE DEF RInv, TTLPasses
<1>1. Chains' = Chains BY DEF Chains
<1>2. SharedType' /\ ChainType' /\ FloorType' /\ CallerType'
  BY <1>1 DEF SharedType, ChainType, FloorType, CallerType
<1>3. Builders' = Builders BY DEF Builders
<1>4. \A c \in Callers : Holds(c)' BY <1>1, <1>3 DEF Holds
<1>5. FailuresKnown' /\ SlotIsCurrent' BY <1>3 DEF FailuresKnown, SlotIsCurrent
<1>6. BuildsServe' BY <1>3 DEF BuildsServe, Supports, Builders
<1>7. ValuesServe' BY DEF ValuesServe, NoOlder
<1> QED BY <1>2, <1>4, <1>5, <1>6, <1>7

-------------------------------------------------------------------------------
(* Steps of a caller. *)

(* The parts that only speak of the shared variables and the history. *)
LEMMA SharedKept ==
  ASSUME RInv, UNCHANGED <<current, registryVal, registryGen, registryFlight, lastGood, engine, rebuilt, supplied>>,
         faulted' = faulted \/ faulted' = TRUE
  PROVE  SharedType' /\ ChainType' /\ Chains' = Chains
<1>1. Chains' = Chains BY DEF Chains
<1>2. faulted' \in BOOLEAN BY DEF RInv, SharedType
<1> QED BY <1>1, <1>2 DEF RInv, SharedType, ChainType

LEMMA CallKeeps == ASSUME RInv, NEW c \in Callers, CallRegistry(c) PROVE RInv'
<1> USE DEF RInv, CallRegistry
<1>1. SharedType' /\ ChainType' /\ Chains' = Chains BY SharedKept
<1>2. FloorType' BY <1>1 DEF FloorType, SharedType
<1>3. /\ caller'[c].pc = "enter" /\ caller'[c].gen = 0 /\ caller'[c].chain = NoChain /\ caller'[c].ok = TRUE
      /\ caller' \in [Callers -> CallerRecord]
      /\ \A d \in Callers \ {c} : caller'[d] = caller[d] /\ floor'[d] = floor[d]
  <2>1. [NotCalling EXCEPT !.pc = "enter"] \in CallerRecord BY DEF NotCalling, CallerRecord
  <2> QED BY <2>1 DEF CallerType, NotCalling, FloorType
<1>4. CallerType' BY <1>3 DEF CallerType
<1>5. Builders' = Builders /\ c \notin Builders BY <1>3 DEF Builders
<1>6. \A d \in Callers : Holds(d)'
  <2>1. Holds(c)' BY <1>1, <1>3 DEF Holds, SharedType
  <2>2. ASSUME NEW d \in Callers \ {c} PROVE Holds(d)' BY <1>1, <1>3 DEF Holds
  <2> QED BY <2>1, <2>2
<1>7. FailuresKnown' /\ SlotIsCurrent' BY <1>3, <1>5 DEF FailuresKnown, SlotIsCurrent
<1>8. BuildsServe' BY <1>3, <1>5 DEF BuildsServe, Supports, Builders
<1>9. ValuesServe' BY <1>3 DEF ValuesServe, NoOlder
<1> QED BY <1>1, <1>2, <1>4, <1>6, <1>7, <1>8, <1>9

LEMMA RebuildKeeps == ASSUME RInv, NEW c \in Callers, RebuildEngine(c) PROVE RInv'
<1> USE DEF RInv, RebuildEngine, DropCached
<1>1. Chains' = Chains BY DEF Chains
<1>2. registryGen \in Nat /\ registryGen' = registryGen + 1 /\ registryGen' <= MaxRebuilds
  <2>1. MaxRebuilds \in Nat BY RegistryAssumption
  <2> QED BY <2>1 DEF SharedType
<1>3. SharedType' BY <1>2 DEF SharedType
<1>4. ChainType' BY <1>1 DEF ChainType
<1>5. FloorType' BY DEF FloorType, SharedType
<1>6. /\ caller'[c].pc = "enter" /\ caller'[c].gen = 0 /\ caller'[c].chain = NoChain /\ caller'[c].ok = TRUE
      /\ caller' \in [Callers -> CallerRecord]
      /\ \A d \in Callers \ {c} : caller'[d] = caller[d] /\ floor'[d] = floor[d]
  <2>1. [NotCalling EXCEPT !.pc = "enter", !.scan = TRUE] \in CallerRecord BY DEF NotCalling, CallerRecord
  <2> QED BY <2>1 DEF CallerType, NotCalling, FloorType
<1>7. CallerType' BY <1>6 DEF CallerType
<1>8. Builders' = Builders /\ c \notin Builders BY <1>6 DEF Builders
<1>9. \A d \in Callers : Holds(d)'
  <2>1. Holds(c)' BY <1>1, <1>2, <1>6 DEF Holds
  <2>2. ASSUME NEW d \in Callers \ {c} PROVE Holds(d)'
    <3>1. caller[d].gen \in Nat BY DEF CallerType, CallerRecord
    <3> QED BY <1>1, <1>2, <1>6, <3>1 DEF Holds
  <2> QED BY <2>1, <2>2
<1>10. \A d \in Builders : caller'[d] = caller[d] /\ caller'[d].gen # registryGen'
  <2> SUFFICES ASSUME NEW d \in Builders PROVE caller'[d] = caller[d] /\ caller'[d].gen # registryGen'
    OBVIOUS
  <2>1. d \in Callers \ {c} BY <1>8 DEF Builders
  <2>2. caller[d].gen \in Nat /\ caller[d].gen <= registryGen BY <2>1 DEF CallerType, CallerRecord, Holds
  <2> QED BY <1>2, <1>6, <2>1, <2>2
<1>11. FailuresKnown' /\ SlotIsCurrent' BY <1>6, <1>8, <1>10 DEF FailuresKnown, SlotIsCurrent
<1>12. BuildsServe' BY <1>6, <1>8, <1>10 DEF BuildsServe, Supports, Builders
<1>13. ValuesServe' BY <1>6 DEF ValuesServe, NoOlder
<1> QED BY <1>3, <1>4, <1>5, <1>7, <1>9, <1>11, <1>12, <1>13

(* A caller that joins no build and starts none: its record becomes v. *)
LEMMA AsideKeeps ==
  ASSUME RInv, NEW c \in Callers, NEW v \in CallerRecord,
         caller' = [caller EXCEPT ![c] = v],
         UNCHANGED <<current, registryVal, registryGen, registryFlight, lastGood, rebuilt, faulted, floor>>,
         engine' \in Chains, supplied' \in [Callers -> Chains],
         c \notin Builders, v.pc \in {"idle", "enter"}, v.chain = NoChain, v.gen <= registryGen, v.ok = TRUE
  PROVE  RInv'
<1> USE DEF RInv
<1>1. Chains' = Chains BY DEF Chains
<1>2. SharedType' /\ ChainType' /\ FloorType' BY <1>1 DEF SharedType, ChainType, FloorType
<1>3. /\ caller'[c] = v /\ caller' \in [Callers -> CallerRecord]
      /\ \A d \in Callers \ {c} : caller'[d] = caller[d]
  BY DEF CallerType
<1>4. CallerType' BY <1>3 DEF CallerType
<1>5. Builders' = Builders BY <1>3 DEF Builders
<1>6. \A d \in Callers : Holds(d)'
  <2>1. Holds(c)' BY <1>1, <1>3 DEF Holds
  <2>2. ASSUME NEW d \in Callers \ {c} PROVE Holds(d)' BY <1>1, <1>3 DEF Holds
  <2> QED BY <2>1, <2>2
<1>7. FailuresKnown' /\ SlotIsCurrent' BY <1>3, <1>5 DEF FailuresKnown, SlotIsCurrent
<1>8. BuildsServe' BY <1>3, <1>5 DEF BuildsServe, Supports, Builders
<1>9. ValuesServe' BY <1>3 DEF ValuesServe, NoOlder
<1> QED BY <1>2, <1>4, <1>6, <1>7, <1>8, <1>9

LEMMA ReturnTyped ==
  ASSUME RInv, NEW c \in Callers, NEW chain \in Chains, Returns(c, chain)
  PROVE  engine' \in Chains /\ supplied' \in [Callers -> Chains]
BY DEF RInv, ChainType, Returns

LEMMA EnterKeeps == ASSUME RInv, NEW c \in Callers, Enter(c) PROVE RInv'
<1> USE DEF RInv
<1>1. c \notin Builders /\ caller[c].pc = "enter" /\ caller[c].chain = NoChain /\ caller[c].ok = TRUE /\ registryGen \in Nat
  BY DEF Enter, Builders, Holds, SharedType
<1>2. CASE registryVal # NoChain
  <2>1. registryVal \in Chains BY <1>2 DEF ChainType
  <2>2. Returns(c, registryVal) /\ caller' = [caller EXCEPT ![c] = NotCalling] BY <1>2 DEF Enter
  <2>3. engine' \in Chains /\ supplied' \in [Callers -> Chains] BY <2>1, <2>2, ReturnTyped
  <2>4. NotCalling \in CallerRecord /\ NotCalling.pc = "idle" /\ NotCalling.chain = NoChain /\ NotCalling.gen = 0 /\ NotCalling.ok = TRUE
    BY DEF NotCalling, CallerRecord
  <2>5. UNCHANGED <<current, registryVal, registryGen, registryFlight, lastGood, rebuilt, faulted, floor>>
    BY <1>2 DEF Enter
  <2> HIDE DEF RInv
  <2>6. 0 <= registryGen BY <1>1
  <2> QED BY <1>1, <2>2, <2>3, <2>4, <2>5, <2>6, AsideKeeps
<1>3. CASE registryVal = NoChain /\ registryFlight # NoFlight /\ caller[registryFlight].gen = registryGen
  <2>1. /\ caller' = [caller EXCEPT ![c].pc = "wait", ![c].gen = registryGen]
        /\ UNCHANGED <<current, registryVal, registryGen, registryFlight, lastGood, engine, rebuilt, faulted, floor, supplied>>
    BY <1>3 DEF Enter
  <2>2. SharedType' /\ ChainType' /\ Chains' = Chains BY <2>1, SharedKept
  <2>3. FloorType' BY <2>1 DEF FloorType
  <2>4. /\ caller'[c].pc = "wait" /\ caller'[c].gen = registryGen /\ caller'[c].chain = NoChain /\ caller'[c].ok = TRUE
        /\ caller' \in [Callers -> CallerRecord]
        /\ \A d \in Callers \ {c} : caller'[d] = caller[d]
    BY <1>1, <2>1 DEF CallerType, CallerRecord
  <2>5. CallerType' BY <2>4 DEF CallerType
  <2>6. Builders' = Builders BY <1>1, <2>4 DEF Builders
  <2>7. \A d \in Callers : Holds(d)'
    <3>1. Holds(c)' BY <1>1, <2>1, <2>4 DEF Holds
    <3>2. ASSUME NEW d \in Callers \ {c} PROVE Holds(d)' BY <2>1, <2>2, <2>4 DEF Holds
    <3> QED BY <3>1, <3>2
  <2>8. FailuresKnown' /\ SlotIsCurrent' BY <1>1, <2>1, <2>4, <2>6 DEF FailuresKnown, SlotIsCurrent, Builders
  <2>9. BuildsServe'
    <3> SUFFICES ASSUME NEW b \in Builders
                 PROVE  /\ Supports(b, floor[b])
                        /\ \A d \in Callers : caller'[d].pc = "wait" /\ caller'[d].gen = caller[b].gen => Supports(b, floor[d])
                        /\ caller[b].gen = registryGen => Supports(b, rebuilt)
      <4>1. \A b \in Builders : caller'[b] = caller[b] BY <1>1, <2>4 DEF Builders
      <4>2. floor' = floor /\ rebuilt' = rebuilt /\ registryGen' = registryGen /\ faulted' = faulted BY <2>1
      <4> HIDE DEF RInv
      <4> QED BY <2>6, <4>1, <4>2 DEF BuildsServe, Supports
    <3>1. Supports(b, floor[b]) /\ (caller[b].gen = registryGen => Supports(b, rebuilt)) BY DEF BuildsServe
    <3>2. ASSUME NEW d \in Callers \ {c}, caller'[d].pc = "wait", caller'[d].gen = caller[b].gen
          PROVE  Supports(b, floor[d])
      BY <2>4, <3>2 DEF BuildsServe
    <3>3. ASSUME caller[b].gen = registryGen PROVE Supports(b, floor[c])
      <4>1. floor[c] <= rebuilt /\ floor[c] \in Nat /\ rebuilt \in Nat BY DEF FloorType, SharedType
      <4>2. Supports(b, rebuilt) BY <3>1, <3>3
      <4>3. Holds(b) /\ caller[b].pc \in {"read", "publish"} BY DEF Builders
      <4>4. ASSUME NEW s \in Switches, caller[b].pc = "read" => caller[b].chain[s] # NoChain PROVE caller[b].chain[s] \in Nat
        BY <4>3, <4>4 DEF Holds, Chains, SharedType
      <4> QED BY <4>1, <4>2, <4>4 DEF Supports
    <3> QED BY <2>4, <3>1, <3>2, <3>3
  <2>10. ValuesServe' BY <2>1, <2>4 DEF ValuesServe, NoOlder
  <2> QED BY <2>2, <2>3, <2>5, <2>7, <2>8, <2>9, <2>10
<1>4. CASE registryVal = NoChain /\ ~(registryFlight # NoFlight /\ caller[registryFlight].gen = registryGen)
  <2>1. /\ caller' = [caller EXCEPT ![c].pc = "read", ![c].gen = registryGen, ![c].chain = Unread]
        /\ registryFlight' = c
        /\ UNCHANGED <<current, registryVal, registryGen, lastGood, engine, rebuilt, faulted, floor, supplied>>
    BY <1>4 DEF Enter
  <2>2. Chains' = Chains BY <2>1 DEF Chains
  <2>3. SharedType' /\ ChainType' /\ FloorType' BY <2>1, <2>2 DEF SharedType, ChainType, FloorType
  <2>4. /\ caller'[c].pc = "read" /\ caller'[c].gen = registryGen /\ caller'[c].chain = Unread
        /\ caller'[c].ok = TRUE
        /\ caller' \in [Callers -> CallerRecord]
        /\ \A d \in Callers \ {c} : caller'[d] = caller[d]
    <3> DEFINE v == [caller[c] EXCEPT !.pc = "read", !.gen = registryGen, !.chain = Unread]
    <3>1. Unread \in Partial BY DEF Unread, Partial
    <3>2. v \in CallerRecord /\ v.pc = "read" /\ v.gen = registryGen /\ v.chain = Unread /\ v.ok = TRUE
      <4>1. caller[c] \in CallerRecord BY DEF CallerType
      <4> QED BY <1>1, <3>1, <4>1 DEF CallerRecord
    <3>3. caller' = [caller EXCEPT ![c] = v] BY <2>1 DEF CallerType, CallerRecord
    <3> QED BY <3>2, <3>3 DEF CallerType
  <2>5. CallerType' BY <2>4 DEF CallerType
  <2>6. Builders' = Builders \cup {c} BY <2>4 DEF Builders
  <2>7. registryFlight = NoFlight /\ \A b \in Builders : caller[b].gen # registryGen
    BY <1>4, RegistryAssumption DEF SlotIsCurrent, Builders
  <2>8. \A d \in Callers : Holds(d)'
    <3>1. Unread \in [Switches -> (0..current) \cup {NoChain}] BY DEF Unread
    <3>2. Holds(c)' BY <1>1, <2>1, <2>4, <3>1 DEF Holds
    <3>3. ASSUME NEW d \in Callers \ {c} PROVE Holds(d)' BY <2>1, <2>2, <2>4 DEF Holds
    <3> QED BY <3>2, <3>3
  <2>9. FailuresKnown' BY <1>1, <2>1, <2>4, <2>6 DEF FailuresKnown, Builders
  <2>10. SlotIsCurrent' BY <1>1, <2>1, <2>4, <2>6, <2>7 DEF SlotIsCurrent, Builders
  <2>11. BuildsServe'
    <3>1. \A n : Supports(c, n)' BY <2>4 DEF Supports, Unread
    <3>2. ASSUME NEW b \in Builders
          PROVE  /\ caller'[b] = caller[b] /\ caller'[b].gen # registryGen'
                 /\ Supports(b, floor[b])'
                 /\ \A d \in Callers : caller'[d].pc = "wait" /\ caller'[d].gen = caller'[b].gen => Supports(b, floor[d])'
      <4>1. b \in Callers \ {c} BY <1>1 DEF Builders
      <4>2. caller'[b] = caller[b] /\ caller'[b].gen # registryGen' BY <2>1, <2>4, <2>7, <4>1
      <4> QED BY <2>1, <2>4, <4>1, <4>2 DEF BuildsServe, Supports
    <3> QED BY <2>1, <2>6, <3>1, <3>2 DEF BuildsServe
  <2>12. ValuesServe' BY <2>1, <2>4 DEF ValuesServe, NoOlder
  <2> QED BY <2>3, <2>5, <2>8, <2>9, <2>10, <2>11, <2>12
<1> QED BY <1>2, <1>3, <1>4

(* A build that goes on: its record becomes v. *)
LEMMA BuildingKeeps ==
  ASSUME RInv, NEW c \in Builders, NEW v \in CallerRecord,
         caller' = [caller EXCEPT ![c] = v],
         UNCHANGED <<current, registryVal, registryGen, registryFlight, lastGood, engine, rebuilt, floor, supplied>>,
         faulted => faulted', faulted' \in BOOLEAN,
         v.gen = caller[c].gen, v.pc \in {"read", "publish"}, v.ok \/ faulted',
         v.pc = "read" => v.chain \in [Switches -> (0..current) \cup {NoChain}],
         v.pc = "publish" => v.chain \in Chains,
         \A n \in 0..current : Supports(c, n) => Supports(c, n)'
  PROVE  RInv'
<1>1. Chains' = Chains BY DEF Chains
<1>2. SharedType' /\ ChainType' /\ FloorType' BY <1>1 DEF RInv, SharedType, ChainType, FloorType
<1>3. c \in Callers /\ caller[c].pc \in {"read", "publish"} BY DEF Builders
<1>4. /\ caller'[c] = v /\ caller' \in [Callers -> CallerRecord]
      /\ \A d \in Callers \ {c} : caller'[d] = caller[d]
  BY <1>3 DEF RInv, CallerType
<1>5. CallerType' BY <1>4 DEF CallerType
<1>6. Builders' = Builders BY <1>3, <1>4 DEF Builders
<1>7. \A d \in Callers : Holds(d)'
  <2>1. Holds(c)' BY <1>1, <1>3, <1>4 DEF RInv, Holds
  <2>2. ASSUME NEW d \in Callers \ {c} PROVE Holds(d)' BY <1>1, <1>4 DEF RInv, Holds
  <2> QED BY <2>1, <2>2
<1>8. FailuresKnown'
  <2>1. ASSUME NEW b \in Builders PROVE caller'[b].ok \/ faulted'
    <3>1. CASE b = c BY <1>4, <3>1
    <3>2. CASE b # c
      <4>1. caller'[b] = caller[b] BY <1>4, <3>2 DEF Builders
      <4>2. caller[b].ok \/ faulted BY DEF RInv, FailuresKnown
      <4> QED BY <4>1, <4>2
    <3> QED BY <3>1, <3>2
  <2> QED BY <1>6, <2>1 DEF FailuresKnown
<1>9. \A b \in Builders : caller'[b].gen = caller[b].gen BY <1>4 DEF Builders
<1>10. SlotIsCurrent' BY <1>6, <1>9 DEF RInv, SlotIsCurrent
<1>11. \A b \in Builders, n \in 0..current : Supports(b, n) => Supports(b, n)'
  BY <1>4 DEF Builders, Supports
<1>12. \A d \in Callers : floor[d] \in 0..current /\ rebuilt \in 0..current BY DEF RInv, FloorType, SharedType
<1>13. \A d \in Callers : caller'[d].pc = "wait" => caller'[d] = caller[d] BY <1>4
<1>14. BuildsServe'
  <2> SUFFICES ASSUME NEW b \in Builders
               PROVE  /\ Supports(b, floor[b])'
                      /\ \A d \in Callers : caller'[d].pc = "wait" /\ caller'[d].gen = caller'[b].gen => Supports(b, floor[d])'
                      /\ caller'[b].gen = registryGen' => Supports(b, rebuilt)'
    BY <1>6 DEF BuildsServe
  <2>1. b \in Callers BY DEF Builders
  <2>2. floor' = floor /\ rebuilt' = rebuilt /\ registryGen' = registryGen OBVIOUS
  <2>3. \A n : Supports(b, n)' <=> (faulted' \/ \A s \in Switches : \/ caller'[b].pc = "read" /\ caller'[b].chain[s] = NoChain
                                                                    \/ caller'[b].chain[s] >= n)
    BY DEF Supports
  <2>4. Supports(b, floor[b])' BY <1>11, <1>12, <2>1, <2>2 DEF RInv, BuildsServe
  <2>5. ASSUME NEW d \in Callers, caller'[d].pc = "wait", caller'[d].gen = caller'[b].gen PROVE Supports(b, floor[d])'
    BY <1>9, <1>11, <1>12, <1>13, <2>2, <2>5 DEF RInv, BuildsServe
  <2>6. ASSUME caller'[b].gen = registryGen' PROVE Supports(b, rebuilt)'
    BY <1>9, <1>11, <1>12, <2>1, <2>2, <2>6 DEF RInv, BuildsServe
  <2> QED BY <2>4, <2>5, <2>6
<1>15. ValuesServe' BY <1>3, <1>4 DEF RInv, ValuesServe, NoOlder
<1> QED BY <1>2, <1>5, <1>7, <1>8, <1>10, <1>14, <1>15 DEF RInv

LEMMA ReadKeeps == ASSUME RInv, NEW c \in Callers, NEW s \in Switches, ReadSetting(c, s) PROVE RInv'
<1>1. /\ c \in Builders /\ caller[c] \in CallerRecord /\ caller[c].pc = "read"
      /\ caller[c].chain \in [Switches -> (0..current) \cup {NoChain}]
      /\ current \in Nat /\ faulted \in BOOLEAN
  BY DEF RInv, ReadSetting, Builders, CallerType, Holds, SharedType
<1>2. UNCHANGED <<current, registryVal, registryGen, registryFlight, lastGood, engine, rebuilt, floor, supplied>>
  BY DEF ReadSetting
<1>3. CASE caller' = [caller EXCEPT ![c].chain[s] = current] /\ faulted' = faulted
  <2> DEFINE v == [caller[c] EXCEPT !.chain = [@ EXCEPT ![s] = current]]
  <2>1. caller' = [caller EXCEPT ![c] = v] BY <1>3
  <2>2. v.chain = [caller[c].chain EXCEPT ![s] = current] /\ v.pc = "read" /\ v.gen = caller[c].gen /\ v.ok = caller[c].ok
    BY <1>1 DEF CallerRecord
  <2>3. v.chain \in [Switches -> (0..current) \cup {NoChain}] BY <1>1, <2>2
  <2>4. v.chain \in Partial BY <1>1, <2>3 DEF Partial
  <2>5. v \in CallerRecord BY <1>1, <2>4 DEF CallerRecord
  <2>6. v.ok \/ faulted' BY <1>1, <1>3, <2>2 DEF RInv, FailuresKnown
  <2>7. ASSUME NEW n \in 0..current, Supports(c, n) PROVE Supports(c, n)'
    <3>1. caller'[c] = v BY <1>1, <2>1 DEF RInv, CallerType
    <3>2. v.chain[s] = current /\ \A q \in Switches \ {s} : v.chain[q] = caller[c].chain[q] BY <1>1, <2>2
    <3> HIDE DEF v
    <3> QED BY <1>1, <1>3, <2>2, <2>7, <3>1, <3>2 DEF Supports
  <2> HIDE DEF v
  <2> QED BY <1>1, <1>2, <1>3, <2>1, <2>2, <2>3, <2>5, <2>6, <2>7, BuildingKeeps
<1>4. CASE caller' = [caller EXCEPT ![c].chain[s] = 0, ![c].ok = FALSE] /\ faulted' = TRUE
  <2> DEFINE v == [caller[c] EXCEPT !.chain = [@ EXCEPT ![s] = 0], !.ok = FALSE]
  <2>1. caller' = [caller EXCEPT ![c] = v] BY <1>1, <1>4 DEF CallerRecord, RInv, CallerType
  <2>2. v.chain = [caller[c].chain EXCEPT ![s] = 0] /\ v.pc = "read" /\ v.gen = caller[c].gen
    BY <1>1 DEF CallerRecord
  <2>3. v.chain \in [Switches -> (0..current) \cup {NoChain}] BY <1>1, <2>2
  <2>4. v.chain \in Partial BY <1>1, <2>3 DEF Partial
  <2>5. v \in CallerRecord BY <1>1, <2>4 DEF CallerRecord
  <2>6. \A n : Supports(c, n)' BY <1>4 DEF Supports
  <2> HIDE DEF v
  <2> QED BY <1>1, <1>2, <1>4, <2>1, <2>2, <2>3, <2>5, <2>6, BuildingKeeps
<1> QED BY <1>3, <1>4 DEF ReadSetting

LEMMA AssembleKeeps == ASSUME RInv, NEW c \in Callers, Assemble(c) PROVE RInv'
<1> DEFINE ch == IF ~caller[c].ok /\ lastGood # NoChain THEN lastGood ELSE caller[c].chain
           v == [caller[c] EXCEPT !.pc = "publish", !.chain = ch]
<1>1. /\ c \in Builders /\ caller[c] \in CallerRecord /\ caller[c].pc = "read"
      /\ caller[c].chain \in [Switches -> (0..current) \cup {NoChain}]
      /\ current \in Nat /\ faulted \in BOOLEAN
      /\ lastGood \in Chains \cup {NoChain}
  BY DEF RInv, Assemble, Builders, CallerType, Holds, SharedType, ChainType
<1>2. /\ UNCHANGED <<current, registryVal, registryGen, registryFlight, lastGood, engine, rebuilt, floor, supplied>>
      /\ faulted' = faulted
  BY DEF Assemble
<1>3. caller' = [caller EXCEPT ![c] = v] BY <1>1 DEF Assemble, RInv, CallerType, CallerRecord
<1>4. \A s \in Switches : caller[c].chain[s] # NoChain BY DEF Assemble, Read
<1>5. caller[c].chain \in Chains BY <1>1, <1>4 DEF Chains
<1>6. ch \in Chains BY <1>1, <1>5
<1>7. v.pc = "publish" /\ v.chain = ch /\ v.gen = caller[c].gen /\ v.ok = caller[c].ok
  BY <1>1 DEF CallerRecord
<1>8. v \in CallerRecord
  <2>1. ch \in Partial BY <1>1, <1>6 DEF Chains, Partial
  <2> QED BY <1>1, <2>1 DEF CallerRecord
<1>9. caller[c].ok \/ faulted BY <1>1 DEF RInv, FailuresKnown
<1>10. ASSUME NEW n \in 0..current, Supports(c, n) PROVE Supports(c, n)'
  <2>1. caller'[c] = v BY <1>1, <1>3 DEF RInv, CallerType
  <2>2. CASE faulted BY <1>2, <2>2 DEF Supports
  <2>3. CASE caller[c].ok /\ ~faulted
    <3>1. v.chain = caller[c].chain BY <1>7, <2>3
    <3> QED BY <1>1, <1>2, <1>4, <1>7, <1>10, <2>1, <2>3, <3>1 DEF Supports
  <2> QED BY <1>9, <2>2, <2>3
<1> HIDE DEF v, ch
<1> QED BY <1>1, <1>2, <1>3, <1>6, <1>7, <1>8, <1>9, <1>10, BuildingKeeps

(* The end of a build, published or not: those that waited take w. *)
HandsOver(c, w) ==
    caller' = [d \in Callers |-> IF d = c THEN NotCalling
                                 ELSE IF d \in WaitFor(c) THEN [caller[d] EXCEPT !.pc = "woken", !.chain = w]
                                 ELSE caller[d]]

LEMMA EndKeeps ==
  ASSUME RInv, NEW c \in Builders, NEW w \in Chains \cup {NoChain}, HandsOver(c, w),
         registryFlight' = LeavesSlot(c),
         UNCHANGED <<current, registryGen, rebuilt, faulted, floor>>,
         ChainType', registryVal' # NoChain => NoOlder(registryVal', rebuilt),
         w # NoChain => \A d \in WaitFor(c) : NoOlder(w, floor[d])
  PROVE  RInv'
<1>1. Chains' = Chains /\ current \in Nat /\ registryGen \in Nat /\ registryGen' = registryGen
  BY DEF Chains, RInv, SharedType
<1>2. c \in Callers /\ caller[c].pc \in {"read", "publish"} BY DEF Builders
<1>3. w \in Partial \cup {NoChain}
  <2>1. (0..current) \subseteq Nat \cup {NoChain} BY <1>1
  <2>2. Chains \subseteq Partial BY <2>1 DEF Chains, Partial
  <2> QED BY <2>2
<1>4. NotCalling \in CallerRecord BY DEF NotCalling, CallerRecord
<1>5. \A d \in WaitFor(c) : /\ d \in Callers \ {c} /\ caller[d].pc = "wait"
                            /\ caller'[d] = [caller[d] EXCEPT !.pc = "woken", !.chain = w]
                            /\ caller'[d] \in CallerRecord /\ caller'[d].pc = "woken" /\ caller'[d].chain = w
                            /\ caller'[d].gen = caller[d].gen /\ caller'[d].ok = caller[d].ok
  BY <1>2, <1>3 DEF HandsOver, WaitFor, RInv, CallerType, CallerRecord
<1>6. \A d \in Callers \ ({c} \cup WaitFor(c)) : caller'[d] = caller[d] BY DEF HandsOver
<1>7. caller'[c].pc = "idle" /\ caller'[c].chain = NoChain /\ caller'[c].gen = 0 /\ caller'[c].ok = TRUE
  BY <1>2 DEF NotCalling, HandsOver
<1>8. CallerType'
  <2>1. \A d \in Callers : caller'[d] \in CallerRecord BY <1>2, <1>4, <1>5, <1>6 DEF RInv, CallerType, HandsOver
  <2>2. caller' = [d \in Callers |-> caller'[d]] BY DEF HandsOver
  <2> QED BY <2>1, <2>2 DEF CallerType
<1>9. Builders' = Builders \ {c} BY <1>2, <1>5, <1>6, <1>7 DEF Builders
<1>10. \A b \in Builders' : b \in Callers \ ({c} \cup WaitFor(c)) /\ caller'[b] = caller[b]
  BY <1>5, <1>6, <1>9 DEF Builders
<1>11. SharedType'
  <2>1. registryFlight' \in Callers \cup {NoFlight} BY DEF RInv, SharedType, LeavesSlot
  <2> QED BY <2>1 DEF RInv, SharedType
<1>12. FloorType' BY DEF RInv, FloorType
<1>13. \A d \in Callers : Holds(d)'
  <2>1. Holds(c)'
    <3>1. 0 <= registryGen BY <1>1
    <3>2. caller'[c].gen <= registryGen' /\ caller'[c].pc = "idle" /\ caller'[c].chain = NoChain /\ caller'[c].ok = TRUE
      BY <1>1, <1>7, <3>1
    <3> QED BY <3>2 DEF Holds
  <2>2. ASSUME NEW d \in WaitFor(c) PROVE Holds(d)'
    <3>1. Holds(d) /\ caller[d].pc = "wait" BY <1>5 DEF RInv
    <3>2. caller[d].gen <= registryGen /\ caller[d].ok = TRUE BY <3>1 DEF Holds
    <3>3. caller'[d].pc = "woken" /\ caller'[d].chain \in Chains' \cup {NoChain} /\ caller'[d].gen = caller[d].gen /\ caller'[d].ok = TRUE
      BY <1>1, <1>5, <3>2
    <3> QED BY <1>1, <3>2, <3>3 DEF Holds
  <2>3. ASSUME NEW d \in Callers \ ({c} \cup WaitFor(c)) PROVE Holds(d)' BY <1>1, <1>6 DEF Holds, RInv
  <2> QED BY <2>1, <2>2, <2>3
<1>14. FailuresKnown' BY <1>9, <1>10 DEF RInv, FailuresKnown
<1>15. SlotIsCurrent'
  <2>1. ASSUME NEW b \in Builders', caller'[b].gen = registryGen' PROVE registryFlight' = b
    <3>1. b # c /\ registryFlight = b BY <1>9, <1>10, <2>1 DEF RInv, SlotIsCurrent
    <3> QED BY <3>1 DEF LeavesSlot
  <2>2. ASSUME registryFlight' # NoFlight PROVE registryFlight' \in Builders' /\ caller'[registryFlight'].gen = registryGen'
    <3>1. registryFlight' = registryFlight /\ registryFlight # c BY <2>2 DEF LeavesSlot
    <3>2. registryFlight \in Builders' BY <1>9, <2>2, <3>1 DEF RInv, SlotIsCurrent
    <3> QED BY <1>10, <2>2, <3>1, <3>2 DEF RInv, SlotIsCurrent
  <2> QED BY <2>1, <2>2 DEF SlotIsCurrent
<1>16. BuildsServe'
  <2>1. \A d \in Callers : caller'[d].pc = "wait" => caller'[d] = caller[d] BY <1>5, <1>6, <1>7
  <2>2. BuildsServe /\ floor' = floor /\ rebuilt' = rebuilt /\ faulted' = faulted BY DEF RInv
  <2>3. ASSUME NEW b \in Builders'
        PROVE  /\ \A n : Supports(b, n) => Supports(b, n)'
               /\ b \in Builders /\ caller'[b] = caller[b]
    <3>1. b \in Builders /\ caller'[b] = caller[b] BY <1>9, <1>10
    <3> QED BY <2>2, <3>1 DEF Supports
  <2>4. ASSUME NEW b \in Builders'
        PROVE  /\ Supports(b, floor[b])'
               /\ \A d \in Callers : caller'[d].pc = "wait" /\ caller'[d].gen = caller'[b].gen => Supports(b, floor[d])'
               /\ caller'[b].gen = registryGen' => Supports(b, rebuilt)'
    <3>1. Supports(b, floor[b])' BY <2>2, <2>3 DEF BuildsServe, Supports
    <3>2. ASSUME NEW d \in Callers, caller'[d].pc = "wait", caller'[d].gen = caller'[b].gen PROVE Supports(b, floor[d])'
      <4>1. Supports(b, floor[d]) BY <2>1, <2>2, <2>3, <3>2 DEF BuildsServe
      <4> QED BY <2>2, <2>3, <4>1 DEF Supports
    <3>3. ASSUME caller'[b].gen = registryGen' PROVE Supports(b, rebuilt)'
      <4>1. Supports(b, rebuilt) BY <1>1, <2>2, <2>3, <3>3 DEF BuildsServe
      <4> QED BY <2>2, <2>3, <4>1 DEF Supports
    <3> QED BY <3>1, <3>2, <3>3
  <2> QED BY <2>4 DEF BuildsServe
<1>17. ValuesServe'
  <2>1. ASSUME NEW d \in Callers, caller'[d].pc = "woken", caller'[d].chain # NoChain PROVE NoOlder(caller'[d].chain, floor[d])
    <3>1. d # c BY <1>7, <2>1
    <3>2. CASE d \in WaitFor(c) BY <1>5, <2>1, <3>2
    <3>3. CASE d \notin WaitFor(c) BY <1>6, <2>1, <3>1, <3>3 DEF RInv, ValuesServe
    <3> QED BY <3>2, <3>3
  <2> QED BY <2>1 DEF ValuesServe, NoOlder
<1> QED BY <1>8, <1>11, <1>12, <1>13, <1>14, <1>15, <1>16, <1>17 DEF RInv

LEMMA PublishKeeps == ASSUME RInv, NEW c \in Callers, Publish(c) PROVE RInv'
<1> DEFINE w == caller[c].chain
<1>1. c \in Builders /\ caller[c].pc = "publish" /\ w \in Chains
  BY DEF RInv, Publish, Builders, Holds
<1>2. HandsOver(c, w) /\ registryFlight' = LeavesSlot(c) BY DEF Publish, HandsOver
<1>3. UNCHANGED <<current, registryGen, rebuilt, faulted, floor>> BY DEF Publish
<1>4. ChainType'
  <2>1. engine' \in Chains /\ supplied' \in [Callers -> Chains] BY <1>1, ReturnTyped DEF Publish
  <2>2. registryVal' \in Chains \cup {NoChain} /\ lastGood' \in Chains \cup {NoChain}
    BY <1>1 DEF Publish, RInv, ChainType
  <2>3. Chains' = Chains BY <1>3 DEF Chains
  <2> QED BY <2>1, <2>2, <2>3 DEF ChainType
<1>5. ASSUME NEW n, Supports(c, n) PROVE NoOlder(w, n) BY <1>1, <1>5 DEF Supports, NoOlder
<1>6. registryVal' # NoChain => NoOlder(registryVal', rebuilt)
  <2>1. CASE Publishes(c) /\ Cacheable(c)
    <3>1. registryVal' = w /\ Supports(c, rebuilt)
      BY <1>1, <2>1 DEF Publish, Publishes, RInv, BuildsServe
    <3> QED BY <1>5, <3>1
  <2>2. CASE ~(Publishes(c) /\ Cacheable(c))
    <3>1. registryVal' = registryVal BY <2>2 DEF Publish
    <3> QED BY <3>1 DEF RInv, ValuesServe
  <2> QED BY <2>1, <2>2
<1>7. ASSUME NEW d \in WaitFor(c) PROVE NoOlder(w, floor[d])
  <2>1. Supports(c, floor[d]) BY <1>1, <1>7 DEF WaitFor, RInv, BuildsServe
  <2> QED BY <1>5, <2>1
<1> HIDE DEF w
<1>8. w \in Chains \cup {NoChain} BY <1>1
<1> QED BY <1>1, <1>2, <1>3, <1>4, <1>6, <1>7, <1>8, EndKeeps

(* Who waited for a build that panics has nothing and tries again.             *)
LEMMA PanicKeeps == ASSUME RInv, NEW c \in Callers, BuildPanics(c) PROVE RInv'
<1>1. c \in Builders BY DEF BuildPanics, Builders
<1>2. \A d \in WaitFor(c) :
        [caller[d] EXCEPT !.pc = "woken"] = [caller[d] EXCEPT !.pc = "woken", !.chain = NoChain]
  <2> SUFFICES ASSUME NEW d \in WaitFor(c)
               PROVE [caller[d] EXCEPT !.pc = "woken"] = [caller[d] EXCEPT !.pc = "woken", !.chain = NoChain]
    OBVIOUS
  <2>1. caller[d] \in CallerRecord /\ caller[d].chain = NoChain BY DEF WaitFor, RInv, Holds, CallerType
  <2> QED BY <2>1 DEF CallerRecord
<1>3. HandsOver(c, NoChain) BY <1>2 DEF BuildPanics, HandsOver
<1>4. /\ registryFlight' = LeavesSlot(c)
      /\ UNCHANGED <<current, registryVal, registryGen, lastGood, engine, rebuilt, faulted, floor, supplied>>
  BY DEF BuildPanics
<1>5. ChainType' BY <1>4 DEF RInv, ChainType, Chains
<1>6. registryVal' # NoChain => NoOlder(registryVal', rebuilt) BY <1>4 DEF RInv, ValuesServe
<1>7. NoChain \in Chains \cup {NoChain} OBVIOUS
<1> QED BY <1>1, <1>3, <1>4, <1>5, <1>6, <1>7, EndKeeps

LEMMA WokenKeeps == ASSUME RInv, NEW c \in Callers, Woken(c) PROVE RInv'
<1>1. c \notin Builders /\ caller[c].pc = "woken" /\ caller[c].gen <= registryGen /\ caller[c].ok = TRUE
      /\ caller[c] \in CallerRecord /\ caller[c].chain \in Chains \cup {NoChain} /\ registryGen \in Nat
  BY DEF RInv, Woken, Builders, Holds, CallerType, SharedType
<1>2. UNCHANGED <<current, registryVal, registryGen, registryFlight, lastGood, rebuilt, faulted, floor>> BY DEF Woken
<1>3. CASE caller[c].chain = NoChain
  <2> DEFINE v == [caller[c] EXCEPT !.pc = "enter"]
  <2>1. v \in CallerRecord /\ v.pc = "enter" /\ v.chain = NoChain /\ v.gen = caller[c].gen /\ v.ok = TRUE
    BY <1>1, <1>3 DEF CallerRecord
  <2>2. caller' = [caller EXCEPT ![c] = v] BY <1>3 DEF Woken
  <2>3. engine' \in Chains /\ supplied' \in [Callers -> Chains] BY <1>3 DEF Woken, RInv, ChainType
  <2> HIDE DEF v
  <2> QED BY <1>1, <1>2, <2>1, <2>2, <2>3, AsideKeeps
<1>4. CASE caller[c].chain # NoChain
  <2>1. Returns(c, caller[c].chain) /\ caller' = [caller EXCEPT ![c] = NotCalling] BY <1>4 DEF Woken
  <2>2. engine' \in Chains /\ supplied' \in [Callers -> Chains] BY <1>1, <1>4, <2>1, ReturnTyped
  <2>3. NotCalling \in CallerRecord /\ NotCalling.pc = "idle" /\ NotCalling.chain = NoChain
        /\ NotCalling.gen <= registryGen /\ NotCalling.ok = TRUE
    BY <1>1 DEF NotCalling, CallerRecord
  <2> QED BY <1>1, <1>2, <2>1, <2>2, <2>3, AsideKeeps
<1> QED BY <1>3, <1>4

LEMMA StepKeeps == ASSUME RInv, [RegistryNext]_registryVars PROVE RInv'
<1>1. CASE UNCHANGED registryVars
  BY <1>1 DEF registryVars, RInv, SharedType, ChainType, FloorType, CallerType, Holds, Chains, FailuresKnown,
     SlotIsCurrent, BuildsServe, ValuesServe, Supports, NoOlder, Builders
<1>2. CASE SaveSources \/ TTLPasses BY <1>2, SaveKeeps, TTLKeeps
<1>3. ASSUME NEW c \in Callers, CallRegistry(c) \/ RebuildEngine(c) \/ GoesOn(c) \/ BuildPanics(c) PROVE RInv'
  BY <1>3, CallKeeps, RebuildKeeps, EnterKeeps, ReadKeeps, AssembleKeeps, PublishKeeps, PanicKeeps, WokenKeeps DEF GoesOn
<1> QED BY <1>1, <1>2, <1>3 DEF RegistryNext
(* What the steps of a build and its end do to the callers.                     *)
LEMMA BuildStep ==
  ASSUME RInv, NEW c \in Callers, (\E s \in Switches : ReadSetting(c, s)) \/ Assemble(c)
  PROVE  /\ c \in Builders /\ \A d \in Callers \ {c} : caller'[d] = caller[d]
         /\ caller'[c].gen = caller[c].gen /\ caller'[c].pc \in {"read", "publish"}
<1>1. caller \in [Callers -> CallerRecord] /\ caller[c] \in CallerRecord BY DEF RInv, CallerType
<1>2. ASSUME NEW v, caller' = [caller EXCEPT ![c] = v], v.gen = caller[c].gen, v.pc \in {"read", "publish"}
      PROVE  /\ \A d \in Callers \ {c} : caller'[d] = caller[d]
             /\ caller'[c].gen = caller[c].gen /\ caller'[c].pc \in {"read", "publish"}
  BY <1>1, <1>2
<1>3. c \in Builders /\ caller[c].pc = "read" BY DEF ReadSetting, Assemble, Builders
<1>4. ASSUME NEW s \in Switches, ReadSetting(c, s) PROVE \E v : caller' = [caller EXCEPT ![c] = v] /\ v.gen = caller[c].gen /\ v.pc = "read"
  <2>1. CASE caller' = [caller EXCEPT ![c].chain[s] = current]
    <3> DEFINE v == [caller[c] EXCEPT !.chain = [@ EXCEPT ![s] = current]]
    <3>1. caller' = [caller EXCEPT ![c] = v] BY <2>1
    <3>2. v.gen = caller[c].gen /\ v.pc = "read" BY <1>1, <1>3 DEF CallerRecord
    <3> QED BY <3>1, <3>2
  <2>2. CASE caller' = [caller EXCEPT ![c].chain[s] = 0, ![c].ok = FALSE]
    <3> DEFINE v == [caller[c] EXCEPT !.chain = [@ EXCEPT ![s] = 0], !.ok = FALSE]
    <3>1. caller' = [caller EXCEPT ![c] = v] BY <1>1, <2>2 DEF CallerRecord
    <3>2. v.gen = caller[c].gen /\ v.pc = "read" BY <1>1, <1>3 DEF CallerRecord
    <3> QED BY <3>1, <3>2
  <2> QED BY <1>4, <2>1, <2>2 DEF ReadSetting
<1>5. ASSUME Assemble(c) PROVE \E v : caller' = [caller EXCEPT ![c] = v] /\ v.gen = caller[c].gen /\ v.pc = "publish"
  <2> DEFINE ch == IF ~caller[c].ok /\ lastGood # NoChain THEN lastGood ELSE caller[c].chain
             v == [caller[c] EXCEPT !.pc = "publish", !.chain = ch]
  <2>1. caller' = [caller EXCEPT ![c] = v] BY <1>1, <1>5 DEF Assemble, CallerRecord
  <2>2. v.gen = caller[c].gen /\ v.pc = "publish" BY <1>1 DEF CallerRecord
  <2> QED BY <2>1, <2>2
<1> QED BY <1>2, <1>3, <1>4, <1>5

LEMMA EndStep ==
  ASSUME RInv, NEW c \in Callers, Publish(c) \/ BuildPanics(c)
  PROVE  /\ caller[c].pc # "idle" /\ caller'[c].pc = "idle"
         /\ \A d \in Callers \ {c} : caller'[d] = caller[d] \/ (caller[d].pc = "wait" /\ caller'[d].pc = "woken")
<1>1. caller[c].pc # "idle" BY DEF Publish, BuildPanics
<1>2. caller'[c] = NotCalling
  <2>1. CASE Publish(c) BY <2>1 DEF Publish
  <2>2. CASE BuildPanics(c) BY <2>2 DEF BuildPanics
  <2> QED BY <2>1, <2>2
<1>3. ASSUME NEW d \in Callers \ {c}, caller'[d] # caller[d] PROVE caller[d].pc = "wait" /\ caller'[d].pc = "woken"
  <2>1. caller[d] \in CallerRecord BY DEF RInv, CallerType
  <2>2. d \in WaitFor(c) /\ (\/ caller'[d] = [caller[d] EXCEPT !.pc = "woken", !.chain = caller[c].chain]
                             \/ caller'[d] = [caller[d] EXCEPT !.pc = "woken"])
    <3>1. CASE Publish(c) BY <1>3, <3>1 DEF Publish
    <3>2. CASE BuildPanics(c) BY <1>3, <3>2 DEF BuildPanics
    <3> QED BY <3>1, <3>2
  <2> QED BY <2>1, <2>2 DEF WaitFor, CallerRecord
<1> QED BY <1>1, <1>2, <1>3 DEF NotCalling

-------------------------------------------------------------------------------
(* One build for each generation: a new one is begun only when the slot is empty *)
(* or has a build that a rebuild has outdated.                                   *)
Continues(b) == b \in Builders /\ caller'[b].gen = caller[b].gen

LEMMA EnterBuilds ==
  ASSUME RInv, NEW c \in Callers, Enter(c)
  PROVE  \/ \A b \in Builders' : Continues(b)
         \/ /\ \A b \in Builders' \ {c} : Continues(b)
            /\ caller'[c].gen = registryGen /\ \A b \in Builders : caller[b].gen # registryGen
<1>1. caller \in [Callers -> CallerRecord] /\ caller[c].pc = "enter" BY DEF RInv, CallerType, Enter
<1>2. CASE registryVal # NoChain
  <2>1. caller' = [caller EXCEPT ![c] = NotCalling] BY <1>2 DEF Enter
  <2> QED BY <1>1, <2>1 DEF Builders, Continues, NotCalling
<1>3. CASE registryVal = NoChain /\ registryFlight # NoFlight /\ caller[registryFlight].gen = registryGen
  <2>1. caller' = [caller EXCEPT ![c].pc = "wait", ![c].gen = registryGen] BY <1>3 DEF Enter
  <2> QED BY <1>1, <2>1 DEF Builders, Continues, CallerRecord
<1>4. CASE registryVal = NoChain /\ ~(registryFlight # NoFlight /\ caller[registryFlight].gen = registryGen)
  <2>1. caller' = [caller EXCEPT ![c].pc = "read", ![c].gen = registryGen, ![c].chain = Unread] BY <1>4 DEF Enter
  <2>2. caller'[c].gen = registryGen /\ \A b \in Callers \ {c} : caller'[b] = caller[b]
    BY <1>1, <2>1 DEF CallerRecord
  <2>3. \A b \in Builders' \ {c} : Continues(b) BY <2>2 DEF Builders, Continues
  <2>4. \A b \in Builders : caller[b].gen # registryGen
    BY <1>4, RegistryAssumption DEF RInv, SlotIsCurrent, Builders
  <2> QED BY <2>2, <2>3, <2>4
<1> QED BY <1>2, <1>3, <1>4

LEMMA SharingKeeps == ASSUME RInv, BuildsAreShared, [RegistryNext]_registryVars PROVE BuildsAreShared'
<1>1. caller \in [Callers -> CallerRecord] BY DEF RInv, CallerType
<1>2. ASSUME \A b \in Builders' : Continues(b) PROVE BuildsAreShared' BY <1>2 DEF BuildsAreShared, Continues
<1>3. CASE SaveSources \/ TTLPasses \/ UNCHANGED registryVars
  BY <1>2, <1>3 DEF SaveSources, TTLPasses, registryVars, Builders, Continues
<1>4. ASSUME NEW c \in Callers, CallRegistry(c) \/ RebuildEngine(c) PROVE BuildsAreShared'
  BY <1>1, <1>2, <1>4 DEF CallRegistry, RebuildEngine, NotCalling, Builders, Continues
<1>5. ASSUME NEW c \in Callers, Enter(c) PROVE BuildsAreShared'
  <2>1. CASE \A b \in Builders' : Continues(b) BY <1>2, <2>1
  <2>2. CASE /\ \A b \in Builders' \ {c} : Continues(b)
             /\ caller'[c].gen = registryGen /\ \A b \in Builders : caller[b].gen # registryGen
    BY <2>2 DEF BuildsAreShared, Continues
  <2> QED BY <1>5, <2>1, <2>2, EnterBuilds
<1>6. ASSUME NEW c \in Callers, (\E s \in Switches : ReadSetting(c, s)) \/ Assemble(c) PROVE BuildsAreShared'
  BY <1>2, <1>6, BuildStep DEF Builders, Continues
<1>7. ASSUME NEW c \in Callers, Publish(c) \/ BuildPanics(c) PROVE BuildsAreShared'
  BY <1>2, <1>7, EndStep DEF Builders, Continues
<1>8. ASSUME NEW c \in Callers, Woken(c) PROVE BuildsAreShared'
  <2>1. \A d \in Callers : caller'[d] = caller[d] \/ caller'[d].pc \in {"idle", "enter"}
    BY <1>1, <1>8 DEF Woken, NotCalling, CallerRecord
  <2> QED BY <1>2, <2>1 DEF Builders, Continues
<1> QED BY <1>3, <1>4, <1>5, <1>6, <1>7, <1>8 DEF RegistryNext, GoesOn

LEMMA RInvTyped == RInv => RegistryTypeOK
BY DEF RInv, RegistryTypeOK, SharedType, ChainType, CallerType, CallerRecord, Holds

(* In every reachable state the registry is well typed, and no two builds of   *)
(* one generation run at once, for any number of callers, saves, rebuilds,     *)
(* failed reads and panics (scanner_service.go, buildRegistry).                *)
THEOREM BuildsShared == RegistrySpec => []RegistrySound
<1>1. RegistryInit => RInv BY Initially
<1>2. RegistryInit => BuildsAreShared BY DEF RegistryInit, BuildsAreShared, Builders, NotCalling
<1>3. RInv /\ BuildsAreShared /\ [RegistryNext]_registryVars => RInv' /\ BuildsAreShared'
  BY StepKeeps, SharingKeeps
<1>4. RInv /\ BuildsAreShared => RegistrySound BY RInvTyped DEF RegistrySound
<1> QED BY <1>1, <1>2, <1>3, <1>4, PTL DEF RegistrySpec

-------------------------------------------------------------------------------
(* The refinement: what a caller gets is new enough for its call, and nothing   *)
(* else of a step shows outside.                                                *)
Asking == {c \in Callers : caller[c].pc # "idle"}

LEMMA InitRefines == RegistryInit => Promised!FreshInit
BY DEF RegistryInit, Promised!FreshInit, NotCalling, Defaults

(* A step that leaves the history and who asks alone is one of the inside.      *)
LEMMA Inside ==
  ASSUME UNCHANGED <<current, rebuilt, faulted, floor, supplied>>, Asking' = Asking
  PROVE  UNCHANGED Promised!fresh
BY DEF Promised!fresh, Asking

(* A return of a chain that is new enough.                                      *)
LEMMA ReturnRefines ==
  ASSUME RInv, NEW c \in Asking, NEW chain \in Chains, NoOlder(chain, floor[c]),
         Asking' = Asking \ {c}, supplied' = [supplied EXCEPT ![c] = chain],
         UNCHANGED <<current, rebuilt, faulted, floor>>
  PROVE  Promised!Gets(c)
<1>1. \A s \in Switches : chain[s] <= current /\ (faulted \/ chain[s] >= floor[c])
  BY DEF Chains, NoOlder, RInv, SharedType
<1>2. Promised!Fresh(c, chain) BY <1>1 DEF Promised!Fresh
<1> QED BY <1>2 DEF Promised!Gets, Asking, Chains

LEMMA CallRefines == ASSUME RInv, NEW c \in Callers, CallRegistry(c) \/ RebuildEngine(c) PROVE Promised!Calls(c)
<1>1. Asking' = Asking \cup {c} /\ c \notin Asking
  BY DEF RInv, CallerType, CallRegistry, RebuildEngine, NotCalling, Asking
<1> QED BY <1>1 DEF Promised!Calls, CallRegistry, RebuildEngine, Asking

LEMMA EnterRefines == ASSUME RInv, NEW c \in Callers, Enter(c) PROVE Promised!Gets(c) \/ UNCHANGED Promised!fresh
<1>1. caller \in [Callers -> CallerRecord] /\ caller[c].pc = "enter" BY DEF RInv, CallerType, Enter
<1>2. CASE registryVal # NoChain
  <2>1. /\ caller' = [caller EXCEPT ![c] = NotCalling] /\ supplied' = [supplied EXCEPT ![c] = registryVal]
        /\ UNCHANGED <<current, rebuilt, faulted, floor>>
    BY <1>2 DEF Enter, Returns
  <2>2. c \in Asking /\ Asking' = Asking \ {c} BY <1>1, <2>1 DEF Asking, NotCalling
  <2>3. registryVal \in Chains BY <1>2 DEF RInv, ChainType
  <2>4. NoOlder(registryVal, floor[c])
    <3>1. NoOlder(registryVal, rebuilt) BY <1>2 DEF RInv, ValuesServe
    <3>2. floor[c] <= rebuilt /\ floor[c] \in Nat /\ rebuilt \in Nat /\ current \in Nat BY DEF RInv, FloorType, SharedType
    <3>3. \A s \in Switches : registryVal[s] \in 0..current BY <2>3 DEF Chains
    <3> QED BY <3>1, <3>2, <3>3 DEF NoOlder
  <2> QED BY <2>1, <2>2, <2>3, <2>4, ReturnRefines
<1>3. CASE registryVal = NoChain
  <2>1. /\ UNCHANGED <<current, rebuilt, faulted, floor, supplied>>
        /\ \/ caller' = [caller EXCEPT ![c].pc = "wait", ![c].gen = registryGen]
           \/ caller' = [caller EXCEPT ![c].pc = "read", ![c].gen = registryGen, ![c].chain = Unread]
    BY <1>3 DEF Enter
  <2>2. Asking' = Asking BY <1>1, <2>1 DEF Asking, CallerRecord
  <2> QED BY <2>1, <2>2, Inside
<1> QED BY <1>2, <1>3

LEMMA BuildRefines ==
  ASSUME RInv, NEW c \in Callers, (\E s \in Switches : ReadSetting(c, s)) \/ Assemble(c)
  PROVE  Promised!ReadFails \/ UNCHANGED Promised!fresh
<1>1. caller \in [Callers -> CallerRecord] BY DEF RInv, CallerType
<1>2. /\ UNCHANGED <<current, rebuilt, floor, supplied>> /\ (faulted' = faulted \/ faulted' = TRUE)
  BY DEF ReadSetting, Assemble
<1>3. Asking' = Asking BY BuildStep DEF Asking, Builders
<1>4. CASE faulted' = faulted BY <1>2, <1>3, <1>4, Inside
<1>5. CASE faulted' = TRUE BY <1>2, <1>3, <1>5 DEF Promised!ReadFails, Asking
<1> QED BY <1>2, <1>4, <1>5

(* Who waits for a build asks before and after it.                              *)
LEMMA EndAsks ==
  ASSUME RInv, NEW c \in Callers, Publish(c) \/ BuildPanics(c)
  PROVE  c \in Asking /\ Asking' = Asking \ {c}
BY EndStep DEF Asking

LEMMA EndRefines ==
  ASSUME RInv, NEW c \in Callers
  PROVE  /\ Publish(c) => Promised!Gets(c)
         /\ BuildPanics(c) => Promised!Panics(c)
<1>1. ASSUME Publish(c) PROVE Promised!Gets(c)
  <2>1. caller[c].chain \in Chains /\ c \in Builders /\ caller[c].pc = "publish"
    BY <1>1 DEF Publish, RInv, Holds, Builders
  <2>2. Supports(c, floor[c]) BY <2>1 DEF RInv, BuildsServe
  <2>3. NoOlder(caller[c].chain, floor[c]) BY <2>1, <2>2 DEF Supports, NoOlder
  <2>4. supplied' = [supplied EXCEPT ![c] = caller[c].chain] /\ UNCHANGED <<current, rebuilt, faulted, floor>>
    BY <1>1 DEF Publish, Returns
  <2> QED BY <1>1, <2>1, <2>3, <2>4, EndAsks, ReturnRefines
<1>2. ASSUME BuildPanics(c) PROVE Promised!Panics(c)
  <2>1. c \in Asking /\ Asking' = Asking \ {c} BY <1>2, EndAsks
  <2> QED BY <1>2, <2>1 DEF BuildPanics, Promised!Panics, Asking
<1> QED BY <1>1, <1>2

LEMMA WokenRefines == ASSUME RInv, NEW c \in Callers, Woken(c) PROVE Promised!Gets(c) \/ UNCHANGED Promised!fresh
<1>1. caller \in [Callers -> CallerRecord] /\ caller[c].pc = "woken" /\ caller[c].chain \in Chains \cup {NoChain}
  BY DEF RInv, CallerType, Woken, Holds
<1>2. UNCHANGED <<current, rebuilt, faulted, floor>> BY DEF Woken
<1>3. CASE caller[c].chain = NoChain
  <2>1. caller' = [caller EXCEPT ![c].pc = "enter"] /\ supplied' = supplied BY <1>3 DEF Woken
  <2>2. Asking' = Asking BY <1>1, <2>1 DEF Asking, CallerRecord
  <2> QED BY <1>2, <2>1, <2>2, Inside
<1>4. CASE caller[c].chain # NoChain
  <2>1. caller' = [caller EXCEPT ![c] = NotCalling] /\ supplied' = [supplied EXCEPT ![c] = caller[c].chain]
    BY <1>4 DEF Woken, Returns
  <2>2. c \in Asking /\ Asking' = Asking \ {c} BY <1>1, <2>1 DEF Asking, NotCalling
  <2>3. NoOlder(caller[c].chain, floor[c]) BY <1>1, <1>4 DEF RInv, ValuesServe
  <2> QED BY <1>1, <1>2, <1>4, <2>1, <2>2, <2>3, ReturnRefines
<1> QED BY <1>3, <1>4

LEMMA StepRefines ==
  ASSUME RInv, [RegistryNext]_registryVars PROVE [Promised!FreshNext]_(Promised!fresh)
<1>1. CASE UNCHANGED registryVars BY <1>1 DEF registryVars, Promised!fresh
<1>2. CASE SaveSources
  BY <1>2 DEF SaveSources, Promised!FreshNext, Promised!SettingsSaved
<1>3. CASE TTLPasses BY <1>3 DEF TTLPasses, Promised!fresh
<1>4. ASSUME NEW c \in Callers, CallRegistry(c) \/ RebuildEngine(c) \/ GoesOn(c) \/ BuildPanics(c)
      PROVE  [Promised!FreshNext]_(Promised!fresh)
  BY <1>4, CallRefines, EnterRefines, BuildRefines, EndRefines, WokenRefines DEF GoesOn, Promised!FreshNext
<1> QED BY <1>1, <1>2, <1>3, <1>4 DEF RegistryNext

(* Every behaviour of the registry is one that FreshRegistry allows, but for    *)
(* its liveness: no caller gets a chain older than the last rebuild before its  *)
(* call unless a read of the settings has failed (buildRegistry, rebuildEngine).*)
THEOREM KeepsTheSafePromise == RegistrySpec => Promised!FreshSafety
<1>1. RegistryInit => RInv /\ Promised!FreshInit BY Initially, InitRefines
<1>2. RInv /\ [RegistryNext]_registryVars => RInv' BY StepKeeps
<1>3. RInv /\ [RegistryNext]_registryVars => [Promised!FreshNext]_(Promised!fresh) BY StepRefines
<1> QED BY <1>1, <1>2, <1>3, PTL DEF RegistrySpec, Promised!FreshSafety
================================================================================
