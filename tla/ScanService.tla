----------------------------- MODULE ScanService -----------------------------
(* The scan lifecycle of one library and the deletion of that library:      *)
(* ScannerService (src/internal/core/service/scanner_service.go) and the    *)
(* DELETE /libraries/{id} handler (src/internal/api/rest/library.go).       *)
(* Everything the service keeps is keyed by library id, so one library is   *)
(* enough.  Each action is one critical section of s.mu or one database or  *)
(* file-system call.                                                        *)
EXTENDS Naturals, FiniteSets

CONSTANTS
    Runs,      \* scanRun objects (reused once nothing points at them)
    Deletes,   \* HTTP requests that delete the library
    None,      \* no run
    MaxFiles,  \* bound: audio files a scan finds
    Faults     \* what may go wrong, see FaultKinds

(* "abort": a delete gives up waiting (timeout, client gone).  "db": the     *)
(* statement that deletes the library fails.  "engine": a scan cannot read   *)
(* the database.  "overlap": a delete may begin while another one of the     *)
(* same library is still at work.                                            *)
FaultKinds == {"abort", "db", "engine", "overlap"}

ASSUME ConstantsAssumption ==
    /\ None \notin Runs
    /\ MaxFiles \in Nat
    /\ Faults \subseteq FaultKinds

VARIABLES
    row,       \* does the library's database row exist?
    files,     \* are there covers or lyrics of the library on disk?
    deleting,  \* s.deleting[id]
    active,    \* s.activeScan[id]
    run,       \* the scan goroutines
    del        \* the delete requests

vars == <<row, files, deleting, active, run, del>>

RunPcs == {"over", "find", "create", "walk", "save", "tail",
           "finalize", "stats", "clear", "close"}
Outcomes == {"running", "completed", "failed", "cancelled"}
JobStates == Outcomes \cup {"none"}
DeletePcs == {"idle", "begin", "cancel", "wait", "row", "files", "end"}

RunRecord == [pc: RunPcs, cancelled: BOOLEAN, left: 0..MaxFiles,
              status: Outcomes, job: JobStates]
DeleteRecord == [pc: DeletePcs, run: Runs \cup {None}]

TypeOK ==
    /\ row \in BOOLEAN /\ files \in BOOLEAN /\ deleting \in BOOLEAN
    /\ active \in Runs \cup {None}
    /\ run \in [Runs -> RunRecord]
    /\ del \in [Deletes -> DeleteRecord]

Over == [pc |-> "over", cancelled |-> FALSE, left |-> 0,
         status |-> "running", job |-> "none"]

Init ==
    /\ row = TRUE /\ files \in BOOLEAN /\ deleting = FALSE
    /\ active = None
    /\ run = [r \in Runs |-> Over]
    /\ del = [d \in Deletes |-> [pc |-> "idle", run |-> None]]

Goto(r, pc) == run' = [run EXCEPT ![r].pc = pc]

-------------------------------------------------------------------------------
(* Starting a scan.  The handler checked the caller's role in the library    *)
(* before, so the row may be gone by now.  rebuildEngine runs under the same *)
(* lock and swaps s.engine, which the goroutine gets as a snapshot.          *)

(* A run object nothing refers to any more. *)
Fresh(r) == run[r].pc = "over" /\ active # r /\ \A d \in Deletes : del[d].run # r

(* Mutant: the deletion mark is not looked at. *)
StartScanUnmarked(r) ==
    /\ active = None
    /\ Fresh(r)
    /\ active' = r
    /\ \E n \in 0..MaxFiles :
          run' = [run EXCEPT ![r] = [Over EXCEPT !.pc = "find", !.left = n]]
    /\ UNCHANGED <<row, files, deleting, del>>

(* Mutant: a scan is started beside a running one. *)
StartScanTwice(r) ==
    /\ ~deleting
    /\ Fresh(r)
    /\ active' = r
    /\ \E n \in 0..MaxFiles :
          run' = [run EXCEPT ![r] = [Over EXCEPT !.pc = "find", !.left = n]]
    /\ UNCHANGED <<row, files, deleting, del>>

StartScan(r) ==
    /\ ~deleting
    /\ active = None
    /\ Fresh(r)
    /\ active' = r
    /\ \E n \in 0..MaxFiles :
          run' = [run EXCEPT ![r] = [Over EXCEPT !.pc = "find", !.left = n]]
    /\ UNCHANGED <<row, files, deleting, del>>

-------------------------------------------------------------------------------
(* runScan *)

(* FindByID succeeds only for a library that is there and a live context. *)
Find(r) ==
    /\ run[r].pc = "find"
    /\ row /\ ~run[r].cancelled
    /\ Goto(r, "create")
    /\ UNCHANGED <<row, files, deleting, active, del>>

(* The library is not found, or the read failed: setError. *)
FindFails(r) ==
    /\ run[r].pc = "find"
    /\ ~row \/ run[r].cancelled \/ "engine" \in Faults
    /\ run' = [run EXCEPT ![r] = [@ EXCEPT !.pc = "clear", !.status = "failed"]]
    /\ UNCHANGED <<row, files, deleting, active, del>>

(* The job row; the error of the insert is ignored. *)
CreateJob(r) ==
    /\ run[r].pc = "create"
    /\ run' = [run EXCEPT ![r] =
                 [@ EXCEPT !.pc = "walk",
                           !.job = IF row /\ ~run[r].cancelled THEN "running" ELSE "none"]]
    /\ UNCHANGED <<row, files, deleting, active, del>>

(* Mutant: one file too many. *)
NextFilePastEnd(r) ==
    /\ run[r].pc = "walk"
    /\ ~run[r].cancelled
    /\ Goto(r, "save")
    /\ UNCHANGED <<row, files, deleting, active, del>>

(* The walk looks at the context before every file ... *)
NextFile(r) ==
    /\ run[r].pc = "walk"
    /\ ~run[r].cancelled
    /\ run[r].left > 0
    /\ Goto(r, "save")
    /\ UNCHANGED <<row, files, deleting, active, del>>

(* ... and then stores its cover and lyrics before its track row, unless the *)
(* cancellation reaches the call in time or the file carries neither.        *)
SaveFile(r) ==
    /\ run[r].pc = "save"
    /\ run' = [run EXCEPT ![r] = [@ EXCEPT !.pc = "walk", !.left = run[r].left - 1]]
    /\ files' \in {files, TRUE}
    /\ UNCHANGED <<row, deleting, active, del>>

(* The cleanup phases end with a check of the context before the last one. *)
WalkEnds(r) ==
    /\ run[r].pc = "walk"
    /\ ~run[r].cancelled
    /\ run[r].left = 0
    /\ Goto(r, "tail")
    /\ UNCHANGED <<row, files, deleting, active, del>>

(* The engine returns ctx.Err(). *)
WalkCancelled(r) ==
    /\ run[r].pc = "walk"
    /\ run[r].cancelled
    /\ run' = [run EXCEPT ![r] = [@ EXCEPT !.pc = "finalize", !.status = "cancelled"]]
    /\ UNCHANGED <<row, files, deleting, active, del>>

(* The engine returns an error of its own (the tracks cannot be loaded). *)
WalkFails(r) ==
    /\ "engine" \in Faults
    /\ run[r].pc = "walk"
    /\ run' = [run EXCEPT ![r] = [@ EXCEPT !.pc = "finalize", !.status = "failed"]]
    /\ UNCHANGED <<row, files, deleting, active, del>>

(* The avatars, the last phase, can still write; no check follows. *)
RunTail(r) ==
    /\ run[r].pc = "tail"
    /\ run' = [run EXCEPT ![r] = [@ EXCEPT !.pc = "finalize", !.status = "completed"]]
    /\ UNCHANGED <<row, files, deleting, active, del>>

(* Mutant: the final state is written through the scan's own context. *)
FinalizeOnScanContext(r) ==
    /\ run[r].pc = "finalize"
    /\ run' = [run EXCEPT ![r] =
                 [@ EXCEPT !.pc = IF run[r].status = "cancelled" THEN "clear" ELSE "stats",
                           !.job = IF run[r].job = "running" /\ ~run[r].cancelled
                                     THEN run[r].status ELSE run[r].job]]
    /\ UNCHANGED <<row, files, deleting, active, del>>

(* The job row gets its final state through a fresh context.  (A database     *)
(* that stays away for that context's five seconds is not modelled.)         *)
Finalize(r) ==
    /\ run[r].pc = "finalize"
    /\ run' = [run EXCEPT ![r] =
                 [@ EXCEPT !.pc = IF run[r].status = "cancelled" THEN "clear" ELSE "stats",
                           !.job = IF run[r].job = "running" THEN run[r].status ELSE "none"]]
    /\ UNCHANGED <<row, files, deleting, active, del>>

(* Library statistics and the notification, not for a cancelled scan. *)
UpdateStats(r) ==
    /\ run[r].pc = "stats"
    /\ Goto(r, "clear")
    /\ UNCHANGED <<row, files, deleting, active, del>>

(* Mutant: the finished scan stays registered. *)
KeepActive(r) ==
    /\ run[r].pc = "clear"
    /\ Goto(r, "close")
    /\ UNCHANGED <<row, files, deleting, active, del>>

(* The deferred calls of runScan, last registered first. *)
ClearActive(r) ==
    /\ run[r].pc = "clear"
    /\ active' = IF active = r THEN None ELSE active
    /\ Goto(r, "close")
    /\ UNCHANGED <<row, files, deleting, del>>

CloseDone(r) ==
    /\ run[r].pc = "close"
    /\ Goto(r, "over")
    /\ UNCHANGED <<row, files, deleting, active, del>>

-------------------------------------------------------------------------------
(* LibraryHandler.Delete *)

Writing == {"create", "walk", "save", "tail", "finalize", "stats"}
DeleteGoto(d, pc) == del' = [del EXCEPT ![d].pc = pc]

(* The owner check finds the library. *)
Request(d) ==
    /\ del[d].pc = "idle"
    /\ row
    /\ "overlap" \in Faults \/ \A e \in Deletes : del[e].pc = "idle"
    /\ DeleteGoto(d, "begin")
    /\ UNCHANGED <<row, files, deleting, active, run>>

BeginLibraryDelete(d) ==
    /\ del[d].pc = "begin"
    /\ deleting' = TRUE
    /\ DeleteGoto(d, "cancel")
    /\ UNCHANGED <<row, files, active, run>>

(* Mutant: the scan is told to stop but not waited for. *)
CancelUnwaited(d) ==
    /\ del[d].pc = "cancel"
    /\ active # None
    /\ run' = [run EXCEPT ![active].cancelled = TRUE]
    /\ DeleteGoto(d, "row")
    /\ UNCHANGED <<row, files, deleting, active>>

(* CancelScan looks the scan up and cancels it in one critical section. *)
CancelScan(d) ==
    /\ del[d].pc = "cancel"
    /\ active # None
    /\ run' = [run EXCEPT ![active].cancelled = TRUE]
    /\ del' = [del EXCEPT ![d] = [pc |-> "wait", run |-> active]]
    /\ UNCHANGED <<row, files, deleting, active>>

NothingToCancel(d) ==
    /\ del[d].pc = "cancel"
    /\ active = None
    /\ DeleteGoto(d, "row")
    /\ UNCHANGED <<row, files, deleting, active, run>>

(* <-run.done *)
Stopped(d) ==
    /\ del[d].pc = "wait"
    /\ run[del[d].run].pc = "over"
    /\ del' = [del EXCEPT ![d] = [pc |-> "row", run |-> None]]
    /\ UNCHANGED <<row, files, deleting, active, run>>

(* Mutant: the abort path leaves the mark behind. *)
GiveUpMarked(d) ==
    /\ "abort" \in Faults
    /\ del[d].pc = "wait"
    /\ del' = [del EXCEPT ![d] = [pc |-> "idle", run |-> None]]
    /\ UNCHANGED <<row, files, deleting, active, run>>

(* scanCancelWait is over or the client has gone: 409. *)
GiveUp(d) ==
    /\ "abort" \in Faults
    /\ del[d].pc = "wait"
    /\ del' = [del EXCEPT ![d] = [pc |-> "end", run |-> None]]
    /\ UNCHANGED <<row, files, deleting, active, run>>

(* The row goes, and with it by cascade the tracks and the scan jobs.  The    *)
(* queues that named its tracks were rewritten just before.                  *)
DeleteRow(d) ==
    /\ del[d].pc = "row"
    /\ row' = FALSE
    /\ run' = [r \in Runs |-> [run[r] EXCEPT !.job = "none"]]
    /\ DeleteGoto(d, "files")
    /\ UNCHANGED <<files, deleting, active>>

(* 500: nothing of the rest is done. *)
DeleteRowFails(d) ==
    /\ "db" \in Faults
    /\ del[d].pc = "row"
    /\ DeleteGoto(d, "end")
    /\ UNCHANGED <<row, files, deleting, active, run>>

RemoveFiles(d) ==
    /\ del[d].pc = "files"
    /\ files' = FALSE
    /\ DeleteGoto(d, "end")
    /\ UNCHANGED <<row, deleting, active, run>>

(* Deferred: it runs on every way out. *)
EndLibraryDelete(d) ==
    /\ del[d].pc = "end"
    /\ deleting' = FALSE
    /\ DeleteGoto(d, "idle")
    /\ UNCHANGED <<row, files, active, run>>

-------------------------------------------------------------------------------
RunStep(r) ==
    \/ Find(r) \/ FindFails(r) \/ CreateJob(r) \/ NextFile(r) \/ SaveFile(r)
    \/ WalkEnds(r) \/ WalkCancelled(r) \/ WalkFails(r) \/ RunTail(r)
    \/ Finalize(r) \/ UpdateStats(r) \/ ClearActive(r) \/ CloseDone(r)

DeleteStep(d) ==
    \/ BeginLibraryDelete(d) \/ CancelScan(d) \/ NothingToCancel(d)
    \/ Stopped(d) \/ GiveUp(d) \/ DeleteRow(d) \/ DeleteRowFails(d)
    \/ RemoveFiles(d) \/ EndLibraryDelete(d)

Next ==
    \/ \E r \in Runs : StartScan(r) \/ RunStep(r)
    \/ \E d \in Deletes : Request(d) \/ DeleteStep(d)

Spec == Init /\ [][Next]_vars

(* An admitted delete keeps going: the wait for the scan is bounded by        *)
(* scanCancelWait.  Nothing is assumed of the scan, which may hang in a       *)
(* decoder or a metadata source.                                             *)
DeleteFairness == \A d \in Deletes : WF_vars(DeleteStep(d))

FairSpec == Spec /\ DeleteFairness

-------------------------------------------------------------------------------
(* Properties *)

(* "no scan can be started for them while teardown runs" (scanner_service.go  *)
(* 75-78): from the moment CancelScan has let a delete through until its      *)
(* files are gone, no scan goroutine of the library is at work.               *)
TeardownAlone ==
    \A d \in Deletes : del[d].pc \in {"row", "files"}
                          => \A r \in Runs : run[r].pc \in {"over", "close"}

(* A deleted library leaves nothing on disk, and no scan that was accepted    *)
(* around the deletion brings anything back.                                 *)
GoneForGood ==
    ~row /\ (\A d \in Deletes : del[d].pc # "files") => ~files

(* Every scan that can still write is the one activeScan names, so there is   *)
(* one at a time and CancelScan can find it.                                 *)
WritersAreTracked == \A r \in Runs : run[r].pc \in Writing => active = r

(* A scan, cancelled or not, does not leave a job behind that says "running"  *)
(* ("Finalize on a fresh context").                                          *)
JobsAreSettled ==
    \A r \in Runs : run[r].job = "running" => run[r].pc \in Writing

(* What makes a deletion final: it alone is at work, its mark keeps new scans *)
(* out, and once it was let through none of the old ones is left.            *)
TrackInv == \A r \in Runs : run[r].pc \in {"over", "close"} <=> active # r
SoleDelete == \A d, e \in Deletes : del[d].pc # "idle" /\ del[e].pc # "idle" => d = e
MarkInv == \A d \in Deletes : del[d].pc \notin {"idle", "begin"} => deleting
WaitInv == \A d \in Deletes :
    /\ del[d].pc = "wait" => del[d].run \in Runs /\ active \in {None, del[d].run}
    /\ del[d].pc \in {"row", "files"} => active = None
GoneInv == ~row => \A r \in Runs : run[r].pc \notin Writing
DeleteInv == SoleDelete /\ MarkInv /\ WaitInv /\ GoneInv /\ GoneForGood

(* A scan whose engine keeps going ends and frees the library for the next.  *)
ScanEnds == (\A r \in Runs : WF_vars(RunStep(r)))
                => \A r \in Runs : active = r ~> active # r

(* A delete is answered and does not lock the library out of scanning, even  *)
(* if the scan it waits for never stops.                                     *)
MarkIsLifted == deleting ~> ~deleting
=============================================================================
