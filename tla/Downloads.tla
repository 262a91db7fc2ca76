------------------------------- MODULE Downloads -------------------------------
(* Download jobs: internal/infrastructure/download, its repository and the     *)
(* REST handlers.  Every job has one goroutine, whose context Cancel cancels;  *)
(* all of its database calls use that context.  Files are named after the URL, *)
(* so two jobs may write the same one.                                         *)
EXTENDS Integers, FiniteSets

CONSTANTS
    Jobs,
    Targets,     \* file names
    NoJob,       \* a row that does not exist, a name not known yet
    MaxMishaps,  \* bound: cancels, failed writes, deleted libraries, stops
    OwnNames     \* TRUE: no two jobs have the same file name

Statuses == {"pending", "downloading", "failed", "processing", "completed"}

ASSUME DownloadsAssumption ==
    MaxMishaps \in Nat /\ OwnNames \in BOOLEAN /\ NoJob \notin Targets \cup Statuses

VARIABLES
    jobrow,    \* table download_jobs
    active,    \* Manager.active
    job,       \* the goroutines: where they stand and their copy of the row
    cut,       \* contexts that are cancelled
    saved,     \* the files: whose bytes they hold, and whether all of them
    mishaps,
    lostWrite, \* history: jobs one of whose writes was lost, or that a stop ended
    withdrawn  \* history: jobs cancelled before their completion was written

jobVars == <<jobrow, active, job, cut, saved, mishaps, lostWrite, withdrawn>>

FreshJob == [pc |-> "none", status |-> "pending", target |-> NoJob]
Ended(j) == job[j].pc = "ended"

DownloadsTypeOK ==
    /\ \A j \in Jobs : jobrow[j] \in Statuses \cup {NoJob} /\ job[j].status \in Statuses
    /\ active \subseteq Jobs /\ cut \subseteq Jobs
    /\ \A j \in Jobs : j \in active <=> job[j].pc \notin {"none", "started", "ended"}
    /\ \A t \in Targets : saved[t] = NoJob \/ (saved[t].by \in Jobs /\ saved[t].whole \in BOOLEAN)

DownloadsInit ==
    /\ jobrow = [j \in Jobs |-> NoJob] /\ job = [j \in Jobs |-> FreshJob]
    /\ active = {} /\ cut = {} /\ saved = [t \in Targets |-> NoJob]
    /\ mishaps = 0 /\ lostWrite = {} /\ withdrawn = {}

Mishap == mishaps < MaxMishaps /\ mishaps' = mishaps + 1

(* Create of the handler and CreateJob: the row, then the goroutine. *)
CreateJob(j) ==
    /\ job[j].pc = "none"
    /\ jobrow' = [jobrow EXCEPT ![j] = "pending"]
    /\ job' = [job EXCEPT ![j].pc = "started"]
    /\ UNCHANGED <<active, cut, saved, mishaps, lostWrite, withdrawn>>

Reaches(j) == j \notin cut

(* Update through the job's context: not written once that is cancelled, a row *)
(* that is gone is not written either, and errors are ignored.                 *)
UpdateRow(j, status) ==
    \/ /\ Reaches(j)
       /\ jobrow' = [jobrow EXCEPT ![j] = IF @ = NoJob THEN NoJob ELSE status]
       /\ UNCHANGED <<lostWrite, mishaps>>
    \/ ~Reaches(j) /\ UNCHANGED <<jobrow, lostWrite, mishaps>>
    \/ Reaches(j) /\ Mishap /\ lostWrite' = lostWrite \cup {j} /\ UNCHANGED jobrow

RegisterJob(j) ==
    /\ job[j].pc = "started"
    /\ active' = active \cup {j} /\ job' = [job EXCEPT ![j].pc = "find"]
    /\ UNCHANGED <<jobrow, cut, saved, mishaps, lostWrite, withdrawn>>

Leave(j) == active' = active \ {j} /\ job' = [job EXCEPT ![j].pc = "ended"]

(* FindByID: a job cancelled by now, or deleted, ends without a word. *)
FindJob(j) ==
    /\ job[j].pc = "find"
    /\ IF j \in cut \/ jobrow[j] = NoJob THEN Leave(j)
       ELSE job' = [job EXCEPT ![j] = [pc |-> "begin", status |-> jobrow[j], target |-> NoJob]] /\ UNCHANGED active
    /\ UNCHANGED <<jobrow, cut, saved, mishaps, lostWrite, withdrawn>>

BeginFetch(j) ==
    /\ job[j].pc = "begin" /\ UpdateRow(j, "downloading")
    /\ job' = [job EXCEPT ![j].pc = "fetch", ![j].status = "downloading"]
    /\ UNCHANGED <<active, cut, saved, withdrawn>>

(* Fetch: the URL and the answer name the file, which is truncated and filled. *)
NamesFor(j) == IF OwnNames THEN {t \in Targets : \A i \in Jobs \ {j} : job[i].target # t} ELSE Targets

CreateFile(j, t) ==
    /\ job[j].pc = "fetch" /\ Reaches(j) /\ t \in NamesFor(j)
    /\ saved' = [saved EXCEPT ![t] = [by |-> j, whole |-> FALSE]]
    /\ job' = [job EXCEPT ![j].pc = "copy", ![j].target = t]
    /\ UNCHANGED <<jobrow, active, cut, mishaps, lostWrite, withdrawn>>

CopyBody(j) ==
    /\ job[j].pc = "copy" /\ Reaches(j)
    /\ saved' = [saved EXCEPT ![job[j].target] = [by |-> j, whole |-> TRUE]]
    /\ job' = [job EXCEPT ![j].pc = "processing", ![j].status = "processing"]
    /\ UNCHANGED <<jobrow, active, cut, mishaps, lostWrite, withdrawn>>

(* A cancelled context or a bad answer: the file stays as it is. *)
FetchFails(j) ==
    /\ job[j].pc \in {"fetch", "copy"}
    /\ job' = [job EXCEPT ![j].pc = "failed", ![j].status = "failed"]
    /\ UNCHANGED <<jobrow, active, cut, saved, mishaps, lostWrite, withdrawn>>

(* The outcome, and the deferred removal from active. *)
Processing(j) ==
    /\ job[j].pc = "processing" /\ UpdateRow(j, "processing")
    /\ job' = [job EXCEPT ![j].pc = "complete"]
    /\ UNCHANGED <<active, cut, saved, withdrawn>>

(* Mutant: the error of Fetch is dropped. *)
NeverFails(j) == "completed"

Outcome(j) == IF job[j].pc = "failed" THEN "failed" ELSE "completed"

FinishJob(j) ==
    /\ job[j].pc \in {"failed", "complete"}
    /\ UpdateRow(j, Outcome(j)) /\ Leave(j)
    /\ UNCHANGED <<cut, saved, withdrawn>>

(* Cancel of the manager finds only who is in active. *)
Cancelled(j) == IF j \in active THEN cut \cup {j} ELSE cut

(* Cancel of the handler: the row must exist; who is not in active yet, or not *)
(* any more, goes on.  The answer is "cancelled" in every case.                *)
CancelJob(j) ==
    /\ jobrow[j] # NoJob /\ Mishap
    /\ cut' = Cancelled(j)
    /\ withdrawn' = IF j \in active THEN withdrawn \cup {j} ELSE withdrawn
    /\ UNCHANGED <<jobrow, active, job, saved, lostWrite>>

(* Deleting a library deletes its jobs' rows, but stops none of them. *)
LibraryGoes ==
    /\ Mishap /\ jobrow' = [j \in Jobs |-> NoJob]
    /\ UNCHANGED <<active, job, cut, saved, lostWrite, withdrawn>>

ManagerStops ==
    /\ Mishap /\ active' = {} /\ cut' = {}
    /\ lostWrite' = lostWrite \cup {j \in Jobs : job[j].pc \notin {"none", "ended"}}
    /\ job' = [j \in Jobs |-> IF job[j].pc = "none" THEN FreshJob ELSE [job[j] EXCEPT !.pc = "ended"]]
    /\ UNCHANGED <<jobrow, saved, withdrawn>>

DownloadsNext ==
    \/ \E j \in Jobs : \/ CreateJob(j) \/ RegisterJob(j) \/ FindJob(j) \/ BeginFetch(j) \/ CopyBody(j)
                       \/ FetchFails(j) \/ Processing(j) \/ FinishJob(j) \/ CancelJob(j)
                       \/ \E t \in Targets : CreateFile(j, t)
    \/ LibraryGoes \/ ManagerStops

DownloadsSpec == DownloadsInit /\ [][DownloadsNext]_jobVars

\* A job whose goroutine is over shows how it ended, unless it was cancelled, its
\* row deleted, a write of it lost or the server stopped: those keep the last
\* status for ever, "downloading" for most.
EndedIsSettled ==
    \A j \in Jobs : Ended(j) /\ jobrow[j] # NoJob /\ j \notin withdrawn \cup lostWrite
                        => jobrow[j] \in {"failed", "completed"}

\* A cancel that found the job running keeps it from being shown as completed or
\* failed, however far the download was.
CancelledIsNotCompleted == \A j \in withdrawn : jobrow[j] \notin {"failed", "completed"}

\* What is shown as completed is in its file whole, as long as no other job was
\* given the same name.
CompletedHasItsFile ==
    \A j \in Jobs : OwnNames /\ jobrow[j] = "completed"
                       => \E t \in Targets : job[j].target = t /\ saved[t] = [by |-> j, whole |-> TRUE]

\* The parts that hold, together, of a state that is well typed
\* (download/manager.go).
DownloadsSound == DownloadsTypeOK /\ EndedIsSettled /\ CancelledIsNotCompleted /\ CompletedHasItsFile
===============================================================================
