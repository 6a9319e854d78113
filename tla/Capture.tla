------------------------------ MODULE Capture -------------------------------
(***************************************************************************)
(* Stopping and restarting the containers that write to a backup source    *)
(* (internal/backup/capture.go, capture_journals.go and ApplyRestore in    *)
(* capture_restore.go).  A journal on disk records the intent before each  *)
(* docker stop; a later recovery compensates what a failure or the death   *)
(* of the process left behind.                                             *)
(*                                                                         *)
(* Docker is modelled from how it is used: a stop goes on in the daemon    *)
(* after its client is killed, a start of a running container succeeds     *)
(* without waiting for such a stop.  Backup and restore jobs own the host, *)
(* so there is one operation at a time.  One that finds a journal must     *)
(* clear it first, so there is one journal at a time.                      *)
(***************************************************************************)
EXTENDS Naturals

CONSTANTS
    Writers,      \* containers
    NoWriter,     \* not a container
    NoJournal,    \* no journal on disk
    MaxFailures,  \* bound on failed Docker and file operations
    MaxCrashes    \* bound on deaths of the process

VARIABLES
    status,      \* state of each container
    stopping,    \* containers with a stop outstanding in the daemon
    disk,        \* the journal on disk, or NoJournal
    mem,         \* the journal in memory
    op,          \* the operation under way
    pc,          \* its next step
    cur,         \* the writer it is working on
    todo,        \* the writers it has yet to work on
    recovering,  \* resume was called by Recover
    failed,      \* resume met a failure
    again,       \* the deferred resume of Prepare is still to come
    recoveryError,  \* the service admits no capture and no restore
    dirty,       \* restored data is incomplete
    prepared,    \* the helper keeps the restore's rollback records
    wanted,      \* history: containers nobody meant to leave stopped
    unrecorded,  \* history: writers whose stop intent could not be saved
    failures, crashes

docker == <<status, stopping>>
run == <<op, cur, todo, recovering, failed, again>>
data == <<dirty, prepared, wanted, unrecorded>>
vars == <<docker, disk, mem, pc, run, data, recoveryError, failures, crashes>>

Phases == {"planned", "stop_requested", "stopped", "resumed"}
Journal == [writers : SUBSET Writers, phases : [Writers -> Phases], hold : BOOLEAN]
Ops == {"capture", "restore", "restore_stopped"}

ASSUME CaptureAssumption ==
    /\ NoWriter \notin Writers /\ NoJournal \notin Journal
    /\ MaxFailures \in Nat /\ MaxCrashes \in Nat

newStopJournal(writers) ==
    [writers |-> writers, phases |-> [w \in Writers |-> "planned"], hold |-> FALSE]

WithPhase(journal, w, phase) == [journal EXCEPT !.phases[w] = phase]

(* The writers resume does not pass over. *)
Unfinished(journal) ==
    {w \in journal.writers : journal.phases[w] \in {"stop_requested", "stopped"}}

Init ==
    /\ status \in [Writers -> {"running", "stopped"}]
    /\ stopping = {}
    /\ disk = NoJournal
    /\ mem = newStopJournal({})
    /\ op = "capture" /\ pc = "idle" /\ cur = NoWriter /\ todo = {}
    /\ recovering = FALSE /\ failed = FALSE /\ again = FALSE
    /\ recoveryError = FALSE /\ dirty = FALSE /\ prepared = FALSE
    /\ wanted = {w \in Writers : status[w] = "running"}
    /\ unrecorded = {}
    /\ failures = 0 /\ crashes = 0

-----------------------------------------------------------------------------
(* Faults and files.  A failed atomic write may still have replaced the     *)
(* file, when only the last sync failed.                                    *)

Fault == failures < MaxFailures /\ failures' = failures + 1

saveStopJournal(journal) == disk' = journal /\ UNCHANGED failures
SaveFails(journal) == Fault /\ disk' \in {disk, journal}

-----------------------------------------------------------------------------
(* The Docker daemon, and an operator who removes a stopped container.      *)

DaemonStops(w) ==
    /\ w \in stopping
    /\ stopping' = stopping \ {w}
    /\ status' = [status EXCEPT ![w] = IF @ = "running" THEN "stopped" ELSE @]
    /\ UNCHANGED <<disk, mem, pc, run, data, recoveryError, failures, crashes>>

RemoveContainer(w) ==
    /\ status[w] = "stopped" /\ w \notin stopping
    /\ status' = [status EXCEPT ![w] = "missing"]
    /\ UNCHANGED <<stopping, disk, mem, pc, run, data, recoveryError, failures, crashes>>

-----------------------------------------------------------------------------
(* resume: restart the writers of a journal, fencing a stop that was not    *)
(* seen to complete.                                                        *)

BeginResume(journal) ==
    /\ mem' = journal
    /\ pc' = "resume"
    /\ todo' = Unfinished(journal)
    /\ failed' = FALSE
    /\ cur' = NoWriter

NextWriter(failure) ==
    /\ pc' = "resume"
    /\ todo' = todo \ {cur}
    /\ cur' = NoWriter
    /\ failed' = (failed \/ failure)
    /\ UNCHANGED <<op, recovering, again>>

(* Mutation: a stop that was only requested is not fenced. *)
ResumeWriterUnfenced(w) ==
    /\ pc = "resume" /\ w \in todo
    /\ cur' = w
    /\ pc' = "start"
    /\ UNCHANGED <<docker, disk, mem, op, todo, recovering, failed, again, data, recoveryError, failures, crashes>>

ResumeWriter(w) ==
    /\ pc = "resume" /\ w \in todo
    /\ cur' = w
    /\ IF mem.phases[w] = "stopped"
       THEN pc' = "start" /\ UNCHANGED stopping
       ELSE /\ pc' = "fence"
            /\ stopping' = IF status[w] = "missing" THEN stopping ELSE stopping \cup {w}
    /\ UNCHANGED <<status, disk, mem, op, todo, recovering, failed, again, data, recoveryError, failures, crashes>>

FenceReturns ==
    /\ pc = "fence" /\ cur \notin stopping /\ status[cur] # "missing"
    /\ pc' = "start"
    /\ UNCHANGED <<docker, disk, mem, run, data, recoveryError, failures, crashes>>

FenceFails ==
    /\ pc = "fence"
    /\ IF status[cur] = "missing" THEN UNCHANGED failures ELSE Fault
    /\ NextWriter(TRUE)
    /\ UNCHANGED <<docker, disk, mem, data, recoveryError, crashes>>

StartWriter ==
    /\ pc = "start" /\ status[cur] # "missing"
    /\ status' = [status EXCEPT ![cur] = "running"]
    /\ mem' = WithPhase(mem, cur, "resumed")
    /\ \/ saveStopJournal(mem') /\ NextWriter(FALSE)
       \/ SaveFails(mem') /\ NextWriter(TRUE)
    /\ unrecorded' = unrecorded \ {cur}
    /\ UNCHANGED <<stopping, dirty, prepared, wanted, recoveryError, crashes>>

StartFails ==
    /\ pc = "start"
    /\ IF status[cur] = "missing"
       THEN UNCHANGED <<status, failures>>
       ELSE Fault /\ status' \in {status, [status EXCEPT ![cur] = "running"]}
    /\ NextWriter(TRUE)
    /\ UNCHANGED <<stopping, disk, mem, data, recoveryError, crashes>>

(* What follows a resume.  Recover goes on to the operation that called it; *)
(* the deferred functions of Prepare and ApplyRestore retry a failed resume *)
(* and release the prepared restores.  Startup and a resolution that went   *)
(* well say whether work may be admitted; a failed operation that leaves a  *)
(* journal stops it.                                                        *)
ResumeReturns(failure) ==
    /\ IF recovering
       THEN /\ pc' = IF ~failure /\ op \in Ops THEN "plan" ELSE "idle"
            /\ UNCHANGED <<mem, run, prepared>>
       ELSE IF failure /\ again
       THEN /\ BeginResume(mem)
            /\ again' = FALSE
            /\ UNCHANGED <<op, recovering, prepared>>
       ELSE /\ pc' = "idle"
            /\ prepared' = (prepared /\ op = "capture")
            /\ UNCHANGED <<mem, run>>
    /\ recoveryError' = CASE op = "startup" -> failure
                          [] op = "retry" -> failure /\ recoveryError
                          [] OTHER -> recoveryError \/ (failure /\ pc' = "idle" /\ disk' # NoJournal)

removeJournal ==
    /\ pc = "resume" /\ todo = {} /\ ~failed
    /\ \/ disk' = NoJournal /\ UNCHANGED failures /\ ResumeReturns(FALSE)
       \/ Fault /\ disk' \in {disk, NoJournal} /\ ResumeReturns(TRUE)
    /\ UNCHANGED <<docker, dirty, wanted, unrecorded, crashes>>

RetainJournal ==
    /\ pc = "resume" /\ todo = {} /\ failed
    /\ UNCHANGED disk
    /\ ResumeReturns(TRUE)
    /\ UNCHANGED <<docker, dirty, wanted, unrecorded, failures, crashes>>

-----------------------------------------------------------------------------
(* Starting an operation, if the service admits it: Recover first.  A held  *)
(* journal refuses it.                                                      *)

Begin(o) ==
    /\ pc = "idle"
    /\ o \in Ops => ~recoveryError
    /\ op' = o
    /\ IF disk = NoJournal
       THEN /\ o \in Ops
            /\ pc' = "plan"
            /\ UNCHANGED <<mem, cur, todo, recovering, failed>>
       ELSE /\ ~disk.hold
            /\ BeginResume(disk)
            /\ recovering' = TRUE
    /\ again' = FALSE
    /\ UNCHANGED <<docker, disk, data, recoveryError, failures, crashes>>

(* Mutation: Recover restarts the writers of a held journal. *)
RestartHeld ==
    /\ pc = "down"
    /\ op' = "startup"
    /\ IF disk = NoJournal
       THEN pc' = "idle" /\ UNCHANGED <<mem, cur, todo, recovering, failed>>
       ELSE BeginResume(disk) /\ recovering' = TRUE
    /\ recoveryError' = (disk # NoJournal)
    /\ UNCHANGED <<docker, disk, again, data, failures, crashes>>

(* Mutation: startup does not recover. *)
RestartIdle ==
    /\ pc = "down"
    /\ op' = "startup"
    /\ pc' = "idle"
    /\ recoveryError' = (disk # NoJournal)
    /\ UNCHANGED <<docker, disk, mem, cur, todo, recovering, failed, again, data, failures, crashes>>

Restart ==
    /\ pc = "down"
    /\ op' = "startup"
    /\ IF disk = NoJournal \/ disk.hold
       THEN pc' = "idle" /\ UNCHANGED <<mem, cur, todo, recovering, failed>>
       ELSE BeginResume(disk) /\ recovering' = TRUE
    /\ recoveryError' = (disk # NoJournal)
    /\ UNCHANGED <<docker, disk, again, data, failures, crashes>>

uniqueRunningWriters(selected) == {w \in selected : status[w] = "running"}

Plan(selected) ==
    LET writers == uniqueRunningWriters(selected)
    IN  /\ pc = "plan"
        /\ op = "capture" => writers # {}
        /\ mem' = newStopJournal(writers)
        /\ \/ /\ saveStopJournal(mem')
              /\ pc' = "stop" /\ todo' = writers
              /\ prepared' = (prepared \/ op # "capture")
              /\ UNCHANGED recoveryError
           \/ /\ SaveFails(mem')
              /\ pc' = "idle"
              /\ recoveryError' = (disk' # NoJournal)
              /\ UNCHANGED <<todo, prepared>>
        /\ recovering' = FALSE
        /\ UNCHANGED <<docker, op, cur, failed, again, dirty, wanted, unrecorded, crashes>>

(* Nothing to stop, a preview or a preflight that fails. *)
PlanEnds ==
    /\ pc = "plan"
    /\ pc' = "idle"
    /\ UNCHANGED <<docker, disk, mem, run, data, recoveryError, failures, crashes>>

-----------------------------------------------------------------------------
(* stopJournalWriter: save the intent, stop, save the result.  Any error    *)
(* ends the operation with a resume.                                        *)

RequestStop(w) ==
    LET journal == WithPhase(mem, w, "stop_requested")
    IN  /\ pc = "stop" /\ w \in todo
        /\ \/ /\ saveStopJournal(journal)
              /\ mem' = journal /\ pc' = "issue" /\ cur' = w
              /\ UNCHANGED <<todo, failed, unrecorded>>
           \/ /\ SaveFails(journal) /\ BeginResume(journal)
              /\ unrecorded' = IF disk' = journal THEN unrecorded ELSE unrecorded \cup {w}
        /\ UNCHANGED <<docker, op, recovering, again, dirty, prepared, wanted, recoveryError, crashes>>

IssueStop ==
    /\ pc = "issue" /\ status[cur] # "missing"
    /\ stopping' = stopping \cup {cur}
    /\ pc' = "wait"
    /\ UNCHANGED <<status, disk, mem, run, data, recoveryError, failures, crashes>>

(* Mutation: the client does not wait for the container. *)
StopReturnsEarly ==
    LET journal == WithPhase(mem, cur, "stopped")
    IN  /\ pc = "wait"
        /\ saveStopJournal(journal)
        /\ mem' = journal /\ pc' = "stop" /\ todo' = todo \ {cur} /\ cur' = NoWriter
        /\ UNCHANGED <<docker, op, recovering, failed, again, data, recoveryError, crashes>>

StopReturns ==
    LET journal == WithPhase(mem, cur, "stopped")
    IN  /\ pc = "wait" /\ cur \notin stopping
        /\ \/ /\ saveStopJournal(journal)
              /\ mem' = journal /\ pc' = "stop" /\ todo' = todo \ {cur} /\ cur' = NoWriter
              /\ UNCHANGED failed
           \/ SaveFails(journal) /\ BeginResume(journal)
        /\ UNCHANGED <<docker, op, recovering, again, data, recoveryError, crashes>>

(* Cancelled before the request, refused, or timed out. *)
StopFails ==
    /\ pc \in {"issue", "wait"}
    /\ IF status[cur] = "missing" THEN UNCHANGED failures ELSE Fault
    /\ BeginResume(mem)
    /\ UNCHANGED <<docker, disk, op, recovering, again, data, recoveryError, crashes>>

-----------------------------------------------------------------------------
(* The work itself, once every writer is stopped. *)

CaptureBegins ==
    /\ pc = "stop" /\ todo = {} /\ op = "capture"
    /\ pc' = "work"
    /\ UNCHANGED <<docker, disk, mem, run, data, recoveryError, failures, crashes>>

CaptureEnds ==
    /\ pc = "work" /\ op = "capture"
    /\ \/ again' = TRUE /\ UNCHANGED failures
       \/ again' = FALSE /\ Fault
    /\ BeginResume(mem)
    /\ UNCHANGED <<docker, disk, op, recovering, data, recoveryError, crashes>>

(* HoldStopped is durable before the first write.  A failed recheck or a    *)
(* failed save resumes, with the hold taken back in memory.                 *)
HoldStopped ==
    LET journal == [mem EXCEPT !.hold = TRUE]
    IN  /\ pc = "stop" /\ todo = {} /\ op # "capture"
        /\ \/ /\ saveStopJournal(journal)
              /\ mem' = journal /\ pc' = "work" /\ dirty' = TRUE
              /\ UNCHANGED <<cur, todo, failed>>
           \/ SaveFails(journal) /\ BeginResume(mem) /\ UNCHANGED dirty
        /\ UNCHANGED <<docker, op, recovering, again, prepared, wanted, unrecorded, recoveryError, crashes>>

RestoreEnds ==
    /\ pc = "work" /\ op # "capture"
    /\ dirty' = FALSE
    /\ IF op = "restore"
       THEN /\ BeginResume([mem EXCEPT !.hold = FALSE])
            /\ UNCHANGED wanted
       ELSE /\ pc' = "remove"
            /\ wanted' = wanted \ mem.writers
            /\ UNCHANGED <<mem, cur, todo, failed>>
    /\ UNCHANGED <<docker, disk, op, recovering, again, prepared, unrecorded, recoveryError, failures, crashes>>

(* Mutation: a failed restore does not stop admission. *)
RestoreFailsQuiet ==
    /\ pc = "work" /\ op # "capture"
    /\ Fault
    /\ pc' = "idle"
    /\ UNCHANGED <<docker, disk, mem, run, data, recoveryError, crashes>>

RestoreFails ==
    /\ pc = "work" /\ op # "capture"
    /\ Fault
    /\ pc' = "idle"
    /\ recoveryError' = TRUE
    /\ UNCHANGED <<docker, disk, mem, run, data, crashes>>

RemoveWithoutResume ==
    /\ pc = "remove"
    /\ \/ disk' = NoJournal /\ UNCHANGED failures
       \/ Fault /\ disk' \in {disk, NoJournal}
    /\ pc' = "idle"
    /\ prepared' = FALSE
    /\ recoveryError' = (disk' # NoJournal)
    /\ UNCHANGED <<docker, mem, run, dirty, wanted, unrecorded, crashes>>

-----------------------------------------------------------------------------
(* An operator resolves a journal; the Recover that follows finds none. *)

AcknowledgeHold ==
    /\ pc = "idle" /\ disk # NoJournal /\ disk.hold
    /\ disk' = NoJournal
    /\ recoveryError' = FALSE
    /\ dirty' = FALSE
    /\ wanted' = wanted \ {w \in disk.writers : status[w] # "running"}
    /\ UNCHANGED <<docker, mem, pc, run, prepared, unrecorded, failures, crashes>>

AcknowledgeMissing ==
    /\ pc = "idle" /\ disk # NoJournal /\ ~disk.hold
    /\ Unfinished(disk) # {}
    /\ \A w \in Unfinished(disk) : status[w] = "missing"
    /\ disk' = NoJournal
    /\ recoveryError' = FALSE
    /\ UNCHANGED <<docker, mem, pc, run, data, failures, crashes>>

(* The process dies.  A docker start it was waiting for may still happen.   *)
Crash ==
    /\ pc # "down" /\ crashes < MaxCrashes
    /\ crashes' = crashes + 1
    /\ pc' = "down"
    /\ mem' = newStopJournal({})
    /\ cur' = NoWriter /\ todo' = {}
    /\ recovering' = FALSE /\ failed' = FALSE /\ again' = FALSE /\ recoveryError' = FALSE
    /\ \/ UNCHANGED status
       \/ /\ pc = "start" /\ status[cur] = "stopped"
          /\ status' = [status EXCEPT ![cur] = "running"]
    /\ UNCHANGED <<stopping, disk, op, data, failures>>

-----------------------------------------------------------------------------
ResumeStep ==
    \/ \E w \in Writers : ResumeWriter(w)
    \/ FenceReturns \/ FenceFails
    \/ StartWriter \/ StartFails
    \/ removeJournal \/ RetainJournal

OperationStep ==
    \/ \E selected \in SUBSET Writers : Plan(selected)
    \/ PlanEnds
    \/ \E w \in Writers : RequestStop(w)
    \/ IssueStop \/ StopReturns \/ StopFails
    \/ CaptureBegins \/ CaptureEnds
    \/ HoldStopped \/ RestoreEnds \/ RestoreFails \/ RemoveWithoutResume

Next ==
    \/ \E w \in Writers : DaemonStops(w) \/ RemoveContainer(w)
    \/ \E o \in Ops \cup {"retry"} : Begin(o)
    \/ ResumeStep
    \/ OperationStep
    \/ AcknowledgeHold \/ AcknowledgeMissing
    \/ Restart
    \/ Crash

Spec == Init /\ [][Next]_vars

(* Steps of an operation run under deadlines, the daemon's stop is bounded, *)
(* and systemd restarts the process.                                        *)
FairSpec ==
    /\ Spec
    /\ WF_vars(ResumeStep) /\ WF_vars(OperationStep) /\ WF_vars(Restart)
    /\ \A w \in Writers : WF_vars(DaemonStops(w))

-----------------------------------------------------------------------------
(* Properties. *)

(* Every variable keeps its type. *)
TypeOK ==
    /\ status \in [Writers -> {"running", "stopped", "missing"}]
    /\ stopping \subseteq Writers
    /\ disk \in Journal \cup {NoJournal}
    /\ mem \in Journal
    /\ op \in Ops \cup {"startup", "retry"}
    /\ pc \in {"down", "idle", "plan", "stop", "issue", "wait", "work", "remove",
               "resume", "fence", "start"}
    /\ cur \in Writers \cup {NoWriter}
    /\ todo \subseteq Writers
    /\ recovering \in BOOLEAN /\ failed \in BOOLEAN /\ again \in BOOLEAN
    /\ recoveryError \in BOOLEAN /\ dirty \in BOOLEAN /\ prepared \in BOOLEAN
    /\ wanted \subseteq Writers /\ unrecorded \subseteq Writers
    /\ failures \in 0..MaxFailures /\ crashes \in 0..MaxCrashes

(* A consistent capture and a restore work on quiet data: none of their     *)
(* writers runs, whatever earlier recoveries left in the daemon.            *)
WorkIsQuiet ==
    pc = "work" => \A w \in mem.writers : status[w] # "running"

(* A container somebody relies on is running with no stop on its way, or is *)
(* gone, or the journal on disk still says it has to be restarted.  So no   *)
(* crash, late stop, failed start or resolution loses a stopped service     *)
(* whose stop intent reached the disk.                                      *)
NoForgottenWriter ==
    \A w \in wanted \ unrecorded :
        \/ status[w] = "running" /\ w \notin stopping
        \/ status[w] = "missing"
        \/ disk # NoJournal /\ w \in Unfinished(disk)

(* Between operations, a journal on disk stops the admission of captures    *)
(* and restores until it is resolved, whichever operation, failed write or  *)
(* restart left it.                                                         *)
JournalBlocksWork ==
    pc = "idle" /\ disk # NoJournal => recoveryError

(* What the comment on Recover says: a failed restart keeps its journal and *)
(* prevents a new operation from proceeding.  So one that got past Recover  *)
(* finds every service that somebody relies on running.                     *)
FailedRestartBlocks ==
    pc = "plan" => \A w \in wanted : status[w] # "stopped"

(* Incompletely restored data keeps its writers down, its journal held on   *)
(* disk and its rollback records, until an operator acknowledges it.        *)
PartialRestoreHeld ==
    dirty => /\ prepared
             /\ disk # NoJournal /\ disk.hold
             /\ \A w \in disk.writers : status[w] # "running"

(* A container that was stopped before the operation, or that a restore was *)
(* told to leave stopped, is never started.                                 *)
StoppedStayStopped ==
    \A w \in Writers : w \notin wanted => status[w] # "running"

(* Every service stopped for an operation runs again, across crashes,       *)
(* unless it is held, removed, or a command of Docker or a write failed.    *)
WritersReturn ==
    \A w \in Writers : (status[w] = "stopped" /\ w \in wanted) ~>
        \/ status[w] # "stopped" \/ w \notin wanted
        \/ disk # NoJournal /\ disk.hold
        \/ failures > 0
=============================================================================
