----------------------------- MODULE SelfUpdate -----------------------------
(***************************************************************************)
(* The self-update of Stacklab: internal/selfupdate/service.go in the      *)
(* process of module Jobs, and cmd/stacklab-self-update-helper, a separate *)
(* root process that upgrades the package (which restarts Stacklab) and    *)
(* writes the job's row, its last event and a runtime record straight into *)
(* the database.  A poll in Stacklab turns the record into an audit entry  *)
(* and a notification.                                                     *)
(*                                                                         *)
(* The helper's progress writes repeat the row's state and are left out.   *)
(* An active helper is taken to be younger than the two-hour grace period  *)
(* of startup reconciliation.                                              *)
(***************************************************************************)
EXTENDS Jobs

VARIABLES
    applying,     \* jobs whose Apply call has saved its runtime record
    helper,       \* the helper process of each job
    runtime,      \* the self_update_runtime setting
    finalEvents,  \* jobs whose job_finished event is stored
    poll,         \* the record reconcilePendingResult is working on
    finalized     \* jobs audited and notified by the poll

suVars == <<applying, helper, runtime, finalEvents, poll, finalized>>
allVars == <<vars, suVars>>

Record == [job : Jobs \cup {NoJob}, pendingFinalize : BOOLEAN]
Empty == [job |-> NoJob, pendingFinalize |-> FALSE]
HelperPhases == {"none", "started", "running", "row", "event", "done", "dead"}
HelperAlive(j) == helper[j] \in {"started", "running", "row", "event"}

SUInit ==
    /\ Init
    /\ applying = {}
    /\ helper = [j \in Jobs |-> "none"]
    /\ runtime = Empty
    /\ finalEvents = {}
    /\ poll = Empty
    /\ finalized = {}

-----------------------------------------------------------------------------
(* Steps of the job service in this system: only StartHelper hands a job   *)
(* over, startup spares the jobs of live helpers, a terminal transition     *)
(* stores the row and the last event in one transaction, and what Apply and *)
(* the poll were doing dies with the process.                               *)

Within(A) ==
    /\ A
    /\ \A j \in Jobs : worker'[j] = "external" => worker[j] = "external"
    /\ \A j \in Jobs : HelperAlive(j) => j \notin pending'
    /\ finalEvents' = finalEvents \cup {j \in Jobs : Active(j) /\ jobState'[j] \in TerminalStates}
    /\ applying' = IF process' = "down" THEN {} ELSE applying
    /\ poll' = IF process' = "down" THEN Empty ELSE poll
    /\ UNCHANGED <<helper, runtime, finalized>>

-----------------------------------------------------------------------------
(* Apply: start the draining job, save the runtime record, start the        *)
(* helper.  A failure fails the job, and afterwards clears the record.      *)

SaveRuntime(j) ==
    /\ worker[j] = "running" /\ j \in selfUpdate \ applying
    /\ runtime' = [job |-> j, pendingFinalize |-> FALSE]
    /\ applying' = applying \cup {j}
    /\ UNCHANGED <<vars, helper, finalEvents, poll, finalized>>

StartHelper(j) ==
    /\ j \in applying
    /\ HandOff(j)
    /\ helper' = [helper EXCEPT ![j] = "started"]
    /\ applying' = applying \ {j}
    /\ UNCHANGED <<runtime, finalEvents, poll, finalized>>

ClearRuntime(j) ==
    /\ j \in applying /\ worker[j] \in {"exiting", "done"}
    /\ runtime' = Empty
    /\ applying' = applying \ {j}
    /\ UNCHANGED <<vars, helper, finalEvents, poll, finalized>>

-----------------------------------------------------------------------------
(* The helper.  UpdateJob overwrites the row whatever its state.  The row,  *)
(* the event and the runtime record are three transactions, and any of them *)
(* may be the helper's last.                                                *)

HelperLoad(j) ==
    /\ helper[j] = "started"
    /\ runtime' = [job |-> j, pendingFinalize |-> FALSE]
    /\ helper' = [helper EXCEPT ![j] = "running"]
    /\ UNCHANGED <<vars, applying, finalEvents, poll, finalized>>

(* finalizeFailure after a failed apt step or verification; success only    *)
(* after the service answered its health check.                             *)
HelperUpdateJob(j, outcome) ==
    /\ helper[j] = "running"
    /\ outcome = "succeeded" => process = "up"
    /\ jobState' = [jobState EXCEPT ![j] = outcome]
    /\ helper' = [helper EXCEPT ![j] = "row"]
    /\ UNCHANGED <<locks, tasks, jobStack, selfUpdate, startup, faults>>
    /\ UNCHANGED <<applying, runtime, finalEvents, poll, finalized>>

HelperPublishEvent(j) ==
    /\ helper[j] = "row"
    /\ finalEvents' = finalEvents \cup {j}
    /\ helper' = [helper EXCEPT ![j] = "event"]
    /\ UNCHANGED <<vars, applying, runtime, poll, finalized>>

(* Mutation: the record is saved before the last event. *)
HelperReportEarly(j) ==
    /\ helper[j] \in {"row", "event"}
    /\ runtime' = [job |-> j, pendingFinalize |-> TRUE]
    /\ UNCHANGED <<vars, helper, applying, finalEvents, poll, finalized>>

(* Mutation: the record is saved without the flag the poll looks for. *)
HelperSaveRuntimeUnflagged(j) ==
    /\ helper[j] = "event"
    /\ runtime' = [job |-> j, pendingFinalize |-> FALSE]
    /\ helper' = [helper EXCEPT ![j] = "done"]
    /\ UNCHANGED <<vars, applying, finalEvents, poll, finalized>>

HelperSaveRuntime(j) ==
    /\ helper[j] = "event"
    /\ runtime' = [job |-> j, pendingFinalize |-> TRUE]
    /\ helper' = [helper EXCEPT ![j] = "done"]
    /\ UNCHANGED <<vars, applying, finalEvents, poll, finalized>>

HelperDies(j) ==
    /\ HelperAlive(j)
    /\ helper' = [helper EXCEPT ![j] = "dead"]
    /\ UNCHANGED <<vars, applying, runtime, finalEvents, poll, finalized>>

-----------------------------------------------------------------------------
(* reconcilePendingResult: audit and notify, then write the record it       *)
(* loaded back without the pending flag.                                    *)

PollFinalize ==
    /\ process = "up" /\ poll = Empty /\ runtime.pendingFinalize
    /\ poll' = runtime
    /\ finalized' = finalized \cup {runtime.job}
    /\ UNCHANGED <<vars, applying, helper, runtime, finalEvents>>

PollSave ==
    /\ process = "up" /\ poll # Empty
    /\ runtime' = [poll EXCEPT !.pendingFinalize = FALSE]
    /\ poll' = Empty
    /\ UNCHANGED <<vars, applying, helper, finalEvents, finalized>>

-----------------------------------------------------------------------------
HelperStep(j) ==
    \/ HelperLoad(j)
    \/ \E outcome \in {"succeeded", "failed"} : HelperUpdateJob(j, outcome)
    \/ HelperPublishEvent(j)
    \/ HelperSaveRuntime(j)

ApplyStep(j) == SaveRuntime(j) \/ StartHelper(j) \/ ClearRuntime(j)

PollStep == PollFinalize \/ PollSave

SUNext ==
    \/ Within(Next)
    \/ \E j \in Jobs : ApplyStep(j) \/ HelperStep(j) \/ HelperDies(j)
    \/ PollStep

SUSpec == SUInit /\ [][SUNext]_allVars

(* Every job runs under a deadline and every goroutine is scheduled, so     *)
(* workers finish; the poll ticks and a helper that lives goes on.  The     *)
(* unit restarts a failed process, and a stopped one is taken to be started *)
(* again.  Nothing makes the process exit.                                  *)
SUFairSpec ==
    /\ SUSpec
    /\ WF_allVars(Within(StartupStep))
    /\ WF_allVars(PollStep)
    /\ \A j \in Jobs :
          /\ WF_allVars(Within(WorkerStep(j))) /\ WF_allVars(Within(CancelStep(j)))
          /\ WF_allVars(ApplyStep(j))
          /\ WF_allVars(HelperStep(j))

-----------------------------------------------------------------------------
(* Properties. *)

(* Every variable of the self-update keeps its type. *)
SUTypeOK ==
    /\ applying \subseteq selfUpdate
    /\ helper \in [Jobs -> HelperPhases]
    /\ runtime \in Record /\ poll \in Record
    /\ finalEvents \subseteq Jobs
    /\ finalized \subseteq Jobs

(* Until Stacklab restarts, a live helper upgrades the package alone: the   *)
(* barrier its job installed still stands and no other job has a lease.     *)
HelperRunsAlone ==
    \A j \in Jobs : HelperAlive(j) /\ worker[j] = "external" =>
        /\ drainingJobID = j
        /\ \A k \in Jobs \ {j} : resourcesByJob[k] = {}

(* The poll audits and announces a self-update only once its row is         *)
(* terminal and its last event is stored, whoever died or restarted.        *)
FinalizedIsComplete ==
    \A j \in finalized : jobState[j] \in TerminalStates /\ j \in finalEvents

(* If the process stays up in the end, a result a helper reported is        *)
(* audited and its flag cleared, unless a later self-update takes the       *)
(* runtime record over.                                                     *)
ReportsSettle ==
    <>[](process = "up") =>
        \A j \in Jobs : (helper[j] = "done") ~>
            \/ j \in finalized /\ ~runtime.pendingFinalize
            \/ runtime.job # j

(* What the comment on StartDrainingWithWorkflow says of the barrier: it    *)
(* blocks new jobs until the drain job reaches a terminal state (or the     *)
(* process restarts, which clears it).                                      *)
DrainEndsWithJob ==
    \A j \in Jobs :
        (drainingJobID = j /\ jobState[j] \in TerminalStates) ~> (drainingJobID # j)
=============================================================================
