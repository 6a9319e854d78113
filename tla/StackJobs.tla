------------------------------ MODULE StackJobs ------------------------------
(***************************************************************************)
(* The jobs on one stack: create (and deploy), save, remove and the        *)
(* Compose actions, from the HTTP handler to the audit entry               *)
(* (internal/httpapi/stack_controller.go, internal/stacks/service.go).     *)
(* The row of a job, the job value its worker holds and the worker's       *)
(* workflow slice are three copies; cancellation, deadlines, shutdown,     *)
(* clients that leave and a restart fall between any two steps.            *)
(***************************************************************************)
EXTENDS StackStates, Sequences

CONSTANTS
  Jobs,       \* job slots
  Contents,   \* definitions (sets of service names)
  Actions,    \* Compose actions in play
  Removals,   \* step sequences of removal requests
  Deploys,    \* values of deploy_after_create
  NoJob,      \* not a job
  Faults      \* the faults in play: "leave", "cancel", "deadline", "stop", "restart", "docker"

StackJobsAssumption == /\ NoJob \notin Jobs
                      /\ Faults \subseteq {"leave", "cancel", "deadline", "stop", "restart", "docker"}

Active == {"running", "cancel_requested"}
Terminal == {"succeeded", "failed", "cancelled", "timed_out"}

VARIABLES
  disk,      \* [compose, conf, data]: the stack's file and directories
  containers,
  baseline,  \* {} or {hash of the definition deployed last}
  job,       \* per slot: row, worker and request
  lock,      \* the job that holds the stack, or NoJob
  stopping   \* the application context is cancelled

vars == <<disk, containers, baseline, job, lock, stopping>>

NewJob == [kind |-> "none", arg |-> {}, deploy |-> FALSE, steps |-> <<>>, pc |-> "new", at |-> 1,
           state |-> "none", wf |-> <<>>, mem |-> <<>>, held |-> <<>>, cancelling |-> <<>>,
           err |-> "none", out |-> "none", registered |-> FALSE, gone |-> FALSE, lost |-> FALSE, audit |-> <<>>]

Init ==
  /\ disk = [compose |-> AbsentFile, conf |-> FALSE, data |-> FALSE]
  /\ containers = {} /\ baseline = {}
  /\ job = [j \in Jobs |-> NewJob] /\ lock = NoJob /\ stopping = FALSE

(* The stack as a reader finds it; Docker may fail to answer and is then read as no containers. *)
Found(seen) == discoveredStack(scanDefinition(disk.compose), baseline, seen, disk.compose)
Seen == {containers} \cup (IF "docker" \in Faults THEN {{}} ELSE {})

Free == disk = [compose |-> AbsentFile, conf |-> FALSE, data |-> FALSE] /\ containers = {}

Step(j, to) == job' = [job EXCEPT ![j] = to]

-----------------------------------------------------------------------------
(* Requests: what the handlers check before they ask for the lease. *)
createWorkflowSteps(deploy) == IF deploy THEN <<"create_stack", "up">> ELSE <<"create_stack">>

Request(j, kind, arg, deploy, steps) ==
  /\ job[j].pc = "new"
  /\ Step(j, [NewJob EXCEPT !.kind = kind, !.arg = arg, !.deploy = deploy, !.steps = steps, !.pc = "start"])
  /\ UNCHANGED <<disk, containers, baseline, lock, stopping>>

EnsureCreateStackAvailable == Free

handleCreateStack(j) ==
  EnsureCreateStackAvailable /\ \E c \in Contents, d \in Deploys : Request(j, "create", c, d, createWorkflowSteps(d))

handleDeleteStack(j) ==
  \E r \in Removals, s \in Seen : Found(s).found /\ Request(j, "delete", {}, FALSE, r)

handlePutDefinition(j) == \E c \in Contents : Request(j, "save", c, FALSE, <<>>)

validateStackActionRequest(a) == \E s \in Seen : Found(s).found /\ a \in Found(s).actions

handleRunStackAction(j) ==
  \E a \in Actions : validateStackActionRequest(a) /\ Request(j, a, {}, FALSE, <<a>>)

(* jobs.start: the first step is running, the others queued. A client that has left makes the insertion fail. *)
StartWithWorkflow(j) ==
  LET r == job[j]
      wf == [i \in 1..Len(r.steps) |-> IF i = 1 THEN "running" ELSE "queued"]
      pc == IF r.kind \in {"create", "save"} THEN "files" ELSE "step"
  IN /\ r.pc = "start"
     /\ IF lock # NoJob \/ r.gone
        THEN Step(j, [r EXCEPT !.pc = "done"]) /\ lock' = lock
        ELSE /\ lock' = j
             /\ Step(j, [r EXCEPT !.pc = pc, !.state = "running", !.wf = wf, !.mem = wf, !.held = wf,
                                  !.registered = pc = "step", !.err = IF pc = "step" /\ stopping THEN "cancelled" ELSE "none"])
     /\ UNCHANGED <<disk, containers, baseline, stopping>>

-----------------------------------------------------------------------------
(* Creation. The directories are made one by one; a failure removes the ones made here. *)
CreateStackChecks(j) ==
  LET r == job[j] IN
  /\ r.pc = "files" /\ r.kind = "create"
  /\ \E ok \in BOOLEAN :
       Step(j, IF ok /\ EnsureCreateStackAvailable /\ ~r.gone THEN [r EXCEPT !.pc = "mkdir"]
               ELSE [r EXCEPT !.pc = "finish", !.out = "failed",
                              !.held = [i \in DOMAIN r.mem |-> IF i = 1 THEN "failed" ELSE "skipped"]])
  /\ UNCHANGED <<disk, containers, baseline, lock, stopping>>

(* Outcomes of CreateStack: all made, or a conflict or an I/O error and the cleanup of createdPaths. *)
CreateStackFails ==
  {[ok |-> FALSE, disk |-> disk]}

CreateStack(j) ==
  LET r == job[j]
      made == IF disk.conf \/ disk.data THEN {} ELSE
              {[ok |-> TRUE, disk |-> [disk EXCEPT !.compose = ComposeFile(r.arg, FALSE), !.conf = TRUE, !.data = TRUE]]}
      mem == [i \in DOMAIN r.mem |-> IF i = 1 THEN "succeeded" ELSE "running"]
  IN /\ r.pc = "mkdir"
     /\ \E res \in made \cup CreateStackFails :
          /\ disk' = res.disk
          /\ Step(j, CASE ~res.ok -> [r EXCEPT !.pc = "finish", !.out = "failed",
                                               !.held = [i \in DOMAIN r.mem |-> IF i = 1 THEN "failed" ELSE "skipped"]]
                       \* UpdateWorkflow with the request's context: a client that has left loses the job value
                       [] res.ok /\ r.gone -> [r EXCEPT !.mem = mem, !.lost = TRUE, !.at = 2, !.out = "succeeded",
                                                        !.err = IF stopping THEN "cancelled" ELSE "none",
                                                        !.pc = IF r.deploy THEN "step" ELSE "finish"]
                       [] OTHER -> [r EXCEPT !.mem = mem, !.wf = mem, !.held = mem, !.at = 2, !.out = "succeeded",
                                             !.registered = r.deploy, !.err = IF stopping THEN "cancelled" ELSE "none",
                                             !.pc = IF r.deploy THEN "step" ELSE "finish"])
     /\ UNCHANGED <<containers, baseline, lock, stopping>>

(* SaveDefinition under its mutex: a missing or orphaned stack, or a failed write, changes nothing. *)
SaveDefinition(j) ==
  LET r == job[j] IN
  /\ r.pc = "files" /\ r.kind = "save"
  /\ \E ok \in BOOLEAN, s \in Seen :
       IF ok /\ ~r.gone /\ Found(s).found /\ Found(s).runtime # "orphaned"
       THEN disk' = [disk EXCEPT !.compose = ComposeFile(r.arg, FALSE)] /\ Step(j, [r EXCEPT !.pc = "finish", !.out = "succeeded"])
       ELSE disk' = disk /\ Step(j, [r EXCEPT !.pc = "finish", !.out = "failed"])
  /\ UNCHANGED <<containers, baseline, lock, stopping>>

-----------------------------------------------------------------------------
(* The worker. terminalState is what the failure handlers make of an error. *)
terminalState(r) ==
  IF r.kind = "create" THEN "failed"
  ELSE CASE r.err = "deadline" -> "timed_out" [] r.err = "cancelled" -> "cancelled" [] OTHER -> "failed"

(* A failed step: its state and the job's are chosen here and stored by the steps that follow. *)
FailStep(r) == [r EXCEPT !.pc = "closing", !.out = terminalState(r)]

(* A context that is already done ends the step before it has any effect. *)
CheckContext(j) ==
  LET r == job[j] IN
  /\ r.pc = "step"
  /\ Step(j, IF r.err # "none" THEN FailStep(r) ELSE [r EXCEPT !.pc = "command"])
  /\ UNCHANGED <<disk, containers, baseline, lock, stopping>>

Running(compose) == {[id |-> s, svc |-> s, status |-> "running"] : s \in compose.services}

Now == [ok |-> TRUE, compose |-> disk.compose, conf |-> disk.conf, data |-> disk.data, containers |-> containers, base |-> baseline]
Fails(S) == {[e EXCEPT !.ok = FALSE] : e \in S}

(* RemoveRuntime: nothing to do without containers; Docker must answer. *)
RemoveRuntime ==
  UNION {IF ~Found(s).found THEN Fails({Now})
         ELSE Fails({Now}) \cup (IF s = {} THEN {Now} ELSE {[Now EXCEPT !.containers = {}]}) : s \in Seen}

(* RemoveDefinition removes the files first and the baseline last, with the worker's context. *)
RemoveDefinition(r) ==
  LET files == [Now EXCEPT !.compose = AbsentFile] IN
  Fails({Now, files}) \cup (IF r.err = "none" THEN {[files EXCEPT !.base = {}]} ELSE {})

(* Outcomes of a Compose action; a command that fails or is killed may have had its effect. *)
RunAction(a) ==
  LET effect == CASE a \in {"up", "recreate"} -> [Now EXCEPT !.containers = Running(disk.compose)]
                  [] a = "down" -> [Now EXCEPT !.containers = {}]
                  [] a = "stop" -> [Now EXCEPT !.containers = {[c EXCEPT !.status = "exited"] : c \in containers}]
                  [] a = "restart" -> [Now EXCEPT !.containers = {[c EXCEPT !.status = "running"] : c \in containers}]
                  [] OTHER -> Now
  IN UNION {IF Found(s).found /\ a \in Found(s).actions THEN {effect} \cup Fails({Now, effect}) ELSE Fails({Now}) : s \in Seen}

Effects(r) ==
  CASE r.kind # "delete" -> RunAction(r.steps[r.at])
    [] r.steps[r.at] = "down" -> RemoveRuntime
    [] r.steps[r.at] = "remove_stack_definition" -> RemoveDefinition(r)
    [] r.steps[r.at] = "remove_config" -> {[Now EXCEPT !.conf = FALSE]} \cup Fails({Now})
    [] r.steps[r.at] = "remove_data" -> {[Now EXCEPT !.data = FALSE]} \cup Fails({Now})

(* A removal step that is done: the slice moves on; the row and the job value follow only while the context lives. *)
runDeleteStackJob(r) ==
  LET last == r.at = Len(r.steps)
      mem == [i \in DOMAIN r.mem |-> CASE i = r.at -> "succeeded" [] i = r.at + 1 -> "running" [] OTHER -> r.mem[i]]
      moved == [r EXCEPT !.mem = mem, !.at = IF last THEN r.at ELSE r.at + 1,
                         !.pc = IF last THEN "finish" ELSE "step", !.out = "succeeded"]
  IN IF r.err = "none" THEN [moved EXCEPT !.wf = mem, !.held = mem] ELSE moved

RunCommand(j) ==
  LET r == job[j] IN
  /\ r.pc = "command"
  /\ \E e \in Effects(r) :
       /\ disk' = [compose |-> e.compose, conf |-> e.conf, data |-> e.data]
       /\ containers' = e.containers /\ baseline' = e.base
       /\ Step(j, IF ~e.ok THEN FailStep(r)
                  ELSE IF r.kind = "delete" THEN runDeleteStackJob(r)
                  ELSE [r EXCEPT !.pc = "closing", !.out = "succeeded"])
  /\ UNCHANGED <<lock, stopping>>

(* RecordDeployBaseline reads the file as it is now. *)
RecordDeployBaseline == baseline' = IF disk.compose.kind = "valid" THEN {contentSHA256(disk.compose)} ELSE baseline

(* Mutation: the outcome of the step is only published, not saved. *)
UpdateWorkflowForgotten(j) ==
  LET r == job[j] IN
  /\ r.pc = "closing"
  /\ Step(j, [r EXCEPT !.pc = "finish"])
  /\ UNCHANGED <<disk, containers, baseline, lock, stopping>>

(* The outcome of the step, with a context of its own; a creation records its baseline first. *)
UpdateWorkflow(j) ==
  LET r == job[j]
      mem == [r.mem EXCEPT ![r.at] = r.out]
  IN /\ r.pc = "closing"
     /\ Step(j, IF r.lost THEN [r EXCEPT !.mem = mem, !.pc = "finish"]
                ELSE [r EXCEPT !.mem = mem, !.wf = mem, !.held = mem, !.pc = "finish"])
     /\ IF r.kind = "create" /\ r.out = "succeeded" THEN RecordDeployBaseline ELSE baseline' = baseline
     /\ UNCHANGED <<disk, containers, lock, stopping>>

(* The handlers of create (without deployment) and save finish with the request's context; everything else has its own. *)
RequestContext(r) ==
  \/ r.kind = "save"
  \/ r.kind = "create" /\ ~r.deploy /\ r.out = "succeeded"

(* The terminal transition writes the job value's workflow and gives the lease back. *)
Finish(j) ==
  LET r == job[j] IN
  /\ r.pc = "finish"
  /\ IF r.lost \/ (r.gone /\ RequestContext(r))
     THEN Step(j, [r EXCEPT !.pc = "done", !.registered = FALSE]) /\ lock' = lock
     ELSE /\ Step(j, [r EXCEPT !.state = r.out, !.wf = r.held,
                               !.pc = IF r.out = "succeeded" /\ r.kind \in {"up", "recreate"} THEN "baseline" ELSE "audit"])
          /\ lock' = NoJob
  /\ UNCHANGED <<disk, containers, baseline, stopping>>

(* runStackActionJob records the baseline after the lease is gone. *)
AfterFinish(j) ==
  /\ job[j].pc = "baseline"
  /\ RecordDeployBaseline
  /\ Step(j, [job[j] EXCEPT !.pc = "audit"])
  /\ UNCHANGED <<disk, containers, lock, stopping>>

RecordStackJob(j) ==
  LET r == job[j] IN
  /\ r.pc = "audit"
  /\ Step(j, [r EXCEPT !.pc = "done", !.registered = FALSE,
                       !.audit = IF r.gone /\ RequestContext(r) THEN r.audit ELSE Append(r.audit, r.state)])
  /\ UNCHANGED <<disk, containers, baseline, lock, stopping>>

-----------------------------------------------------------------------------
(* Cancel reads the row, then stores its copy with the state cancel_requested, then cancels the context. *)
CancelRead(j) ==
  /\ "cancel" \in Faults
  /\ job[j].state = "running" /\ job[j].registered /\ job[j].cancelling = <<>>
  /\ Step(j, [job[j] EXCEPT !.cancelling = <<job[j].wf>>])
  /\ UNCHANGED <<disk, containers, baseline, lock, stopping>>

markWorkflowCancelRequested(wf) ==
  LET open == {i \in DOMAIN wf : wf[i] \in {"running", "queued"}} IN
  IF open = {} THEN wf ELSE [wf EXCEPT ![CHOOSE i \in open : \A k \in open : i <= k] = "cancel_requested"]

CancelCommit(j) ==
  LET r == job[j] IN
  /\ r.cancelling # <<>>
  /\ Step(j, IF r.state # "running" THEN [r EXCEPT !.cancelling = <<>>]
             ELSE [r EXCEPT !.cancelling = <<>>, !.state = "cancel_requested", !.wf = markWorkflowCancelRequested(r.cancelling[1]),
                            !.err = IF r.err = "none" THEN "cancelled" ELSE r.err])
  /\ UNCHANGED <<disk, containers, baseline, lock, stopping>>

(* The deadline of the worker's context. *)
Deadline(j) ==
  /\ "deadline" \in Faults /\ job[j].pc \in {"step", "command"} /\ job[j].err = "none"
  /\ Step(j, [job[j] EXCEPT !.err = "deadline"])
  /\ UNCHANGED <<disk, containers, baseline, lock, stopping>>

(* The client's connection ends while its handler runs. *)
Leave(j) ==
  /\ "leave" \in Faults /\ job[j].pc \in {"start", "files", "mkdir", "finish", "audit"} /\ ~job[j].gone
  /\ Step(j, [job[j] EXCEPT !.gone = TRUE])
  /\ UNCHANGED <<disk, containers, baseline, lock, stopping>>

(* Shutdown cancels the application context, and with it every worker's; workers that come later start cancelled. *)
BeginShutdown ==
  /\ "stop" \in Faults /\ ~stopping
  /\ stopping' = TRUE
  /\ job' = [j \in Jobs |-> IF job[j].pc \in {"step", "command"} /\ job[j].err = "none" THEN [job[j] EXCEPT !.err = "cancelled"] ELSE job[j]]
  /\ UNCHANGED <<disk, containers, baseline, lock>>

interruptedWorkflow(wf) ==
  LET running == {i \in DOMAIN wf : wf[i] = "running"}
      open == IF running # {} THEN running ELSE {i \in DOMAIN wf : wf[i] \in {"queued", "cancel_requested"}}
  IN IF open = {} THEN wf ELSE [wf EXCEPT ![CHOOSE i \in open : \A k \in open : i <= k] = "failed"]

(* The process dies and starts again: active rows fail; they are audited only if the whole reconciliation succeeded. *)
Restart ==
  /\ "restart" \in Faults /\ \E j \in Jobs : job[j].pc \notin {"new", "done"}
  /\ stopping' = FALSE /\ lock' = NoJob
  /\ \E complete \in BOOLEAN :
       job' = [j \in Jobs |->
                 LET r == [job[j] EXCEPT !.registered = FALSE, !.cancelling = <<>>, !.gone = TRUE, !.pc = IF job[j].pc = "new" THEN "new" ELSE "done"] IN
                 IF r.state \notin Active THEN r
                 ELSE [r EXCEPT !.state = "failed", !.wf = interruptedWorkflow(r.wf),
                                !.audit = IF complete THEN Append(r.audit, "failed") ELSE r.audit]]
  /\ UNCHANGED <<disk, containers, baseline>>

(* The operator makes the data directory by hand. *)
Mkdir ==
  /\ ~disk.data /\ \E j \in Jobs : job[j].pc = "mkdir"
  /\ disk' = [disk EXCEPT !.data = TRUE]
  /\ UNCHANGED <<containers, baseline, job, lock, stopping>>

-----------------------------------------------------------------------------
Work(j) ==
  \/ StartWithWorkflow(j)
  \/ CreateStackChecks(j) \/ CreateStack(j) \/ SaveDefinition(j)
  \/ CheckContext(j) \/ RunCommand(j) \/ UpdateWorkflow(j)
  \/ Finish(j) \/ AfterFinish(j) \/ RecordStackJob(j)

Requests(j) == handleCreateStack(j) \/ handleDeleteStack(j) \/ handlePutDefinition(j) \/ handleRunStackAction(j)

Next ==
  \/ \E j \in Jobs : Requests(j) \/ Work(j) \/ CancelRead(j) \/ CancelCommit(j) \/ Deadline(j) \/ Leave(j)
  \/ BeginShutdown \/ Restart \/ Mkdir

Spec == Init /\ [][Next]_vars

-----------------------------------------------------------------------------

(* The audit log has at most one entry for a job and it tells the state that the row keeps: nothing that comes late, a
   cancellation or a second finish, changes a row that was audited (RecordStackJob, TransitionJobWithEvents). *)
AuditTellsTheRow ==
  \A j \in Jobs : Len(job[j].audit) <= 1 /\ (job[j].audit # <<>> => job[j].audit = <<job[j].state>>)

(* A finished creation or Compose action shows no step as still going on, and one that succeeded shows only succeeded
   steps, although a cancellation may have overwritten the workflow from an older copy (Cancel, UpdateWorkflow, finish). *)
StepsSettled ==
  \A j \in Jobs : job[j].kind # "delete" /\ job[j].state \in Terminal /\ job[j].pc \in {"baseline", "audit"} =>
    \A i \in DOMAIN job[j].wf :
      /\ job[j].wf[i] \notin {"running", "cancel_requested"}
      /\ job[j].state = "succeeded" => job[j].wf[i] = "succeeded"

(* A creation that fails removes only what it made: a directory that somebody else made meanwhile stays (createdPaths). *)
CreationRemovesItsOwn ==
  \A j \in Jobs : job[j].kind = "create" /\ CreateStack(j) => (disk.data => disk'.data) /\ (disk.conf => disk'.conf)

(* The audit log, the row and the steps of a finished job tell one story, whatever cancellation
   or second finish came late. *)
RecordIsTruthful == AuditTellsTheRow /\ StepsSettled
===============================================================================
